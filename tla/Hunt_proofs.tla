----------------------------- MODULE Hunt_proofs -----------------------------
(* What holds of the boss's body for every table, and of its walks and its   *)
(* prey for every number of monsters, points and ids.                        *)
EXTENDS Hunt, TLAPS

----------------------------------------------------------------------------
(* The boss's body.                                                          *)

\* What a hit takes is a number that is not negative.
LEMMA DamageIsNatural ==
  ASSUME NEW part \in HitParts, NEW type \in HunterTypes
  PROVE  Processed(part, type) \in Nat
<1>1. WeaknessOf(part) \in [HunterTypes -> Nat]
  BY MonsterHealthAssumption DEF WeaknessOf, HitParts, Groups, Columns
<1> DEFINE w == WeaknessOf(part)[type] \div 10
<1>2. w \in Nat
  BY <1>1
<1> HIDE DEF w
<1>3. TempDamage * w \in Nat
  BY <1>2, MonsterHealthAssumption
<1> QED
  BY <1>3 DEF Processed, w

InfoType == [able : BOOLEAN, need : Int, taken : Int]

\* An effect that has happened is no longer able to, and one that has not has counted the damage.
LEMMA TakeType ==
  ASSUME NEW s \in InfoType, NEW d \in Nat
  PROVE  /\ Take(s, d) \in InfoType /\ Take(s, d).need = s.need
         /\ Reaches(s, d) => Take(s, d).able = FALSE
         /\ Take(s, d).able => s.able /\ ~Reaches(s, d) /\ Take(s, d).taken = s.taken + d
<1>1. CASE Reaches(s, d)
  <2> DEFINE t == [able |-> FALSE, need |-> s.need, taken |-> 0]
  <2>1. Take(s, d) = t
    BY <1>1 DEF Take, Reaches
  <2>2. t = [able |-> FALSE, need |-> s.need, taken |-> 0]
    OBVIOUS
  <2>3. s.need \in Int
    BY DEF InfoType
  <2> HIDE DEF t
  <2>4. t \in InfoType /\ t.need = s.need
    BY <2>2, <2>3 DEF InfoType
  <2>5. t.able = FALSE
    BY <2>2
  <2> QED
    BY <1>1, <2>1, <2>4, <2>5
<1>2. CASE s.able /\ ~Reaches(s, d)
  BY <1>2 DEF Take, InfoType
<1>3. CASE ~s.able /\ ~Reaches(s, d)
  BY <1>3 DEF Take, InfoType
<1> QED
  BY <1>1, <1>2, <1>3

BodyTypeOK ==
  /\ hp \in Int
  /\ state \in [Groups -> [Effects -> InfoType]]
  /\ looks \in [Groups -> SUBSET {"default", "wounded", "cutsurface"}]
  /\ told \in [Groups -> [Effects -> Nat]]
HealthInv == BodyTypeOK /\ EffectsHappenOnce /\ MeshShowsDamage

\* The boss starts whole.
LEMMA HealthInitHolds ==
  ASSUME HealthInit
  PROVE  HealthInv
<1>1. ASSUME NEW g \in Groups
      PROVE  Debuff(DamageInfo[g]) \in [Effects -> InfoType]
  <2>1. ASSUME NEW flag \in 1..3, NEW column \in 1..3
        PROVE  [able |-> DamageInfo[g][flag] # -1, taken |-> 0,
                need |-> IF DamageInfo[g][flag] # -1 THEN DamageInfo[g][column] ELSE 0] \in InfoType
    BY MonsterHealthAssumption DEF InfoType
  <2> QED
    BY <2>1 DEF Debuff, Effects
<1>2. ASSUME NEW g \in Groups, NEW e \in Effects
      PROVE  Debuff(DamageInfo[g])[e].taken = 0
  BY DEF Debuff, Effects
<1>3. BodyTypeOK
  BY <1>1, MonsterHealthAssumption DEF HealthInit, BodyTypeOK, BossBodyParts, FirstLooks
<1>4. EffectsHappenOnce
  BY <1>2 DEF HealthInit, BossBodyParts, EffectsHappenOnce
<1>5. MeshShowsDamage
  BY DEF HealthInit, FirstLooks, MeshShowsDamage, Effects
<1> QED
  BY <1>3, <1>4, <1>5 DEF HealthInv

\* What a hit does to one effect of the part it meets: EffectsHappenOnce, read
\* for one effect of one part.
OneEffectOnce(s, n) ==
  n <= 1 /\ (s.able => n = 0 /\ (s.taken < s.need \/ s.taken = 0))

\* An effect that was told at most once still is after a hit.
LEMMA TakeHappensOnce ==
  ASSUME NEW s \in InfoType, NEW n \in Nat, NEW d \in Nat, OneEffectOnce(s, n)
  PROVE  OneEffectOnce(Take(s, d), IF Reaches(s, d) THEN n + 1 ELSE n)
<1>1. CASE Reaches(s, d)
  <2>1. s.able
    BY <1>1 DEF Reaches
  <2>2. n = 0
    BY <2>1 DEF OneEffectOnce
  <2>3. Take(s, d).able = FALSE
    BY <1>1, TakeType
  <2> QED
    BY <1>1, <2>2, <2>3 DEF OneEffectOnce
<1>2. CASE ~Reaches(s, d) /\ s.able
  <2>1. Take(s, d).taken = s.taken + d /\ Take(s, d).need = s.need
    BY <1>2, TakeType DEF Take, InfoType
  <2>2. s.taken + d < s.need
    BY <1>2 DEF Reaches, InfoType
  <2> QED
    BY <1>2, <2>1, <2>2 DEF OneEffectOnce
<1>3. CASE ~Reaches(s, d) /\ ~s.able
  BY <1>3, TakeType DEF OneEffectOnce
<1> QED
  BY <1>1, <1>2, <1>3

\* MeshShowsDamage, read for one part.
MeshShows(h, look, count) ==
  /\ h \in Wounded => ("wounded" \in look <=> count["wound"] > 0)
  /\ h \in Whole => ("default" \in look <=> count["break"] + count["sever"] = 0)
  /\ h \in CutSurface => ("cutsurface" \in look <=> count["break"] + count["sever"] > 0)

\* What the mesh shows of a part agrees with what it has been told after a hit, too.
LEMMA LooksFollow ==
  ASSUME NEW h \in Groups, NEW count \in [Effects -> Nat], NEW happens \in SUBSET Effects,
         MeshShows(h, looks[h], count)
  PROVE  MeshShows(h, LooksAfter(h, happens),
                   [e \in Effects |-> IF e \in happens THEN count[e] + 1 ELSE count[e]])
<1> DEFINE broken == "break" \in happens \/ "sever" \in happens
           after == [e \in Effects |-> IF e \in happens THEN count[e] + 1 ELSE count[e]]
<1>1. /\ count["wound"] \in Nat /\ count["break"] \in Nat /\ count["sever"] \in Nat
      /\ after["wound"] = IF "wound" \in happens THEN count["wound"] + 1 ELSE count["wound"]
      /\ after["break"] = IF "break" \in happens THEN count["break"] + 1 ELSE count["break"]
      /\ after["sever"] = IF "sever" \in happens THEN count["sever"] + 1 ELSE count["sever"]
  BY DEF Effects
<1>2. h \in Wounded =>
        ("wounded" \in LooksAfter(h, happens) <=> "wounded" \in looks[h] \/ "wound" \in happens)
  BY DEF LooksAfter, Shows, Hides, Effects
<1>3. "default" \in LooksAfter(h, happens) <=> "default" \in looks[h] /\ ~broken
  BY DEF LooksAfter, Shows, Hides, Effects
<1>4. h \in CutSurface =>
        ("cutsurface" \in LooksAfter(h, happens) <=> "cutsurface" \in looks[h] \/ broken)
  BY DEF LooksAfter, Shows, Hides, Effects
<1> HIDE DEF after
<1> QED
  BY <1>1, <1>2, <1>3, <1>4 DEF MeshShows, after

\* Every step of the body keeps its invariant.
LEMMA HealthStep ==
  ASSUME HealthInv, [HealthNext]_healthVars
  PROVE  HealthInv'
<1>1. ASSUME NEW part \in HitParts \cup OtherParts, NEW type \in HunterTypes \cup OtherTypes,
             ProcessDamage(part, type)
      PROVE  HealthInv'
  <2> DEFINE g == GroupOf(part)
             damage == Processed(part, type)
             happens == Happens(g, type, damage)
  <2>1. part \in HitParts /\ type \in HunterTypes
    BY <1>1 DEF ProcessDamage, IsReceivedAttackValid
  <2>2. g \in Groups /\ damage \in Nat
    BY <2>1, DamageIsNatural DEF GroupOf, HitParts, Groups
  <2>3. /\ state' = [state EXCEPT ![g] = [e \in Effects |->
                        IF e \in Tried(type) THEN Take(state[g][e], damage) ELSE state[g][e]]]
        /\ looks' = [looks EXCEPT ![g] = LooksAfter(g, happens)]
        /\ told' = [told EXCEPT ![g] = [e \in Effects |->
                       IF e \in happens THEN told[g][e] + 1 ELSE told[g][e]]]
        /\ hp' = hp - damage
    BY <1>1 DEF ProcessDamage
  <2> HIDE DEF g, damage
  <2>4. BodyTypeOK
    BY DEF HealthInv
  <2>5. happens \subseteq Effects \cap Tried(type) /\ \A e \in Tried(type) : e \in happens <=> Reaches(state[g][e], damage)
    BY DEF Happens, Tried, Effects
  <2> HIDE DEF happens
  <2>6. LooksAfter(g, happens) \in SUBSET {"default", "wounded", "cutsurface"}
    BY <2>2, <2>4 DEF LooksAfter, Shows, BodyTypeOK
  <2>7. \A e \in Effects : Take(state[g][e], damage) \in InfoType
    BY <2>2, <2>4, TakeType DEF BodyTypeOK
  <2>8. BodyTypeOK'
    BY <2>2, <2>3, <2>4, <2>6, <2>7 DEF BodyTypeOK
  <2>9. EffectsHappenOnce'
    <3>1. ASSUME NEW h \in Groups, NEW e \in Effects
          PROVE  OneEffectOnce(state'[h][e], told'[h][e])
      <4>1. OneEffectOnce(state[h][e], told[h][e])
        BY DEF HealthInv, EffectsHappenOnce, OneEffectOnce
      <4>2. state[h][e] \in InfoType /\ told[h][e] \in Nat
        BY <2>4 DEF BodyTypeOK
      <4>3. CASE h = g /\ e \in Tried(type)
        <5>1. state'[h][e] = Take(state[h][e], damage)
          BY <2>2, <2>3, <2>4, <4>3 DEF BodyTypeOK
        <5>2. told'[h][e] = IF Reaches(state[h][e], damage) THEN told[h][e] + 1 ELSE told[h][e]
          BY <2>2, <2>3, <2>4, <2>5, <4>3 DEF BodyTypeOK
        <5> QED
          BY <2>2, <4>1, <4>2, <5>1, <5>2, TakeHappensOnce
      <4>4. CASE h # g \/ e \notin Tried(type)
        <5>1. state'[h][e] = state[h][e] /\ told'[h][e] = told[h][e]
          BY <2>2, <2>3, <2>4, <2>5, <4>4 DEF BodyTypeOK
        <5> QED
          BY <4>1, <5>1
      <4> QED
        BY <4>3, <4>4
    <3> QED
      BY <3>1 DEF EffectsHappenOnce, OneEffectOnce
  <2>10. MeshShowsDamage'
    <3>1. ASSUME NEW h \in Groups
          PROVE  MeshShows(h, looks'[h], told'[h])
      <4>1. MeshShows(h, looks[h], told[h])
        BY DEF HealthInv, MeshShowsDamage, MeshShows
      <4>2. CASE h = g
        <5>1. looks'[h] = LooksAfter(h, happens)
          BY <2>2, <2>3, <2>4, <4>2 DEF BodyTypeOK
        <5>2. told'[h] = [e \in Effects |-> IF e \in happens THEN told[h][e] + 1 ELSE told[h][e]]
          BY <2>2, <2>3, <2>4, <4>2 DEF BodyTypeOK
        <5>3. told[h] \in [Effects -> Nat]
          BY <2>4 DEF BodyTypeOK
        <5> QED
          BY <2>5, <4>1, <5>1, <5>2, <5>3, LooksFollow
      <4>3. CASE h # g
        <5>1. looks'[h] = looks[h] /\ told'[h] = told[h]
          BY <2>2, <2>3, <2>4, <4>3 DEF BodyTypeOK
        <5> QED
          BY <4>1, <5>1
      <4> QED
        BY <4>2, <4>3
    <3> QED
      BY <3>1 DEF MeshShowsDamage, MeshShows
  <2> QED
    BY <2>8, <2>9, <2>10 DEF HealthInv
<1>2. CASE UNCHANGED healthVars
  BY <1>2 DEF healthVars, HealthInv, BodyTypeOK, EffectsHappenOnce, MeshShowsDamage
<1> QED
  BY <1>1, <1>2 DEF HealthNext, IgnoredHit

(* No part is told twice to be wounded, broken or severed, whatever the      *)
(* table's columns hold (AZMonsterHealthComponent.cpp:102-227).              *)
THEOREM EffectsAlwaysHappenOnce == HealthSpec => []EffectsHappenOnce
<1>1. HealthInit => HealthInv
  BY HealthInitHolds
<1>2. HealthInv /\ [HealthNext]_healthVars => HealthInv'
  BY HealthStep
<1>3. HealthInv => EffectsHappenOnce
  BY DEF HealthInv
<1> QED
  BY <1>1, <1>2, <1>3, PTL DEF HealthSpec

(* The mesh component, which hears of the damage by broadcasts alone, shows  *)
(* what the health component knows (AZMonsterMeshComponent.cpp:108-168).     *)
THEOREM MeshAlwaysShowsDamage == HealthSpec => []MeshShowsDamage
<1>1. HealthInit => HealthInv
  BY HealthInitHolds
<1>2. HealthInv /\ [HealthNext]_healthVars => HealthInv'
  BY HealthStep
<1>3. HealthInv => MeshShowsDamage
  BY DEF HealthInv
<1> QED
  BY <1>1, <1>2, <1>3, PTL DEF HealthSpec

----------------------------------------------------------------------------
(* The walks.  As long as the task node is not shared, one message at most   *)
(* is on its way to a monster, and none while a request is active; a walking *)
(* monster's task waits for the active request or for the message.  Nothing  *)
(* is said once the node was shared, and it is shared for ever.              *)

Message == [id : Ids, ok : BOOLEAN]
OneMail == {<<>>} \cup {<<r>> : r \in Message}

WalkTypes ==
  /\ mode \in [Monsters -> {"Normal", "Transition", "Combat"}]
  /\ prio \in [Monsters -> {"Locomotion", "Action"}]
  /\ move \in [Monsters -> {"None", "StopMove", "Walk"}]
  /\ active \in [Monsters -> Ids \cup {Invalid}] /\ nextId \in [Monsters -> Ids]
  /\ mail \in [Monsters -> OneMail]
  /\ bt \in [Monsters -> {"idle", "move"}]
  /\ waits \in [Monsters -> SUBSET Ids]
  /\ dead \in [Monsters -> BOOLEAN] /\ aborted \in [Monsters -> BOOLEAN]
  /\ node \in [owner : Monsters \cup {NoMonster}, index : Nat, num : Nat]

\* the messages that answer a request, and the request that is under way
Waited(m, msgs, request, set) ==
  \/ request \in set
  \/ \E r \in Message : msgs = <<r>> /\ r.id \in set

Sane(m) ==
  /\ mail[m] # <<>> => active[m] = Invalid
  /\ mail[m] # <<>> => bt[m] = "move" \/ IsInCombat(m) \/ dead[m]
  /\ IsMoving(m) => \/ bt[m] = "move" /\ Waited(m, mail[m], active[m], waits[m])
                    \/ aborted[m] \/ dead[m]
  /\ aborted[m] => IsInCombat(m)
  /\ bt[m] = "move" => node.owner = m
WalkInv == WalkTypes /\ \A m \in Monsters : Sane(m)
MonsterInv == shared \in BOOLEAN /\ (~shared => WalkInv)

\* An id is a number below IdSpace, whatever is added before the division.
LEMMA IdsWrap ==
  /\ Invalid \notin Ids /\ 0 \in Ids /\ Ids \subseteq Nat
  /\ \A a \in Nat : a % IdSpace \in Ids
<1>1. IdSpace \in Nat /\ IdSpace > 0
  BY MonsterAssumption
<1>2. Invalid \notin Ids /\ 0 \in Ids /\ Ids \subseteq Nat
  BY <1>1 DEF Invalid, Ids
<1>3. ASSUME NEW a \in Nat
      PROVE  a % IdSpace \in Ids
  BY <1>1 DEF Ids
<1> QED
  BY <1>2, <1>3

\* A monster that was just made stands still and awaits nothing.
LEMMA MonsterInitHolds ==
  ASSUME Init
  PROVE  MonsterInv
<1>1. WalkTypes
  BY IdsWrap DEF Init, WalkTypes, OneMail
<1>2. ASSUME NEW m \in Monsters
      PROVE  Sane(m)
  BY DEF Init, Sane, IsMoving
<1> QED
  BY <1>1, <1>2 DEF Init, MonsterInv, WalkInv

\* One message on its way is one answer, that of the task's request or none.
LEMMA MailOfOne ==
  ASSUME WalkTypes, NEW m \in Monsters, NEW ok \in BOOLEAN,
         mail[m] = <<>>, active[m] # Invalid, Send(m, active[m], ok)
  PROVE  /\ mail' \in [Monsters -> OneMail]
         /\ mail'[m] = <<[id |-> active[m], ok |-> ok]>>
         /\ [id |-> active[m], ok |-> ok] \in Message
         /\ \A o \in Monsters \ {m} : mail'[o] = mail[o]
<1> DEFINE r == [id |-> active[m], ok |-> ok]
<1>1. r \in Message
  BY DEF WalkTypes, Message
<1>2. Append(mail[m], r) = <<r>>
  OBVIOUS
<1>3. mail' = [mail EXCEPT ![m] = <<r>>]
  BY <1>2 DEF Send
<1>4. <<r>> \in OneMail
  BY <1>1 DEF OneMail
<1> HIDE DEF r
<1>5. mail' \in [Monsters -> OneMail] /\ mail'[m] = <<r>>
      /\ \A o \in Monsters \ {m} : mail'[o] = mail[o]
  BY <1>3, <1>4 DEF WalkTypes
<1> QED
  BY <1>1, <1>5 DEF r

\* A walk that arrives turns its request into the message the task waits for.
LEMMA TickKeeps ==
  ASSUME WalkInv, NEW m \in Monsters, Tick(m)
  PROVE  WalkInv'
<1>1. mail[m] = <<>>
  BY DEF Tick, WalkInv, Sane
<1>2. /\ mail' \in [Monsters -> OneMail]
      /\ mail'[m] = <<[id |-> active[m], ok |-> TRUE]>>
      /\ [id |-> active[m], ok |-> TRUE] \in Message
      /\ \A o \in Monsters \ {m} : mail'[o] = mail[o]
  BY <1>1, MailOfOne DEF Tick, WalkInv
<1>3. active' = [active EXCEPT ![m] = Invalid]
  BY DEF Tick
<1>4. /\ UNCHANGED <<mode, prio, move, nextId, bt, waits, node, dead, aborted>>
  BY DEF Tick, bodyVars, treeVars
<1>5. WalkTypes'
  BY <1>2, <1>3, <1>4 DEF WalkInv, WalkTypes
<1>6. ASSUME NEW o \in Monsters, o # m
      PROVE  Sane(o)'
  BY <1>2, <1>3, <1>4, <1>6 DEF WalkInv, WalkTypes, Sane, IsMoving, IsInCombat, Waited
<1>7. Sane(m)'
  <2>1. active'[m] = Invalid
    BY <1>3 DEF WalkInv, WalkTypes
  <2>2. \/ bt[m] = "move" /\ Waited(m, mail[m], active[m], waits[m])
        \/ aborted[m] \/ dead[m]
    BY DEF WalkInv, Sane, Tick
  <2>3. Waited(m, mail[m], active[m], waits[m]) => active[m] \in waits[m]
    BY <1>1 DEF Waited
  <2>4. active[m] \in waits[m] => Waited(m, mail'[m], active'[m], waits[m])
    BY <1>2 DEF Waited
  <2> QED
    BY <1>4, <2>1, <2>2, <2>3, <2>4 DEF WalkInv, Sane, IsMoving, IsInCombat
<1> QED
  BY <1>5, <1>6, <1>7 DEF WalkInv

\* A request that a detected player ends is answered with a failure.
LEMMA DetectionKeeps ==
  ASSUME WalkInv, NEW m \in Monsters, OnPlayerDetected(m)
  PROVE  WalkInv'
<1>1. /\ mode' \in [Monsters -> {"Normal", "Transition", "Combat"}]
      /\ mode'[m] # "Normal"
      /\ \A o \in Monsters \ {m} : mode'[o] = mode[o]
  BY DEF OnPlayerDetected, SetActionMode, WalkInv, WalkTypes
<1>2. active' = [active EXCEPT ![m] = Invalid]
  BY DEF OnPlayerDetected
<1>3. UNCHANGED <<prio, move, nextId, bt, waits, node, dead, aborted>>
  BY DEF OnPlayerDetected, treeVars
<1>4. /\ mail' \in [Monsters -> OneMail]
      /\ \A o \in Monsters \ {m} : mail'[o] = mail[o]
      /\ Waited(m, mail[m], active[m], waits[m]) => Waited(m, mail'[m], Invalid, waits[m])
  <2>1. CASE active[m] = Invalid
    BY <2>1 DEF OnPlayerDetected, WalkInv, WalkTypes
  <2>2. CASE active[m] # Invalid
    <3>1. mail[m] = <<>> /\ Send(m, active[m], FALSE)
      BY <2>2 DEF OnPlayerDetected, WalkInv, Sane
    <3>2. FALSE \in BOOLEAN
      OBVIOUS
    <3>3. /\ mail' \in [Monsters -> OneMail]
          /\ mail'[m] = <<[id |-> active[m], ok |-> FALSE]>>
          /\ [id |-> active[m], ok |-> FALSE] \in Message
          /\ \A o \in Monsters \ {m} : mail'[o] = mail[o]
      BY <2>2, <3>1, <3>2, MailOfOne DEF WalkInv
    <3> QED
      BY <3>1, <3>3 DEF Waited
  <2> QED
    BY <2>1, <2>2
<1>5. WalkTypes'
  BY <1>1, <1>2, <1>3, <1>4 DEF WalkInv, WalkTypes
<1>6. ASSUME NEW o \in Monsters, o # m
      PROVE  Sane(o)'
  BY <1>1, <1>2, <1>3, <1>4, <1>6 DEF WalkInv, WalkTypes, Sane, IsMoving, IsInCombat, Waited
<1>7. Sane(m)'
  <2>1. active'[m] = Invalid
    BY <1>2 DEF WalkInv, WalkTypes
  <2> QED
    BY <1>1, <1>3, <1>4, <2>1 DEF WalkInv, Sane, IsMoving, IsInCombat
<1> QED
  BY <1>5, <1>6, <1>7 DEF WalkInv

\* A dead monster has no task left, and nothing is asked of its walk.
LEMMA DeathKeeps ==
  ASSUME WalkInv, NEW m \in Monsters, SetDead(m)
  PROVE  WalkInv'
<1>1. /\ dead' \in [Monsters -> BOOLEAN] /\ dead'[m] /\ mail'[m] = <<>> /\ bt'[m] = "idle"
      /\ bt' \in [Monsters -> {"idle", "move"}] /\ waits' \in [Monsters -> SUBSET Ids]
      /\ \A o \in Monsters \ {m} : /\ dead'[o] = dead[o] /\ mail'[o] = mail[o]
                                   /\ bt'[o] = bt[o] /\ waits'[o] = waits[o]
  BY DEF SetDead, WalkInv, WalkTypes
<1>2. mail' \in [Monsters -> OneMail]
  BY DEF SetDead, WalkInv, WalkTypes, OneMail
<1>3. UNCHANGED <<mode, prio, move, active, nextId, node, aborted>>
  BY DEF SetDead, bodyVars, requestVars
<1>4. WalkTypes'
  BY <1>1, <1>2, <1>3 DEF WalkInv, WalkTypes
<1>5. ASSUME NEW o \in Monsters, o # m
      PROVE  Sane(o)'
  BY <1>1, <1>3, <1>5 DEF WalkInv, Sane, IsMoving, IsInCombat, Waited
<1>6. Sane(m)'
  BY <1>1, <1>3 DEF WalkInv, Sane, IsMoving, IsInCombat
<1> QED
  BY <1>4, <1>5, <1>6 DEF WalkInv

\* What MoveBegin leaves when the node is the monster's own.
Begun(m, result) ==
  /\ active' \in [Monsters -> Ids \cup {Invalid}] /\ nextId' \in [Monsters -> Ids]
  /\ waits' \in [Monsters -> SUBSET Ids]
  /\ \A o \in Monsters \ {m} : active'[o] = active[o] /\ waits'[o] = waits[o]
  /\ result = "InProgress" => active'[m] \in waits'[m]
  /\ node' \in [owner : Monsters \cup {NoMonster}, index : Nat, num : Nat]
  /\ node'.owner = m

\* A request that is in progress is one that the task waits for.
LEMMA MoveBeginWaits ==
  ASSUME WalkTypes, NEW m \in Monsters, NEW i \in Nat, NEW num \in Nat,
         NEW moving \in BOOLEAN, NEW result, MoveBegin(m, m, i, num, moving, result)
  PROVE  Begun(m, result)
<1>1. ASSUME NEW n \in Nat, NewIds(m, n)
      PROVE  /\ active' \in [Monsters -> Ids \cup {Invalid}] /\ nextId' \in [Monsters -> Ids]
             /\ \A o \in Monsters \ {m} : active'[o] = active[o]
             /\ n # 0 => active'[m] \in Ids
  <2>1. nextId[m] \in Nat
    BY IdsWrap DEF WalkTypes
  <2>2. (nextId[m] + n) % IdSpace \in Ids
    BY <2>1, IdsWrap
  <2>3. nextId' \in [Monsters -> Ids]
    BY <1>1, <2>2 DEF NewIds, WalkTypes
  <2>4. CASE n = 0
    BY <1>1, <2>3, <2>4 DEF NewIds, WalkTypes
  <2>5. CASE n # 0
    <3>1. nextId[m] + n - 1 \in Nat
      BY <2>1, <2>5
    <3>2. (nextId[m] + n - 1) % IdSpace \in Ids
      BY <3>1, IdsWrap
    <3>3. active' = [active EXCEPT ![m] = (nextId[m] + n - 1) % IdSpace]
      BY <1>1, <2>5 DEF NewIds
    <3> QED
      BY <2>3, <3>2, <3>3 DEF WalkTypes
  <2> QED
    BY <2>4, <2>5
<1>2. CASE /\ i >= num /\ result = "Failed"
           /\ NewIds(m, 0) /\ node' = [owner |-> m, index |-> i, num |-> num]
           /\ UNCHANGED <<reached, waits>>
  BY <1>1, <1>2 DEF Begun, WalkTypes
<1>3. CASE /\ i < num /\ result = "Succeeded"
           /\ NewIds(m, num - i) /\ node' = [owner |-> m, index |-> num - 1, num |-> num]
           /\ UNCHANGED waits
  <2>1. num - i \in Nat /\ num - 1 \in Nat
    BY <1>3
  <2> QED
    BY <1>1, <1>3, <2>1 DEF Begun, WalkTypes
<1>4. CASE \E j \in i..(num - 1) :
             /\ result = IF moving THEN "Failed" ELSE "InProgress"
             /\ NewIds(m, j - i + 1) /\ node' = [owner |-> m, index |-> j, num |-> num]
             /\ waits' = IF moving THEN waits ELSE [waits EXCEPT ![m] = @ \cup {active'[m]}]
  <2>1. PICK j \in i..(num - 1) :
             /\ result = IF moving THEN "Failed" ELSE "InProgress"
             /\ NewIds(m, j - i + 1) /\ node' = [owner |-> m, index |-> j, num |-> num]
             /\ waits' = IF moving THEN waits ELSE [waits EXCEPT ![m] = @ \cup {active'[m]}]
    BY <1>4
  <2>2. j - i + 1 \in Nat /\ j - i + 1 # 0 /\ j \in Nat
    OBVIOUS
  <2>3. /\ active' \in [Monsters -> Ids \cup {Invalid}] /\ nextId' \in [Monsters -> Ids]
        /\ \A o \in Monsters \ {m} : active'[o] = active[o]
        /\ active'[m] \in Ids
    BY <1>1, <2>1, <2>2
  <2>4. node' \in [owner : Monsters \cup {NoMonster}, index : Nat, num : Nat] /\ node'.owner = m
    BY <2>1, <2>2
  <2>5. CASE moving
    BY <2>1, <2>3, <2>4, <2>5 DEF Begun, WalkTypes
  <2>6. CASE ~moving
    <3>1. waits' = [waits EXCEPT ![m] = @ \cup {active'[m]}]
      BY <2>1, <2>6
    <3>2. /\ waits' \in [Monsters -> SUBSET Ids]
          /\ active'[m] \in waits'[m]
          /\ \A o \in Monsters \ {m} : waits'[o] = waits[o]
      BY <2>3, <3>1 DEF WalkTypes
    <3> QED
      BY <2>3, <2>4, <3>2 DEF Begun
  <2> QED
    BY <2>5, <2>6
<1> QED
  BY <1>2, <1>3, <1>4 DEF MoveBegin

\* Every new walk is the walk of a monster whose task is then the only one.
LEMMA ExecuteKeeps ==
  ASSUME WalkInv, NEW m \in Monsters, ExecuteTask(m), ~shared'
  PROVE  WalkInv'
<1>1. /\ ~dead[m] /\ ~IsInCombat(m) /\ bt[m] = "idle"
      /\ UNCHANGED <<mode, mail, dead, aborted>>
      /\ \A o \in Monsters \ {m} : bt[o] # "move"
  BY DEF ExecuteTask
<1>2. mail[m] = <<>> /\ ~IsMoving(m) /\ ~aborted[m]
  BY <1>1 DEF WalkInv, Sane
<1>3. ASSUME UNCHANGED <<prio, move, requestVars, waits>>,
             bt' = bt \/ bt' = [bt EXCEPT ![m] = "move"],
             node' = [node EXCEPT !.owner = m, !.index = 1]
      PROVE  WalkInv'
  <2>1. WalkTypes'
    BY <1>1, <1>3 DEF WalkInv, WalkTypes, requestVars
  <2>2. node'.owner = m
    BY <1>3 DEF WalkInv, WalkTypes
  <2>3. bt'[m] \in {"idle", "move"} /\ \A o \in Monsters \ {m} : bt'[o] = bt[o]
    BY <1>1, <1>3 DEF WalkInv, WalkTypes
  <2>4. Sane(m)'
    BY <1>1, <1>2, <1>3, <2>2 DEF WalkInv, Sane, IsMoving, IsInCombat, requestVars
  <2>5. ASSUME NEW o \in Monsters, o # m
        PROVE  Sane(o)'
    BY <1>1, <1>3, <2>3, <2>5 DEF WalkInv, Sane, IsMoving, IsInCombat, Waited, requestVars
  <2> QED
    BY <2>1, <2>4, <2>5 DEF WalkInv
<1>4. ASSUME NEW num \in 0..MaxPoints, NEW result \in {"Failed", "Succeeded", "InProgress"},
             MoveBegin(m, m, 1, num, IsMoving(m), result), Walks(m, result),
             bt' = [bt EXCEPT ![m] = IF result = "InProgress" THEN "move" ELSE "idle"]
      PROVE  WalkInv'
  <2>1. Begun(m, result)
    <3>1. num \in Nat /\ 1 \in Nat
      BY MonsterAssumption
    <3>2. IsMoving(m) \in BOOLEAN
      BY DEF IsMoving
    <3> QED
      BY <1>4, <3>1, <3>2, MoveBeginWaits DEF WalkInv
  <2>2. bt' \in [Monsters -> {"idle", "move"}]
        /\ bt'[m] = (IF result = "InProgress" THEN "move" ELSE "idle")
        /\ \A o \in Monsters \ {m} : bt'[o] = bt[o]
    BY <1>4 DEF WalkInv, WalkTypes
  <2>3. /\ prio' \in [Monsters -> {"Locomotion", "Action"}]
        /\ move' \in [Monsters -> {"None", "StopMove", "Walk"}]
        /\ \A o \in Monsters \ {m} : prio'[o] = prio[o] /\ move'[o] = move[o]
        /\ result # "InProgress" => prio' = prio /\ move' = move
    BY <1>4 DEF Walks, SetMoveState, WalkInv, WalkTypes
  <2>4. WalkTypes'
    BY <1>1, <2>1, <2>2, <2>3 DEF WalkInv, WalkTypes, Begun
  <2>5. Sane(m)'
    <3>1. CASE result = "InProgress"
      <4>1. Waited(m, mail'[m], active'[m], waits'[m])
        BY <2>1, <3>1 DEF Begun, Waited
      <4> QED
        BY <1>1, <1>2, <2>1, <2>2, <3>1, <4>1 DEF Sane, Begun
    <3>2. CASE result # "InProgress"
      BY <1>1, <1>2, <2>1, <2>2, <2>3, <3>2 DEF Sane, Begun, IsMoving
    <3> QED
      BY <3>1, <3>2
  <2>6. ASSUME NEW o \in Monsters, o # m
        PROVE  Sane(o)'
    BY <1>1, <2>1, <2>2, <2>3, <2>6 DEF WalkInv, Sane, IsMoving, IsInCombat, Waited, Begun
  <2> QED
    BY <2>4, <2>5, <2>6 DEF WalkInv
<1> QED
  BY <1>3, <1>4 DEF ExecuteTask

\* A message that the task waits for ends the walk, or begins the next one.
LEMMA DeliveryKeeps ==
  ASSUME WalkInv, NEW m \in Monsters, Deliver(m)
  PROVE  WalkInv'
<1>1. PICK r \in Message : mail[m] = <<r>>
  BY DEF Deliver, WalkInv, WalkTypes, OneMail
<1>2. /\ mail' = [mail EXCEPT ![m] = <<>>] /\ Head(mail[m]) = r
      /\ UNCHANGED <<mode, dead, aborted>>
  BY <1>1 DEF Deliver
<1>3. /\ mail' \in [Monsters -> OneMail] /\ mail'[m] = <<>>
      /\ \A o \in Monsters \ {m} : mail'[o] = mail[o]
  BY <1>2 DEF WalkInv, WalkTypes, OneMail
<1>4. active[m] = Invalid
  BY DEF WalkInv, Sane, Deliver
<1>5. CASE ~(bt[m] = "move" /\ r.id \in waits[m])
  <2>1. UNCHANGED <<prio, move, active, nextId, bt, waits, node>>
    BY <1>2, <1>5 DEF Deliver, requestVars, treeVars
  <2>2. WalkTypes'
    BY <1>2, <1>3, <2>1 DEF WalkInv, WalkTypes
  <2>3. ~(bt[m] = "move" /\ Waited(m, mail[m], active[m], waits[m]))
    <3>1. active[m] \notin waits[m]
      BY <1>4, IdsWrap DEF WalkInv, WalkTypes
    <3>2. \A q \in Message : mail[m] = <<q>> => q = r
      BY <1>1
    <3> QED
      BY <1>5, <3>1, <3>2 DEF Waited
  <2>4. Sane(m)'
    BY <1>2, <1>3, <2>1, <2>3 DEF WalkInv, Sane, IsMoving, IsInCombat
  <2>5. ASSUME NEW o \in Monsters, o # m
        PROVE  Sane(o)'
    BY <1>2, <1>3, <2>1, <2>5 DEF WalkInv, Sane, IsMoving, IsInCombat, Waited
  <2> QED
    BY <2>2, <2>4, <2>5 DEF WalkInv
<1>6. CASE bt[m] = "move" /\ r.id \in waits[m]
  <2>1. node.owner = m /\ OnMessage(m, r.ok)
    BY <1>2, <1>6 DEF Deliver, WalkInv, Sane
  <2>2. \A o \in Monsters \ {m} : bt[o] # "move"
    BY <2>1 DEF WalkInv, Sane
  <2>3. ASSUME NEW result \in {"Failed", "Succeeded", "InProgress"},
               MoveBegin(m, m, node.index + 1, node.num, FALSE, result),
               SetMoveState(m, IF result = "InProgress" THEN "Walk" ELSE "StopMove"),
               bt' = bt
        PROVE  WalkInv'
    <3>1. Begun(m, result)
      <4>1. node.index + 1 \in Nat /\ node.num \in Nat
        BY DEF WalkInv, WalkTypes
      <4>2. FALSE \in BOOLEAN
        OBVIOUS
      <4> QED
        BY <2>3, <4>1, <4>2, MoveBeginWaits DEF WalkInv
    <3>2. /\ prio' \in [Monsters -> {"Locomotion", "Action"}]
          /\ move' \in [Monsters -> {"None", "StopMove", "Walk"}]
          /\ \A o \in Monsters \ {m} : prio'[o] = prio[o] /\ move'[o] = move[o]
          /\ result # "InProgress" => move'[m] # "Walk"
      BY <2>3 DEF SetMoveState, WalkInv, WalkTypes
    <3>3. WalkTypes'
      BY <1>2, <1>3, <2>3, <3>1, <3>2 DEF WalkInv, WalkTypes, Begun
    <3>4. Sane(m)'
      <4>1. result = "InProgress" => Waited(m, mail'[m], active'[m], waits'[m])
        BY <3>1 DEF Begun, Waited
      <4> QED
        BY <1>2, <1>3, <1>6, <2>3, <3>1, <3>2, <4>1 DEF WalkInv, Sane, Begun, IsMoving, IsInCombat
    <3>5. ASSUME NEW o \in Monsters, o # m
          PROVE  Sane(o)'
      BY <1>2, <1>3, <2>2, <2>3, <3>1, <3>2, <3>5
         DEF WalkInv, Sane, IsMoving, IsInCombat, Waited, Begun
    <3> QED
      BY <3>3, <3>4, <3>5 DEF WalkInv
  <2>4. ASSUME SetMoveState(m, "StopMove"), Finished(m), UNCHANGED <<requestVars, node>>
        PROVE  WalkInv'
    <3>1. /\ prio' \in [Monsters -> {"Locomotion", "Action"}]
          /\ move' \in [Monsters -> {"None", "StopMove", "Walk"}]
          /\ \A o \in Monsters \ {m} : prio'[o] = prio[o] /\ move'[o] = move[o]
          /\ move'[m] # "Walk"
      BY <2>4 DEF SetMoveState, WalkInv, WalkTypes
    <3>2. /\ bt' \in [Monsters -> {"idle", "move"}] /\ waits' \in [Monsters -> SUBSET Ids]
          /\ bt'[m] = "idle"
          /\ \A o \in Monsters \ {m} : bt'[o] = bt[o] /\ waits'[o] = waits[o]
      BY <2>4 DEF Finished, WalkInv, WalkTypes
    <3>3. WalkTypes'
      BY <1>2, <1>3, <2>4, <3>1, <3>2 DEF WalkInv, WalkTypes, requestVars
    <3>4. Sane(m)'
      BY <1>2, <1>3, <3>1, <3>2 DEF WalkInv, Sane, IsMoving, IsInCombat
    <3>5. ASSUME NEW o \in Monsters, o # m
          PROVE  Sane(o)'
      BY <1>2, <1>3, <2>4, <3>1, <3>2, <3>5
         DEF WalkInv, Sane, IsMoving, IsInCombat, Waited, requestVars
    <3> QED
      BY <3>3, <3>4, <3>5 DEF WalkInv
  <2>5. CASE r.ok /\ MorePoints
    <3>1. PICK result \in {"Failed", "Succeeded", "InProgress"} :
            /\ MoveBegin(m, m, node.index + 1, node.num, FALSE, result)
            /\ SetMoveState(m, IF result = "InProgress" THEN "Walk" ELSE "StopMove")
            /\ bt' = bt
      BY <2>1, <2>5 DEF OnMessage
    <3> QED
      BY <2>3, <3>1
  <2>6. CASE ~(r.ok /\ MorePoints)
    <3>1. SetMoveState(m, "StopMove") /\ Finished(m) /\ UNCHANGED <<requestVars, node>>
      BY <2>1, <2>6 DEF OnMessage
    <3> QED
      BY <2>4, <3>1
  <2> QED
    BY <2>5, <2>6
<1> QED
  BY <1>5, <1>6

\* An aborted task waits no longer, and the walk it leaves is excused.
LEMMA AbortKeeps ==
  ASSUME WalkInv, NEW m \in Monsters, Abort(m)
  PROVE  WalkInv'
<1>1. UNCHANGED <<mode, prio, move, active, nextId, mail, node, dead>> /\ IsInCombat(m)
  BY DEF Abort, bodyVars, requestVars
<1>2. /\ bt' \in [Monsters -> {"idle", "move"}] /\ waits' \in [Monsters -> SUBSET Ids]
      /\ bt'[m] = "idle"
      /\ \A o \in Monsters \ {m} : bt'[o] = bt[o] /\ waits'[o] = waits[o]
  BY DEF Abort, Finished, WalkInv, WalkTypes
<1>3. /\ aborted' \in [Monsters -> BOOLEAN] /\ aborted'[m]
      /\ \A o \in Monsters \ {m} : aborted'[o] = aborted[o]
  BY DEF Abort, WalkInv, WalkTypes
<1>4. WalkTypes'
  BY <1>1, <1>2, <1>3 DEF WalkInv, WalkTypes
<1>5. Sane(m)'
  BY <1>1, <1>2, <1>3 DEF WalkInv, Sane, IsMoving, IsInCombat
<1>6. ASSUME NEW o \in Monsters, o # m
      PROVE  Sane(o)'
  BY <1>1, <1>2, <1>3, <1>6 DEF WalkInv, Sane, IsMoving, IsInCombat, Waited
<1> QED
  BY <1>4, <1>5, <1>6 DEF WalkInv

\* Steps that touch no request: whoever walks afterwards walked before.
LEMMA OthersKeep ==
  ASSUME WalkInv, NEW m \in Monsters,
         UNCHANGED <<active, nextId, mail, bt, waits, node, dead, aborted>>,
         mode' \in [Monsters -> {"Normal", "Transition", "Combat"}],
         prio' \in [Monsters -> {"Locomotion", "Action"}],
         move' \in [Monsters -> {"None", "StopMove", "Walk"}],
         \A o \in Monsters : /\ IsInCombat(o) => IsInCombat(o)'
                             /\ IsMoving(o)' => IsMoving(o)
  PROVE  WalkInv'
<1>1. WalkTypes'
  BY DEF WalkInv, WalkTypes
<1>2. ASSUME NEW o \in Monsters
      PROVE  Sane(o)'
  BY <1>2 DEF WalkInv, Sane, Waited
<1> QED
  BY <1>1, <1>2 DEF WalkInv

\* What the body does of itself begins no walk.
LEMMA ActionsKeep ==
  ASSUME WalkInv, NEW m \in Monsters,
         \/ SelectAction(m) \/ PlayAction(m) \/ AnimNotify_EndOfAction(m)
         \/ AnimNotify_JumpToAnimation(m) \/ Walk(m)
  PROVE  WalkInv'
<1>1. CASE SelectAction(m)
  <2>1. UNCHANGED <<mode, move, active, nextId, mail, bt, waits, node, dead, aborted>>
    BY <1>1 DEF SelectAction, requestVars, treeVars
  <2>2. prio' \in [Monsters -> {"Locomotion", "Action"}]
        /\ \A o \in Monsters : prio'[o] = "Action" \/ prio'[o] = prio[o]
    BY <1>1 DEF SelectAction, WalkInv, WalkTypes
  <2> QED
    BY <2>1, <2>2, OthersKeep DEF IsMoving, IsInCombat, WalkInv, WalkTypes
<1>2. CASE PlayAction(m) \/ AnimNotify_JumpToAnimation(m) \/ Walk(m)
  <2>1. UNCHANGED <<mode, prio, move, active, nextId, mail, bt, waits, node, dead, aborted>>
    BY <1>2 DEF PlayAction, AnimNotify_JumpToAnimation, Walk, bodyVars, requestVars, treeVars
  <2> QED
    BY <2>1, OthersKeep DEF IsMoving, IsInCombat, WalkInv, WalkTypes
<1>3. CASE AnimNotify_EndOfAction(m)
  <2>1. UNCHANGED <<active, nextId, mail, bt, waits, node, dead, aborted>>
    BY <1>3 DEF AnimNotify_EndOfAction, requestVars, treeVars
  <2>2. mode' \in [Monsters -> {"Normal", "Transition", "Combat"}]
        /\ \A o \in Monsters : mode[o] # "Normal" => mode'[o] # "Normal"
    BY <1>3 DEF AnimNotify_EndOfAction, SetActionMode, WalkInv, WalkTypes
  <2>3. /\ prio' \in [Monsters -> {"Locomotion", "Action"}]
        /\ move' \in [Monsters -> {"None", "StopMove", "Walk"}]
        /\ move'[m] = "None"
        /\ \A o \in Monsters \ {m} : prio'[o] = prio[o] /\ move'[o] = move[o]
    BY <1>3 DEF AnimNotify_EndOfAction, SetMoveState, WalkInv, WalkTypes
  <2>4. \A o \in Monsters : IsMoving(o)' => IsMoving(o)
    BY <2>3 DEF IsMoving
  <2> QED
    BY <2>1, <2>2, <2>3, <2>4, OthersKeep DEF IsInCombat
<1> QED
  BY <1>1, <1>2, <1>3

\* Every step keeps the invariant.
LEMMA MonsterStep ==
  ASSUME MonsterInv, [Next]_vars
  PROVE  MonsterInv'
<1>1. CASE UNCHANGED vars
  BY <1>1 DEF vars, bodyVars, animVars, requestVars, treeVars,
     MonsterInv, WalkInv, WalkTypes, Sane, IsMoving, IsInCombat, Waited
<1>2. CASE Next
  <2>1. PICK m \in Monsters :
          \/ Tick(m) \/ OnPlayerDetected(m) \/ SetDead(m)
          \/ ExecuteTask(m) \/ Deliver(m) \/ Abort(m)
          \/ SelectAction(m) \/ PlayAction(m)
          \/ AnimNotify_EndOfAction(m) \/ AnimNotify_JumpToAnimation(m)
          \/ Walk(m)
    BY <1>2 DEF Next
  <2>2. CASE ExecuteTask(m)
    <3>1. shared' \in BOOLEAN /\ (~shared' => ~shared)
      BY <2>2 DEF ExecuteTask, MonsterInv
    <3> QED
      BY <2>2, <3>1, ExecuteKeeps DEF MonsterInv
  <2>3. CASE ~ExecuteTask(m)
    <3>1. shared' = shared
      BY <2>1, <2>3 DEF Tick, OnPlayerDetected, SetDead, Deliver, Abort, SelectAction,
         PlayAction, AnimNotify_EndOfAction, AnimNotify_JumpToAnimation, Walk
    <3>2. ~shared => WalkInv'
      BY <2>1, <2>3, TickKeeps, DetectionKeeps, DeathKeeps, DeliveryKeeps, AbortKeeps,
         ActionsKeep DEF MonsterInv
    <3> QED
      BY <3>1, <3>2 DEF MonsterInv
  <2> QED
    BY <2>2, <2>3
<1> QED
  BY <1>1, <1>2

\* So they always hold.
LEMMA MonsterInvariant == Spec => []MonsterInv
<1>1. Init => MonsterInv
  BY MonsterInitHolds
<1>2. MonsterInv /\ [Next]_vars => MonsterInv'
  BY MonsterStep
<1> QED
  BY <1>1, <1>2, PTL DEF Spec

\* The invariant says of sets of answers what Waited says of messages.
LEMMA AnswersOfOne ==
  ASSUME WalkInv, NEW m \in Monsters
  PROVE  /\ Waited(m, mail[m], active[m], waits[m]) =>
              waits[m] \cap (Answers(m) \cup {active[m]}) # {}
         /\ active[m] \notin Answers(m)
         /\ \A j, k \in DOMAIN mail[m] : j = k
<1>1. CASE mail[m] = <<>>
  BY <1>1 DEF Waited, Answers
<1>2. CASE mail[m] # <<>>
  <2>1. PICK r \in Message : mail[m] = <<r>>
    BY <1>2 DEF WalkInv, WalkTypes, OneMail
  <2>2. DOMAIN mail[m] = {1} /\ mail[m][1] = r
    BY <2>1
  <2>3. Answers(m) = {r.id}
    BY <2>2 DEF Answers
  <2>4. r.id \in Ids /\ active[m] = Invalid
    BY <1>2 DEF WalkInv, Sane, Message
  <2>5. \A q \in Message : mail[m] = <<q>> => q = r
    BY <2>1
  <2> QED
    BY <2>2, <2>3, <2>4, <2>5, IdsWrap DEF Waited
<1> QED
  BY <1>1, <1>2

(* A monster walks only while its Move task will be told of the end, however *)
(* detection, animations, death and aborts come in between, for any number   *)
(* of monsters, points and ids (AZAIController.cpp:93-97, 204-212,           *)
(* BTTask_Move.cpp:23-54, 96-130).                                           *)
THEOREM WalkersAreAwaited == Spec => []MovingIsAwaited
<1>1. MonsterInv => MovingIsAwaited
  <2> SUFFICES ASSUME MonsterInv, ~shared, NEW m \in Monsters, IsMoving(m)
               PROVE  Awaited(m) \/ aborted[m] \/ dead[m]
    BY DEF MovingIsAwaited
  <2> QED
    BY AnswersOfOne DEF MonsterInv, WalkInv, Sane, Awaited
<1> QED
  BY <1>1, MonsterInvariant, PTL

(* No request is answered twice: by the time a message is under way no       *)
(* request is active, also when the 32 bits of the ids wrap around           *)
(* (AZAIController.cpp:78-108, 193-217).                                     *)
THEOREM RequestsAreAnsweredOnce == Spec => []OneAnswerPerRequest
<1>1. MonsterInv => OneAnswerPerRequest
  <2> SUFFICES ASSUME MonsterInv, ~shared, NEW m \in Monsters
               PROVE  /\ active[m] \notin Answers(m)
                      /\ \A j, k \in DOMAIN mail[m] : mail[m][j].id = mail[m][k].id => j = k
    BY DEF OneAnswerPerRequest
  <2> QED
    BY AnswersOfOne DEF MonsterInv
<1> QED
  BY <1>1, MonsterInvariant, PTL

----------------------------------------------------------------------------
(* The prey.                                                                 *)

PreyInv ==
  /\ mode \in [Monsters -> {"Normal", "Transition", "Combat"}]
  /\ best \in Players \cup {NoPlayer} /\ target \in Players \cup {NoPlayer}
  /\ CombatHasTarget

\* The mode leaves "Normal" by detection alone.
LEMMA CombatBeginsByDetection ==
  ASSUME NEW m \in Monsters, mode \in [Monsters -> {"Normal", "Transition", "Combat"}],
         \/ SetDead(m) \/ SelectAction(m) \/ Moves(m) \/ UNCHANGED vars
  PROVE  /\ mode' \in [Monsters -> {"Normal", "Transition", "Combat"}]
         /\ \A o \in Monsters : IsInCombat(o)' => IsInCombat(o)
<1>1. CASE AnimNotify_EndOfAction(m)
  BY <1>1 DEF AnimNotify_EndOfAction, SetActionMode, IsInCombat
<1>2. CASE ~AnimNotify_EndOfAction(m)
  <2>1. mode' = mode
    BY <1>2 DEF SetDead, SelectAction, Moves, Tick, Deliver, Abort, Walk, ExecuteTask,
       PlayAction, AnimNotify_JumpToAnimation, bodyVars, vars
  <2> QED
    BY <2>1 DEF IsInCombat
<1> QED
  BY <1>1, <1>2

\* Every step of a hunt keeps a target for whoever fights.
LEMMA PreyStep ==
  ASSUME PreyInv, [HuntNext]_huntVars
  PROVE  PreyInv'
<1>1. Hunted \in Monsters /\ First \in Players /\ NoPlayer \notin Players
  BY HuntAssumption
<1>2. CASE \E p \in Players : DetectPlayer(p)
  <2>1. PICK p \in Players : DetectPlayer(p)
    BY <1>2
  <2>2. best' = p /\ target' = p
    BY <2>1 DEF DetectPlayer, Targeted
  <2>3. mode' \in [Monsters -> {"Normal", "Transition", "Combat"}]
    BY <2>1 DEF DetectPlayer, OnPlayerDetected, SetActionMode, PreyInv
  <2> QED
    BY <1>1, <2>2, <2>3 DEF PreyInv, CombatHasTarget
<1>3. CASE FindTarget
  <2>1. mode' = mode /\ best' = best
    BY <1>3 DEF FindTarget, vars, bodyVars
  <2>2. CASE UNCHANGED <<target, bereft>>
    BY <2>1, <2>2 DEF PreyInv, CombatHasTarget, IsInCombat
  <2>3. CASE First \in here /\ target' = First /\ bereft' = bereft \ {"target"}
    BY <1>1, <2>1, <2>3 DEF PreyInv, CombatHasTarget, IsInCombat
  <2>4. CASE First \notin here /\ target' = NoPlayer /\ bereft' = bereft \cup {"target"}
    BY <2>1, <2>4 DEF PreyInv, CombatHasTarget, IsInCombat
  <2> QED
    BY <1>3, <2>2, <2>3, <2>4 DEF FindTarget, GetPlayerCharacter
<1>4. ASSUME NEW p \in Players, CharacterGoes(p)
      PROVE  PreyInv'
  <2>1. /\ mode' = mode
        /\ best' \in {best, NoPlayer} /\ target' \in {target, NoPlayer}
    BY <1>4 DEF CharacterGoes, vars, bodyVars
  <2>2. bereft \subseteq bereft'
    BY <1>4 DEF CharacterGoes
  <2>3. /\ best' # best => "best" \in bereft'
        /\ target' # target => "target" \in bereft'
    BY <1>4 DEF CharacterGoes
  <2> QED
    BY <2>1, <2>2, <2>3 DEF PreyInv, CombatHasTarget, IsInCombat
<1>5. ASSUME UNCHANGED <<best, target, bereft>>,
             SetDead(Hunted) \/ SelectAction(Hunted) \/ Moves(Hunted) \/ UNCHANGED vars
      PROVE  PreyInv'
  <2>1. /\ mode' \in [Monsters -> {"Normal", "Transition", "Combat"}]
        /\ IsInCombat(Hunted)' => IsInCombat(Hunted)
    BY <1>1, <1>5, CombatBeginsByDetection DEF PreyInv
  <2> QED
    BY <1>5, <2>1 DEF PreyInv, CombatHasTarget
<1>6. ASSUME NEW p \in Players, CharacterComes(p)
       PROVE  PreyInv'
  BY <1>5, <1>6 DEF CharacterComes
<1>7. CASE PatrolBegin \/ AnimNotify_DoSphereTrace \/ UNCHANGED huntVars
  BY <1>5, <1>7 DEF PatrolBegin, AnimNotify_DoSphereTrace, huntVars, preyVars
<1>8. CASE \E near \in BOOLEAN : SelectRandomAction(near)
  BY <1>5, <1>8 DEF SelectRandomAction, preyVars
<1>9. CASE \E part \in HitParts \cup OtherParts, type \in HunterTypes \cup OtherTypes : Hit(part, type)
  BY <1>5, <1>9 DEF Hit, preyVars
<1>10. CASE Moves(Hunted) /\ UNCHANGED <<healthVars, preyVars, patrol, crashed>>
  BY <1>5, <1>10 DEF preyVars
<1> QED
  BY <1>2, <1>3, <1>7, <1>8, <1>9, <1>10, <1>4, <1>6 DEF HuntNext

(* However players come and go, and whatever the service FindTarget and the  *)
(* notifies write in between: a boss in combat has prey in its aggro         *)
(* component and on the blackboard, unless the character there is gone or    *)
(* the service found none (AZAIController.cpp:193-217,                       *)
(* BTService_FindTarget.cpp:37-42, BTTask_SelectRandomAction.cpp:158).       *)
THEOREM FighterHasTarget == HuntSpec => []CombatHasTarget
<1>1. HuntInit => PreyInv
  BY HuntAssumption DEF HuntInit, Init, PerceptionInit, PreyInv, CombatHasTarget, IsInCombat
<1>2. PreyInv /\ [HuntNext]_huntVars => PreyInv'
  BY PreyStep
<1>3. PreyInv => CombatHasTarget
  BY DEF PreyInv
<1> QED
  BY <1>1, <1>2, <1>3, PTL DEF HuntSpec

=============================================================================
