--------------------------- MODULE MonsterHealth ----------------------------
(* What hits do to a boss: UAZMonsterHealthComponent keeps its health and    *)
(* what each part of its body has taken, UAZMonsterMeshComponent shows it.   *)
(* The two hear of a wounded, broken or severed part by the same broadcast,  *)
(* each with a handler of its own.  A monster that is no boss has no         *)
(* weaknesses, and a hit on one reads past the end of an empty array.        *)
EXTENDS Integers

CONSTANTS BaseHp,
          DamageInfo,     \* the columns damage_<part> of BossData, by group of parts
          Weakness,       \* the columns <column>_weakness of BossData, by type
          TempDamage,     \* temp_damage_, which stands in for every attack's damage
          Wounded, CutSurface, Whole     \* groups with a material of that mesh

Groups == {"Head", "Back", "LeftWing", "RightWing", "Tail", "Leg"}
HitParts == Groups \cup {"Neck", "Body"}
OtherParts == {"Default", "Eyelid"}
Columns == {"head", "neck", "body", "tail", "wing", "leg"}
HunterTypes == {"Cut", "Blunt", "Ammo"}
OtherTypes == {"Fire"}
Effects == {"wound", "break", "sever"}
Info == [Effects -> [able : BOOLEAN, need : Int, taken : Int]]

ASSUME MonsterHealthAssumption ==
  /\ BaseHp \in Nat \ {0} /\ TempDamage \in Nat
  /\ DamageInfo \in [Groups -> [1..3 -> Int]]
  /\ Weakness \in [Columns -> [HunterTypes -> Nat]]
  /\ Wounded \subseteq Groups /\ CutSurface \subseteq Groups /\ Whole \subseteq Groups

VARIABLES hp,      \* current_hp_
          state,   \* body_part_states_
          looks,   \* looks[g]: the meshes of a group that are opaque
          told     \* history: told[g][e] how often the broadcast of e was made

healthVars == <<hp, state, looks, told>>

\* FBossBodyPartDebuffInfo: which effect is possible is read from one column,
\* how much damage it takes from another
Debuff(info) ==
  LET of(flag, column) == [able |-> info[flag] # -1, taken |-> 0,
                           need |-> IF info[flag] # -1 THEN info[column] ELSE 0]
  IN  [wound |-> of(1, 3), break |-> of(2, 1), sever |-> of(3, 2)]

BossBodyParts == [g \in Groups |-> Debuff(DamageInfo[g])]

\* the materials that the mesh has for a group: of them only the whole one shows
FirstLooks == [g \in Groups |-> IF g \in Whole THEN {"default"} ELSE {}]

HealthInit ==
  /\ hp = BaseHp /\ state = BossBodyParts /\ looks = FirstLooks
  /\ told = [g \in Groups |-> [e \in Effects |-> 0]]

IsPendingKill == hp <= 0
GetHealthRatio == hp \div BaseHp        \* of two integers

GroupOf(part) == CASE part = "Neck" -> "Head" [] part = "Body" -> "Back" [] OTHER -> part

IsReceivedAttackValid(type, part) == part \notin OtherParts /\ type \notin OtherTypes

\* FBossWeaknessStats: both wings share a column, body and back another
WeaknessOf(part) ==
  Weakness[CASE part \in {"LeftWing", "RightWing"} -> "wing" [] part \in {"Body", "Back"} -> "body"
             [] part = "Head" -> "head" [] part = "Neck" -> "neck"
             [] part = "Tail" -> "tail" [] part = "Leg" -> "leg"]
Processed(part, type) == TempDamage * (WeaknessOf(part)[type] \div 10)

\* CheckBeWounded, CheckBeBroken and CheckBeSevered
Reaches(effect, damage) == effect.able /\ effect.need <= effect.taken + damage
\* Mutant: the effect stays possible after it was told.
TakeTwice(effect, damage) ==
  IF Reaches(effect, damage) THEN [effect EXCEPT !.taken = 0]
  ELSE IF effect.able THEN [effect EXCEPT !.taken = @ + damage] ELSE effect
Take(effect, damage) ==
  CASE Reaches(effect, damage) -> [able |-> FALSE, need |-> effect.need, taken |-> 0]
    [] effect.able /\ ~Reaches(effect, damage) -> [effect EXCEPT !.taken = @ + damage]
    [] OTHER -> effect

Tried(type) == IF type = "Cut" THEN Effects ELSE {"wound", "break"}
Happens(g, type, damage) == {e \in Tried(type) : Reaches(state[g][e], damage)}

\* the mesh's handlers of OnBodyPartWounded, OnBodyPartBroken, OnBodyPartSevered
Shows(g, e) ==
  IF e = "wound" THEN (IF g \in Wounded THEN {"wounded"} ELSE {})
                 ELSE (IF g \in CutSurface THEN {"cutsurface"} ELSE {})
Hides(e) == IF e = "wound" THEN {} ELSE {"default"}
\* Mutant: a broken part is not hidden.
LooksOverlaid(g, happens) == looks[g] \cup UNION {Shows(g, e) : e \in happens}
LooksAfter(g, happens) ==
  (looks[g] \ UNION {Hides(e) : e \in happens}) \cup UNION {Shows(g, e) : e \in happens}

\* ProcessDamage of a hit on a living boss: the parts first, then the health
ProcessDamage(part, type) ==
  /\ ~IsPendingKill /\ IsReceivedAttackValid(type, part)
  /\ LET g == GroupOf(part)
         damage == Processed(part, type)
         happens == Happens(g, type, damage)
     IN  /\ state' = [state EXCEPT ![g] = [e \in Effects |->
                        IF e \in Tried(type) THEN Take(@[e], damage) ELSE @[e]]]
         /\ looks' = [looks EXCEPT ![g] = LooksAfter(g, happens)]
         /\ told' = [told EXCEPT ![g] = [e \in Effects |->
                       IF e \in happens THEN @[e] + 1 ELSE @[e]]]
         /\ hp' = hp - damage

\* a dead boss, and a hit that is not valid
IgnoredHit(part, type) ==
  /\ IsPendingKill \/ ~IsReceivedAttackValid(type, part)
  /\ UNCHANGED healthVars

HealthNext ==
  \E part \in HitParts \cup OtherParts, type \in HunterTypes \cup OtherTypes :
    ProcessDamage(part, type) \/ IgnoredHit(part, type)
HealthSpec == HealthInit /\ [][HealthNext]_healthVars

----------------------------------------------------------------------------
HealthTypeOK ==
  /\ hp \in Int /\ hp <= BaseHp
  /\ state \in [Groups -> Info]
  /\ looks \in [Groups -> SUBSET {"default", "wounded", "cutsurface"}]
  /\ told \in [Groups -> [Effects -> Nat]]

(* A part is told to be wounded, broken or severed once at most, and then    *)
(* the effect is over; an effect that is still possible has been told to     *)
(* nobody, and its damage is below what it takes unless it was never hit     *)
(* (AZMonsterHealthComponent.cpp:171-227: the broadcast itself, in another   *)
(* handler, is what ends it).                                                *)
EffectsHappenOnce ==
  \A g \in Groups, e \in Effects :
    LET s == state[g][e]
    IN  /\ told[g][e] <= 1
        /\ s.able => told[g][e] = 0 /\ (s.taken < s.need \/ s.taken = 0)

(* The mesh shows what the health component knows, part by part: the wound's *)
(* mesh exactly after a wound, the default one exactly until the part is     *)
(* broken or severed.                                                        *)
MeshShowsDamage ==
  \A g \in Groups :
    /\ g \in Wounded => ("wounded" \in looks[g] <=> told[g]["wound"] > 0)
    /\ g \in Whole => ("default" \in looks[g] <=> told[g]["break"] + told[g]["sever"] = 0)
    /\ g \in CutSurface =>
         ("cutsurface" \in looks[g] <=> told[g]["break"] + told[g]["sever"] > 0)
=============================================================================
