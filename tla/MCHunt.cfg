SPECIFICATION MCSpec
CONSTANTS
  Monsters = {m1}
  Hunted = m1
  NoMonster = NoMonster
  MaxPoints = 3
  IdSpace = 3
  HasTransition = TRUE
  BaseHp = 2
  DamageInfo <- MCDamageInfo
  Weakness <- MCWeakness
  TempDamage = 1
  Wounded = {"Head", "Back"}
  CutSurface = {"Tail"}
  Whole = {"Head", "Tail"}
  Players = {p1, p2}
  First = p1
  NoPlayer = NoPlayer
  Behavior = "Hostile"
  NonCombatActions <- MCNonCombat
  CombatActions <- MCCombat
  Potions = {k1, k2}
  Bottles = {b1}
  NormalBottle = {}
  FirstPotion = k1
  InitCount <- MCInitCount
  PocketMax <- MCPocketMax
  WarehouseMax <- MCWarehouseMax
  Absent = Absent
  InPocket = InPocket
  Heals = {k1}
  Effect = 1
  MaxHealth = 2
  MaxMove = 2
  MaxCount = 2
  MinCount <- MCMinCount
  NoName = NoName
  Default = Default
  Jump = Jump
  Roll = Roll
  BaseMontage = BaseMontage
  HitMontage = HitMontage
  LostMontage = LostMontage
  Base = BaseMontage
  Montages = {BaseMontage, HitMontage, LostMontage}
  Sequences = {Wave}
  Loads = {BaseMontage, HitMontage, Wave}
  Sections <- MCSections
  ItemIds <- MCItemIds
  HasAsset <- MCHasAsset
  NoMesh = NoMesh
  Equipment <- MCEquipment
  FirstWeapon = 1001
  SecondWeapon = 0
  Slots = {"Socket_Back", "Socket_R"}
INVARIANTS
  StorageTagsAgree
  SectionFitsMontage
  StandsStillOnlyWhenPaused
  EachPartShowsItsOwn
  EffectsHappenOnce
  MeshShowsDamage
  CombatHasTarget
  MovingIsAwaited
  OneAnswerPerRequest
PROPERTIES
  MovesLoseNothing
  WalkEnds
CHECK_DEADLOCK FALSE
