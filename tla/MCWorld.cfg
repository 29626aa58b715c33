SPECIFICATION MCSpec
CONSTANTS
  Open = Open
  Room = Room
  Town = Town
  Camp = Camp
  Peace = Peace
  Battle = Battle
  Camping = Camping
  Manager = Manager
  Machine = Machine
  Screens = Screens
  Server = Server
  Crowd = Crowd
  Kim = Kim
  K = K
  Kimberley = Kimberley
  Maps = {Town, Camp}
  Worlds = {Open, Room}
  MapName <- MCMapName
  Composed = {Open}
  LoadingRows = {Town}
  FirstWorld = Room
  NoMap = NoMap
  NoWorld = NoWorld
  WidgetLoads = {TRUE, FALSE}
  MaxRenew = 2
  MaxWait = 2
  MaxCheck = 2
  MaxCalls = 3
  GameStates = {Peace, Battle, Camping}
  GameDefault = Peace
  NoState = NoState
  Blocks <- MCBlocks
  Start = NoState
  MaxDelay = 2
  MaxAsked = 3
  Launcher = Launcher
  Login = Login
  Menu = Menu
  NoScene = NoScene
  HasCloseAnim = {Login}
  MaxHudCalls = 5
  Texts = {Kim, K, Kimberley}
  Fits = {Kim, K}
  Found <- MCFound
  First <- MCFirst
  Rows <- MCRows
  MayFail = {}
  Slots = {s1, s2}
  Breaks = {s1}
  MaxSent = 3
  Shelf = Shelf
  Starter = Starter
  Touch = Touch
  Mouse = Mouse
  Fingers = {f1}
  Right = Right
  Nobody = Nobody
  MaxClient = 2
  MaxIoWorker = 2
  MaxPress = 3
  Items = Items
  Monsters = Monsters
  Id = Id
  Mark = Mark
  Word = Word
  One = One
  Zero = Zero
  Tables <- MCTables
  Directory <- MCDirectory
  NoFile = NoFile
  NoCell = NoCell
  Known <- MCKnown
  Numeric = {Id}
  Atoi <- MCAtoi
  Listed = {Items}
  Hides <- MCHides
INVARIANTS
  NeverLeftPaused
  OnePostLoadPerEntry
  NoStaleTransition
  TopIsCurrent
  ClickIsOwn
  OneAnswerEach
  RowsKeepTheirColumns
PROPERTIES
  PauseEnds
  StreamingSettles
  AnswersAgree
  AcceptedFindsAll
CHECK_DEADLOCK FALSE
