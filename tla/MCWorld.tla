------------------------------- MODULE MCWorld -------------------------------
(* What surrounds a hunt: the map manager, the game state machine, the       *)
(* screens before the game, a button, the accounts, the tables and the start  *)
(* of the server.                                                            *)
(* They share no variable: focus names the one that moves, so that each is   *)
(* seen with the others at rest.                                             *)
EXTENDS MapMgr, GameStateMachine, Frontend, Accounts, TableMgr,
        AppServer, Button

CONSTANTS Open, Room, Town, Camp, Peace, Battle, Camping, Kim, K, Kimberley,
          Manager, Machine, Screens, Server, Crowd, Shelf, Starter, Touch,
          Items, Monsters, Id, Mark, Word, One, Zero

VARIABLE focus

MCMapName == [m \in {Town, Camp} |-> IF m = Town THEN Open ELSE Room]
MCBlocks == [s \in {Peace, Battle, Camping} |-> IF s = Battle THEN {Camping} ELSE {}]
\* a name that is too long begins like the others
MCFirst == [t \in {Kim, K, Kimberley} |-> K]
MCFound == [t \in {Kim, K, Kimberley} |-> {IF t = K THEN K ELSE Kim}]
MCRows == {[id |-> Kim, pw |-> K], [id |-> Kimberley, pw |-> Kimberley]}

\* every file of up to two rows of three columns, any of them but not all left out
MCColumns == <<Id, Mark, Word>>
MCLines == [1..3 -> {One, Zero, NoCell}]
MCFiles == [fields : {MCColumns}, out : SUBSET {Id, Mark, Word} \ {{Id, Mark, Word}},
            lines : UNION {[1..n -> MCLines] : n \in 0..2}]
MCPlain == [fields |-> MCColumns, out |-> {}, lines |-> <<<<One, Zero, One>>>>]
MCDirectory == {[t \in {Items, Monsters} |-> IF t = Items THEN file ELSE MCPlain] :
                  file \in MCFiles \union {NoFile}}
MCTables == <<Items, Monsters>>
MCKnown == [t \in {Items, Monsters} |-> IF t = Items THEN {Id, Mark, Word} ELSE {Id, Word}]
MCAtoi == [c \in {One, Zero, NoCell} |-> IF c = One THEN 1 ELSE 0]
MCHides(t, row) == t = Items /\ Word \in DOMAIN row /\ row[Word] = Zero

worldVars == <<mapVars, gsmVars, hudVars, accountVars, tableVars, appVars, buttonVars, focus>>

MCInit ==
  /\ MapInit /\ GsmInit /\ HudInit /\ AccountsInit /\ TablesInit /\ AppInit /\ ButtonInit
  /\ focus \in {Manager, Machine, Screens, Server, Crowd, Shelf, Starter, Touch}
  /\ focus # Shelf => files = [t \in {Items, Monsters} |-> MCPlain]
MCMap == focus = Manager /\ MapNext /\ UNCHANGED <<gsmVars, hudVars, accountVars, tableVars, appVars, buttonVars, focus>>
MCGsm == focus = Machine /\ GsmNext /\ UNCHANGED <<mapVars, hudVars, accountVars, tableVars, appVars, buttonVars, focus>>
MCHud == focus = Screens /\ HudNext /\ UNCHANGED <<mapVars, gsmVars, accountVars, tableVars, appVars, buttonVars, focus>>
\* one client that may type what is too long, or several that do not
MCAccounts ==
  /\ AccountsNext
  /\ \/ focus = Server /\ \E s \in Breaks : conn' \subseteq {s}
     \/ focus = Crowd /\ \A i \in DOMAIN requests' :
          requests'[i].kind \in {"login", "signin"} => FitsBoth(requests'[i].row)
  /\ UNCHANGED <<mapVars, gsmVars, hudVars, tableVars, appVars, buttonVars, focus>>
MCTable == focus = Shelf /\ TablesNext /\ UNCHANGED <<mapVars, gsmVars, hudVars, accountVars, appVars, buttonVars, focus>>
MCApp == focus = Starter /\ AppNext /\ UNCHANGED <<mapVars, gsmVars, hudVars, accountVars, tableVars, buttonVars, focus>>
MCButton ==
  /\ focus = Touch /\ ButtonNext
  /\ UNCHANGED <<mapVars, gsmVars, hudVars, accountVars, tableVars, appVars, focus>>
MCNext == MCMap \/ MCGsm \/ MCHud \/ MCAccounts \/ MCTable \/ MCApp \/ MCButton
\* the engine calls Tick every frame
MCFrame ==
  /\ focus = Manager /\ ~crashed /\ Tick
  /\ UNCHANGED <<gsmVars, hudVars, accountVars, tableVars, appVars, buttonVars, focus>>
MCSpec == MCInit /\ [][MCNext]_worldVars /\ WF_worldVars(MCFrame)
=============================================================================
