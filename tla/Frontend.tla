------------------------------ MODULE Frontend ------------------------------
(* The screens before a hunt: AAZHUD with its stack of scenes, the UAZWidget *)
(* objects it opens and closes, and UAZLoginMgr, whose sequence the widgets  *)
(* drive.  A level has a HUD of its own; the widgets belong to the game      *)
(* instance, which knows them by weak pointers.  Only scene widgets are      *)
(* registered (UAZHUDDataMgr::Init), so the popups of a scene, too, are      *)
(* among them.  What is public in AAZHUD and changes a scene or a widget may *)
(* be called at any time.                                                    *)
EXTENDS Naturals, SequencesExt, Selection

CONSTANTS Launcher, Login, Menu, NoScene,
          HasCloseAnim,     \* the widgets whose blueprint has an animation "Close"
          MaxHudCalls       \* bound: calls from outside

Scenes == {Launcher, Login, Menu}

ASSUME FrontendAssumption ==
  /\ Cardinality(Scenes) = 3 /\ NoScene \notin Scenes
  /\ HasCloseAnim \subseteq Scenes /\ MaxHudCalls \in Nat

VARIABLES hud,        \* the HUD, the widgets and the login manager: one record
          going,      \* the level OpenLevel was asked for
          hung,       \* a loop does not end, and the program with it
          hudCalls,   \* calls from outside so far
          astray      \* history: what such a call may have put out of order since
                      \* all was closed: "top" of the stack, "children" of a scene

hudVars == <<hud, going, hung, hudCalls, astray>>

Levels == {"Launcher", "Login", "Hunt"}
Uncreated == [live |-> FALSE, shown |-> FALSE, state |-> "None", hidden |-> FALSE,
              closing |-> FALSE, panel |-> "none"]
\* GetSceneData gives a scene that it does not know yet no children
SceneDatas == [s \in Scenes |-> <<>>]
NewHud(h) == [h EXCEPT !.cur = NoScene, !.stack = <<>>, !.children = SceneDatas]

HudInit ==
  /\ hud = [cur |-> NoScene, stack |-> <<>>, children |-> SceneDatas,
            widget |-> [w \in Scenes |-> Uncreated], sequence |-> "Splash"]
  /\ going = "Launcher" /\ hung = FALSE /\ hudCalls = 0 /\ astray = {}

----------------------------------------------------------------------------
(* UAZWidget, and FAZWidgetData that creates one when there is none.         *)

GetOrCreateWidget(h, w) ==
  IF h.widget[w].live THEN h ELSE [h EXCEPT !.widget[w] = [Uncreated EXCEPT !.live = TRUE]]

ForceHide(h, w) == [h EXCEPT !.widget[w].hidden = TRUE]
RestoreFromForceHidden(h, w) == [h EXCEPT !.widget[w].hidden = FALSE]

\* the virtual OnOpen, after AddToViewport; the login page starts over
OnOpen(h, w) ==
  LET shown == [h EXCEPT !.widget[w].shown = TRUE, !.widget[w].state = "Opened"]
  IN  IF w = Login
      THEN [shown EXCEPT !.sequence = "WaitingForTouch", !.widget[w].panel = "touch"]
      ELSE shown

Destroy(h, w) ==
  [h EXCEPT !.widget[w].shown = FALSE, !.widget[w].hidden = FALSE, !.widget[w].closing = FALSE]
OnClose(h, w) ==
  LET closed == [h EXCEPT !.widget[w].state = "Closed"]
  IN  IF w \in HasCloseAnim THEN [closed EXCEPT !.widget[w].closing = TRUE]
                            ELSE Destroy(closed, w)

----------------------------------------------------------------------------
(* AAZHUD.                                                                   *)

\* the scene below the current one in the stack, for is_pre_scene
Below(h) ==
  LET found == {i \in DOMAIN h.stack : h.stack[i] = h.cur}
  IN  IF found = {} \/ 1 \in found THEN NoScene
      ELSE h.stack[CHOOSE i \in DOMAIN h.stack : i + 1 \in found /\ \A j \in found : i < j]

Without(seq, w) == Selected(seq, Scenes \ {w})
\* a widget that is in the viewport leaves the first scene that lists it
Taken(h, w) ==
  LET lists == {i \in DOMAIN h.stack : Contains(h.children[h.stack[i]], w)}
  IN  IF ~h.widget[w].shown \/ lists = {} THEN h
      ELSE LET s == h.stack[CHOOSE i \in lists : \A j \in lists : i <= j]
           IN  [h EXCEPT !.children[s] = Without(@, w)]

\* _OpenUI lists a widget among the children of the current scene only if it
\* is listed there already
OpenUI(was, w, pre) ==
  LET h == GetOrCreateWidget(was, w)
      below == IF pre THEN Below(h) ELSE NoScene
      again == IF ~pre /\ Contains(h.children[h.cur], w)
               THEN [h EXCEPT !.children[h.cur] = Append(@, w)] ELSE h
  IN  CASE ~pre /\ h.cur = NoScene -> h
        [] below # NoScene ->
             ForceHide(OnOpen(IF Contains(h.children[below], w) THEN h
                              ELSE [h EXCEPT !.children[below] = Append(@, w)], w), w)
        [] OTHER -> RestoreFromForceHidden(OnOpen(Taken(again, w), w), w)

\* CloseScene(scene, false): hides the children; a child whose widget is gone
\* costs the list its last entry
HideChildren(h, s) ==
  LET kids == h.children[s]
      gone == Cardinality({i \in DOMAIN kids : ~h.widget[kids[i]].live})
  IN  [h EXCEPT !.children[s] = SubSeq(kids, 1, Len(kids) - gone),
                !.widget = [w \in Scenes |->
                  IF Contains(kids, w) /\ @[w].live THEN [@[w] EXCEPT !.hidden = TRUE]
                                                    ELSE @[w]]]

\* Mutant: the scene that is opened again keeps its place.
RaiseNothing(h, s) == h
RaiseOnTopFromStack(h, s) ==
  IF Contains(h.stack, s) THEN [h EXCEPT !.stack = Append(Without(@, s), s)] ELSE h

\* CloseUI without the change of the list
Closed(h, w) ==
  IF h.widget[w].live /\ h.widget[w].state # "Closed" THEN OnClose(h, w) ELSE h
CloseUI(h, w) ==
  IF ~h.widget[w].live \/ h.widget[w].state = "Closed" THEN h
  ELSE IF h.cur = NoScene THEN OnClose(h, w)
       ELSE [OnClose(h, w) EXCEPT !.children[h.cur] = Without(@, w)]

\* is_need_restore = false: the last child is closed while there are two.  Each
\* CloseUI takes one of the three widgets off the list or changes nothing, now
\* and for ever.
CloseLast(h, s) ==
  IF Len(h.children[s]) > 1 THEN CloseUI(h, Last(h.children[s])) ELSE h
CloseOthers(h, s) == CloseLast(CloseLast(CloseLast(h, s), s), s)
NeverCloses(h, s) == Len(h.children[s]) > 1

RestoreScene(h, s) ==
  LET kids == ToSet(h.children[s])
  IN  RaiseOnTopFromStack(
        [h EXCEPT !.widget = [w \in Scenes |->
           IF w \in kids THEN [GetOrCreateWidget(h, w).widget[w] EXCEPT !.hidden = FALSE]
           ELSE @[w]]], s)

OpenScene(was, s, restore) ==
  LET top == IF was.stack = <<>> THEN NoScene ELSE Last(was.stack)
      left == IF top \in {NoScene, s} THEN was ELSE HideChildren(was, top)
      h == [left EXCEPT !.cur = s]
  IN  CASE h.children[s] = <<>> -> OpenUI([h EXCEPT !.stack = Append(@, s)], s, FALSE)
        [] h.children[s] # <<>> /\ restore -> RestoreScene(h, s)
        [] OTHER -> CloseOthers(h, s)

\* CloseScene(s, true), of the current scene or of another: its children are
\* closed, each of them apart from the others, the top of the stack is dropped,
\* whichever it is, and the one below is opened
CloseScene(h, s) ==
  LET kids == ToSet(h.children[s])
      emptied == [h EXCEPT !.children[s] = <<>>,
                           !.widget = [w \in Scenes |->
                             IF w \in kids THEN Closed(h, w).widget[w] ELSE @[w]]]
      popped == [emptied EXCEPT !.stack = Front(@)]
  IN  IF emptied.stack = <<>> THEN emptied
      ELSE IF popped.stack = <<>> THEN popped
      ELSE OpenScene(popped, Last(popped.stack), TRUE)

CloseAllUI(h) == NewHud([h EXCEPT !.widget = [w \in Scenes |-> Uncreated]])

----------------------------------------------------------------------------
(* The login manager, and what the player does with what he sees.            *)

\* ChangeSequence: connecting falls through to the authentication, which has
\* no server to ask
SetLoginMode(h, panel) == [h EXCEPT !.widget[Login].panel = panel]
ChangeSequence(h, sequence) ==
  LET noted == [h EXCEPT !.sequence = sequence]
  IN  CASE sequence = "ConnectLoginServerReady" -> SetLoginMode(noted, "id")
        [] sequence = "ConnectLoginServer" -> OpenScene(CloseAllUI(noted), Menu, TRUE)
        [] OTHER -> noted

Visible(w) == hud.widget[w].shown /\ ~hud.widget[w].hidden

\* any animation of the launcher's widget
OnAnimationFinished ==
  /\ hud.widget[Launcher].shown
  /\ hud' = ChangeSequence(hud, "LoginPageStart") /\ going' = "Login"
  /\ UNCHANGED <<hung, hudCalls, astray>>
OnTouchAnyPress ==
  /\ Visible(Login) /\ hud.widget[Login].panel = "touch"
  /\ hud' = ChangeSequence(hud, "ConnectLoginServerReady")
  /\ UNCHANGED <<going, hung, hudCalls, astray>>
OnClicked_Login ==
  /\ Visible(Login) /\ hud.widget[Login].panel = "id"
  /\ hud' = ChangeSequence(hud, "ConnectLoginServer") /\ astray' = {}
  /\ UNCHANGED <<going, hung, hudCalls>>
OnClicked_Start ==
  /\ Visible(Menu) /\ going' = "Hunt" /\ UNCHANGED <<hud, hung, hudCalls, astray>>

\* the level is there: the old HUD's EndPlay and BeginPlay of the new one
BeginPlay ==
  /\ going # "none" /\ going' = "none"
  /\ hud' = LET h == CloseAllUI(hud)
            IN  CASE going = "Launcher" -> OpenScene(h, Launcher, TRUE)
                  [] going = "Login" -> OpenScene(h, Login, TRUE)
                  [] OTHER -> h
  /\ astray' = {} /\ UNCHANGED <<hung, hudCalls>>

OnCloseAnimationFinished(w) ==
  /\ hud.widget[w].closing /\ hud' = Destroy(hud, w)
  /\ UNCHANGED <<going, hung, hudCalls, astray>>

\* the garbage collector: only the viewport holds on to a widget
Collect(w) ==
  /\ hud.widget[w].live /\ ~hud.widget[w].shown
  /\ hud' = [hud EXCEPT !.widget[w] = Uncreated]
  /\ UNCHANGED <<going, hung, hudCalls, astray>>

\* The calls.  A scene is raised or opened without being raised, so that the top
\* need not be the current one; opening one as usual sets that right.
Outside(after, strays) ==
  /\ going = "none" /\ hudCalls < MaxHudCalls /\ hudCalls' = hudCalls + 1
  /\ hud' = after /\ astray' = strays
  /\ UNCHANGED going
SceneOpens(s) == Outside(OpenScene(hud, s, TRUE), astray \ {"top"}) /\ UNCHANGED hung
SceneOpensAnew(s) ==
  /\ Outside(OpenScene(hud, s, FALSE), astray \cup {"top"})
  /\ hung' = NeverCloses(hud', s)
SceneRises(s) == Outside(RaiseOnTopFromStack(hud, s), astray \cup {"top"}) /\ UNCHANGED hung
\* closing another scene than the top drops one that may have children
SceneCloses(s) ==
  /\ Outside(CloseScene(hud, s),
             (astray \ {"top"}) \cup IF hud.stack = <<>> \/ Last(hud.stack) = s THEN {}
                                    ELSE {"children"})
  /\ UNCHANGED hung
SceneHides(s) == Outside(HideChildren(hud, s), astray) /\ UNCHANGED hung
UIOpens(w, pre) == Outside(OpenUI(hud, w, pre), astray) /\ UNCHANGED hung
UICloses(w) == Outside(CloseUI(hud, w), astray) /\ UNCHANGED hung
AllClose == Outside(CloseAllUI(hud), {}) /\ UNCHANGED hung

HudNext ==
  /\ ~hung
  /\ \/ OnAnimationFinished \/ OnTouchAnyPress \/ OnClicked_Login \/ OnClicked_Start \/ BeginPlay
     \/ \E w \in Scenes : OnCloseAnimationFinished(w) \/ Collect(w)
     \/ \E s \in Scenes : SceneOpens(s) \/ SceneOpensAnew(s) \/ SceneRises(s) \/ SceneCloses(s) \/ SceneHides(s)
     \/ \E w \in Scenes : (\E pre \in BOOLEAN : UIOpens(w, pre)) \/ UICloses(w)
     \/ AllClose

HudSpec == HudInit /\ [][HudNext]_hudVars

----------------------------------------------------------------------------
(* The current scene is the top of the stack, and only scenes of the stack   *)
(* have children: scenes that open each other, are closed, come back or are  *)
(* raised out of the middle keep the two in step.  Two calls put the top out *)
(* of order, until a scene is opened the usual way, if only by closing one:  *)
(* RaiseOnTopFromStack, and OpenScene without restoring.  To close another   *)
(* scene than the top disturbs both until all are closed (AZHUD.h:65-150,    *)
(* 197-199; AZHUD.cpp:125-455).                                              *)
TopIsCurrent ==
  /\ astray = {} /\ hud.stack # <<>> => Last(hud.stack) = hud.cur
  /\ "children" \notin astray =>
       \A s \in Scenes : hud.children[s] # <<>> => Contains(hud.stack, s)
=============================================================================
