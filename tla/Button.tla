------------------------------- MODULE Button -------------------------------
(* UAZButton and its SAZButton, as the loading screen uses them: the mouse   *)
(* and the fingers press, drag, leave and come up; a press makes a click     *)
(* only if the pointer comes up over the button and has not been dragged     *)
(* (PreciseClick, PreciseTap).  SButton is the engine's: its part is written *)
(* here as the overriding functions call it.                                 *)
EXTENDS Integers, FiniteSets

CONSTANTS Mouse, Fingers,
          Right,        \* the right mouse button
          Nobody

Pointers == {Mouse} \union Fingers
Places == 0..2          \* places on the button: those two apart are a drag apart
Away == -1
Corner == -2            \* (0, 0) of the viewport, where a touch position begins

ASSUME ButtonAssumption ==
  /\ Mouse \notin Fingers /\ Cardinality({Right, Nobody}) = 2
  /\ Pointers \intersect {Right, Nobody} = {}

VARIABLES at,           \* where each pointer is
          held,         \* what is down: fingers, Mouse for its left button, Right
          button,       \* the Slate button and the press action
          touching,     \* touch_screen_pressed_ of the loading screen
          display,      \* the HUD of the level and its handled_touch_position_
          click,        \* the click of the last step
          since,        \* history: where a pointer went down here, while it stays near
          crowded       \* history: something else was down together with a pointer

buttonVars == <<at, held, button, touching, display, click, since, crowded>>

Fresh == [pressed |-> FALSE, hovered |-> FALSE, pressedAt |-> Corner,
          begun |-> FALSE, action |-> "None"]
NoClick == [by |-> Nobody, where |-> Away, told |-> Away, kept |-> FALSE, crowded |-> FALSE]

ButtonInit ==
  /\ at = [p \in Pointers |-> Away] /\ held = {} /\ button = Fresh /\ touching = FALSE
  /\ display = [there |-> TRUE, touched |-> Corner]
  /\ click = NoClick /\ since = [p \in Pointers |-> Away] /\ crowded = FALSE

Distance(a, b) == IF a > b THEN a - b ELSE b - a
\* a move of two is far enough to be a drag; nothing is near the corner
DraggedFar(place) == button.pressedAt = Corner \/ Distance(place, button.pressedAt) >= 2

----------------------------------------------------------------------------
(* What the button does to itself; the press action begins and never ends,   *)
(* for its Tick is empty.                                                    *)

BeginAction(b, state) == [b EXCEPT !.begun = TRUE, !.action = state]
Press(b) ==
  IF b.pressed THEN b ELSE BeginAction([b EXCEPT !.pressed = TRUE], "Execute")
Release(b) ==
  IF b.pressed THEN BeginAction([b EXCEPT !.pressed = FALSE], "Release") ELSE b

OnMouseButtonDown(b, place) == Press([b EXCEPT !.pressedAt = place])
\* Mutant: a press that is dragged away stays a press.
MovedHere(b, place) == b
OnMouseMove(b, place) == IF b.pressed /\ DraggedFar(place) THEN Release(b) ELSE b
OnMouseEnter(b) == [b EXCEPT !.hovered = TRUE]
OnMouseLeave(b) == [Release(b) EXCEPT !.hovered = FALSE]

\* OnPressed and OnReleased of the loading screen follow the button
Becomes(b) ==
  /\ button' = b
  /\ touching' = CASE b.pressed /\ ~button.pressed -> TRUE
                   [] ~b.pressed /\ button.pressed -> FALSE
                   [] OTHER -> touching

Comes(p) ==
  /\ held' = held \union {p} /\ crowded' = (crowded \/ held # {})
Goes(p) ==
  /\ held' = held \ {p} /\ crowded' = (crowded /\ held' # {})

----------------------------------------------------------------------------
(* The pointers.  A finger is only somewhere while it is down.               *)

Down(p) ==
  /\ p \notin held
  /\ \E place \in IF p = Mouse THEN {at[Mouse]} \ {Away} ELSE Places :
       /\ at' = [at EXCEPT ![p] = place] /\ since' = [since EXCEPT ![p] = place]
       /\ Becomes(OnMouseButtonDown(IF p = Mouse THEN button ELSE OnMouseEnter(button), place))
  /\ Comes(p) /\ click' = NoClick /\ UNCHANGED display

\* any button of the mouse moves the origin of the drag
RightButtonDown ==
  /\ Right \notin held /\ at[Mouse] # Away
  /\ button' = [button EXCEPT !.pressedAt = at[Mouse]]
  /\ Comes(Right) /\ click' = NoClick /\ UNCHANGED <<at, touching, display, since>>
RightButtonUp ==
  /\ Right \in held /\ Goes(Right) /\ click' = NoClick
  /\ UNCHANGED <<at, button, touching, display, since>>

PressElsewhere(p) ==
  /\ p \notin held /\ at[p] = Away /\ Comes(p) /\ click' = NoClick
  /\ UNCHANGED <<at, button, touching, display, since>>

Move(p, to) ==
  /\ to # at[p] /\ (p = Mouse \/ p \in held)
  /\ at' = [at EXCEPT ![p] = to]
  /\ Becomes(IF to = Away THEN OnMouseLeave(button)
             ELSE OnMouseMove(IF at[p] = Away THEN OnMouseEnter(button) ELSE button, to))
  /\ since' = IF to = Away \/ Distance(to, since[p]) >= 2
              THEN [since EXCEPT ![p] = Away] ELSE since
  /\ click' = NoClick /\ UNCHANGED <<held, display, crowded>>

\* GetHandledTouchPosition after SetHandledTouchPosition: the mouse changes nothing
Handled(p) == IF p = Mouse THEN display.touched ELSE at[p]

OnMouseButtonUp(p) ==
  LET up == Release(button)
      over == button.hovered \/ p \in Fingers
      clicks == button.pressed /\ over /\ display.there
  IN  /\ Becomes(IF p = Mouse THEN up ELSE OnMouseLeave(up))
      /\ display' = IF clicks THEN [display EXCEPT !.touched = Handled(p)] ELSE display
      /\ click' = IF clicks
                  THEN [by |-> p, where |-> at[p], told |-> Handled(p),
                        kept |-> since[p] # Away, crowded |-> crowded]
                  ELSE NoClick

Up(p) ==
  /\ p \in held /\ at[p] # Away /\ OnMouseButtonUp(p) /\ Goes(p)
  /\ at' = IF p = Mouse THEN at ELSE [at EXCEPT ![p] = Away]
  /\ since' = [since EXCEPT ![p] = Away]
UpElsewhere(p) ==
  /\ p \in held /\ at[p] = Away /\ Goes(p) /\ click' = NoClick
  /\ UNCHANGED <<at, button, touching, display, since>>

\* the widget tree is built again, with a new Slate button and a new action:
\* nobody hears of a release, and the pointers come to it anew
RebuildWidget ==
  /\ button' = Fresh /\ at' = [p \in Pointers |-> Away]
  /\ since' = [p \in Pointers |-> Away] /\ click' = NoClick
  /\ UNCHANGED <<held, touching, display, crowded>>

\* the level leaves, and the next one has a HUD of its own
HudLeaves ==
  /\ display.there /\ display' = [there |-> FALSE, touched |-> Corner] /\ click' = NoClick
  /\ UNCHANGED <<at, held, button, touching, since, crowded>>
HudComes ==
  /\ ~display.there /\ display' = [display EXCEPT !.there = TRUE] /\ click' = NoClick
  /\ UNCHANGED <<at, held, button, touching, since, crowded>>

ButtonNext ==
  \/ \E p \in Pointers :
       \/ Down(p) \/ PressElsewhere(p) \/ Up(p) \/ UpElsewhere(p)
       \/ \E to \in Places \union {Away} : Move(p, to)
  \/ RightButtonDown \/ RightButtonUp \/ RebuildWidget \/ HudLeaves \/ HudComes

ButtonSpec == ButtonInit /\ [][ButtonNext]_buttonVars

----------------------------------------------------------------------------
(* As long as only one thing is down, a click is by a pointer that went down *)
(* on this button and has neither left it nor been dragged since, and a      *)
(* touch is told where it happened: a press elsewhere that slides in, a drag *)
(* that comes back, a button built again and another level's HUD in between  *)
(* make no click of their own (AZButton.cpp:33-127, AZHUD.cpp:100-123).      *)
ClickIsOwn ==
  click.by # Nobody /\ ~click.crowded =>
    click.kept /\ (click.by \in Fingers => click.told = click.where)
=============================================================================
