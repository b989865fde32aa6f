------------------------------ MODULE DialogWidget ------------------------------
(***************************************************************************)
(* The jQuery UI widgets under #dialog, as common.js drives them: ui.dialog *)
(* (modal: its overlay and the focus trap on the document), ui.draggable   *)
(* on its title bar and ui.mouse below that.  Places are one-dimensional   *)
(* and the window is not scrolled.  Options that common.js leaves alone    *)
(* have their default; frames and droppable elements do not occur.         *)
(***************************************************************************)
EXTENDS Integers

CONSTANTS
  DialogWidth, \* in pixels or any unit that halves its distance to the window's
  Widths,      \* widths of the browser window
  MousePlaces, \* places the mouse can be at
  Grabs        \* distances of the mouse from the dialog's left edge

VARIABLES
  isOpen,      \* _isOpen, and whether the dialog is visible
  overlays,    \* the document's count ui-dialog-overlays
  trap,        \* is the handler of focusin installed on the document?
  opening,     \* isOpening of that handler
  tracked,     \* is the dialog in ui-dialog-instances?
  opener,      \* what had the focus when the dialog was opened
  focus,       \* "page", "dialog" or "none"
  slipped,     \* history: did the focus leave while isOpening?
  win,         \* the width of the window
  place,       \* the left edge of the dialog
  spot,        \* options.position: Centred, or the left edge
  pressed,     \* is the mouse button down?
  handled,     \* mouseHandled
  bound,       \* how many pairs of mousemove and mouseup handlers there are
  moved,       \* _mouseMoved
  started,     \* _mouseStarted
  ignoring,    \* ignoreMissingWhich
  grab,        \* offset.click
  downAt,      \* the place of _mouseDownEvent
  reach,       \* containment: the rightmost left edge
  dragged,     \* positionAbs: where the drag last put the dialog
  astray       \* history: was the dialog put elsewhere during the drag?

trapVars == <<isOpen, overlays, trap, opening, tracked, opener, focus, slipped>>
dragVars == <<grab, reach, dragged>>
mouseVars ==
  <<pressed, handled, bound, moved, started, ignoring, downAt, dragVars, astray>>
widgetVars == <<trapVars, win, place, spot, mouseVars>>

WidgetTypeOK ==
  /\ isOpen \in BOOLEAN /\ overlays \in Nat /\ trap \in BOOLEAN
  /\ opening \in BOOLEAN /\ tracked \in BOOLEAN /\ slipped \in BOOLEAN
  /\ opener \in {"page", "none"} /\ focus \in {"page", "dialog", "none"}
  /\ win \in Widths /\ place \in Int /\ spot \in Int
  /\ pressed \in BOOLEAN /\ handled \in BOOLEAN /\ bound \in Nat
  /\ moved \in BOOLEAN /\ started \in BOOLEAN /\ ignoring \in BOOLEAN
  /\ grab \in Int /\ downAt \in Nat /\ reach \in Int /\ dragged \in Int
  /\ astray \in BOOLEAN
  /\ focus = "dialog" => isOpen

\* What spot is before the first drag; no drag leaves the dialog there.
Centred == -(DialogWidth + 1)

WidgetInit ==
  /\ isOpen = FALSE /\ overlays = 0 /\ trap = FALSE /\ opening = FALSE
  /\ tracked = FALSE /\ opener = "none" /\ focus = "none" /\ slipped = FALSE
  /\ win \in Widths /\ place = 0 /\ spot = Centred
  /\ pressed = FALSE /\ handled = FALSE /\ bound = 0 /\ moved = FALSE
  /\ started = FALSE /\ ignoring = FALSE /\ grab = 0 /\ downAt = 0 /\ reach = 0
  /\ dragged = 0 /\ astray = FALSE

-----------------------------------------------------------------------------
(* Where the dialog is shown.                                              *)

\* Variant: a dialog that does not fit stays centred.
FitNarrow(left) ==
  IF left + DialogWidth > win /\ left > 0 THEN win - DialogWidth ELSE left

\* $.ui.position.fit.left
Fit(left) ==
  LET overLeft == -left
      overRight == left + DialogWidth - win
  IN  IF DialogWidth > win
      THEN IF overLeft > overRight THEN win - DialogWidth ELSE 0
      ELSE IF overLeft > 0 THEN 0
      ELSE IF overRight > 0 THEN win - DialogWidth
      ELSE left

\* $.ui.position.flip.left for my "left" at "left+n" of the window: the place
\* mirrored in the window, when that is less far out, which it never is for a
\* dialog that sticks out on the left.
Flip(left) ==
  LET overRight == left + DialogWidth - win
      mirrored == win - DialogWidth - left
      abs == IF mirrored < 0 THEN -mirrored ELSE mirrored
  IN  IF left >= 0 /\ overRight > 0 /\ (mirrored > 0 \/ abs < overRight) THEN mirrored ELSE left

\* _position: once dragged, the dialog has a position without collision: "fit".
Position == IF spot = Centred THEN Fit((win - DialogWidth) \div 2) ELSE Flip(spot)

-----------------------------------------------------------------------------
(* ui.dialog: open, close and the focus trap.                              *)

\* _createOverlay
CreateOverlay ==
  /\ overlays' = overlays + 1
  /\ IF overlays = 0 THEN trap' = TRUE /\ opening' = TRUE
                     ELSE UNCHANGED <<trap, opening>>

\* open() of a dialog that is closed; the focus goes to its first button.
Open ==
  /\ isOpen' = TRUE
  /\ opener' = IF focus = "dialog" THEN "none" ELSE focus
  /\ CreateOverlay
  /\ tracked' = TRUE
  /\ focus' = "dialog" /\ slipped' = FALSE

\* _destroyOverlay
DestroyOverlay ==
  /\ overlays' = overlays - 1
  /\ IF overlays' = 0 THEN trap' = FALSE /\ opening' = FALSE
                      ELSE UNCHANGED <<trap, opening>>

\* close(): the focus goes back to what had it before.
Close ==
  /\ isOpen' = FALSE
  /\ DestroyOverlay
  /\ tracked' = FALSE
  /\ focus' = opener
  /\ UNCHANGED <<opener, slipped>>

\* The timer of _createOverlay.
Opened ==
  /\ opening /\ opening' = FALSE
  /\ UNCHANGED <<isOpen, overlays, trap, tracked, opener, focus, slipped,
                 win, place, spot, mouseVars>>

\* An element of the page gets the focus, and the trap gives it back to the
\* dialog in the list of instances; without one the handler throws.
FocusPage ==
  /\ focus' = IF trap /\ ~opening /\ tracked THEN "dialog" ELSE "page"
  /\ slipped' = (slipped \/ opening)
  /\ UNCHANGED <<isOpen, overlays, trap, opening, tracked, opener,
                 win, place, spot, mouseVars>>

-----------------------------------------------------------------------------
(* ui.mouse and ui.draggable.                                              *)

\* The button goes down on the title bar, where the window shows it.  Whatever has
\* the focus is blurred.  While mouseHandled is set nothing else happens.
Press(g) ==
  /\ isOpen /\ ~pressed /\ pressed' = TRUE
  /\ place + g \in 0 .. win
  /\ IF handled
     THEN focus' = "dialog" /\ UNCHANGED <<handled, bound, moved, downAt>>
     ELSE /\ focus' = "none"
          /\ moved' = FALSE /\ downAt' = place + g
          /\ bound' = bound + 1 /\ handled' = TRUE
  /\ UNCHANGED <<isOpen, overlays, trap, opening, tracked, opener, slipped,
                 win, place, spot, started, ignoring, dragVars, astray>>

\* The button goes down in the dialog, on its overlay or on the page.
PressElsewhere ==
  /\ ~pressed /\ pressed' = TRUE
  /\ focus' \in IF isOpen THEN {"dialog"} ELSE {"page", "none"}
  /\ UNCHANGED <<isOpen, overlays, trap, opening, tracked, opener, slipped,
                 win, place, spot, handled, bound, moved, started, ignoring,
                 downAt, dragVars, astray>>

\* _mouseUp, and the dialog's stop when a drag was started.  Over the title bar
\* the dialog gets the focus.  The numbers of the drag are not read again.
MouseUp ==
  /\ bound' = 0 /\ started' = FALSE /\ ignoring' = FALSE /\ handled' = FALSE
  /\ spot' = IF started THEN dragged ELSE spot
  /\ grab' = 0 /\ reach' = 0 /\ dragged' = 0
  /\ focus' \in IF isOpen THEN {focus, "dialog"} ELSE {focus}

\* The button comes up over the page.
Release ==
  /\ pressed /\ pressed' = FALSE
  /\ IF bound = 1 THEN MouseUp
     ELSE /\ handled' = FALSE
          /\ UNCHANGED <<bound, started, ignoring, spot, focus, dragVars>>
  /\ UNCHANGED <<isOpen, overlays, trap, opening, tracked, opener, slipped,
                 win, place, moved, downAt, astray>>

\* The button comes up outside the window or behind an alert.
MissRelease ==
  /\ pressed /\ pressed' = FALSE
  /\ UNCHANGED <<trapVars, win, place, spot, handled, bound, moved, started,
                 ignoring, downAt, dragVars, astray>>

Least(a, b) == IF a < b THEN a ELSE b
Greatest(a, b) == IF a > b THEN a ELSE b

\* element.offset(): a hidden dialog is at 0.
Offset == IF isOpen THEN place ELSE 0

\* _setContainment: the rightmost left edge inside the document, which is as
\* wide as the window or as what sticks out of it.
Containment ==
  (IF isOpen THEN Greatest(win, place + DialogWidth) ELSE win) - DialogWidth

\* _mouseDrag: _generatePosition for the mouse at m, held at g, within the
\* containment r.
Drag(m, g, r) ==
  /\ place' = Least(Greatest(0, m - g), r)
  /\ dragged' = place' /\ astray' = FALSE

\* _mouseMove: the drag starts with the first move away from the press and takes
\* the offsets of that moment; then the dialog follows the mouse.
Follow(m) ==
  IF started
  THEN Drag(m, grab, reach) /\ UNCHANGED <<started, grab, reach>>
  ELSE IF m # downAt
  THEN /\ started' = TRUE
       /\ grab' = downAt - Offset
       /\ reach' = Containment
       /\ Drag(m, grab', reach')
  ELSE UNCHANGED <<started, place, dragVars, astray>>

\* _mouseMove: which says if a button is down, held if a modifier key is; Safari
\* forgets the button while one is.  A move without the button ends the gesture,
\* but only after one with it and if no key is held or was held at such a move.
Move(m, which, held) ==
  /\ bound = 1
  /\ which = pressed \/ (held /\ ~which)
  /\ IF moved /\ ~which /\ ~held /\ ~ignoring
     THEN MouseUp /\ UNCHANGED <<moved, place, astray>>
     ELSE /\ ignoring' = (ignoring \/ (moved /\ ~which /\ held))
          /\ moved' = (moved \/ which)
          /\ Follow(m)
          /\ UNCHANGED <<bound, handled, spot, focus>>
  /\ UNCHANGED <<isOpen, overlays, trap, opening, tracked, opener, slipped,
                 win, pressed, downAt>>

Resize ==
  /\ win' \in Widths
  /\ UNCHANGED <<trapVars, place, spot, mouseVars>>

WidgetNext ==
  \/ Opened \/ FocusPage
  \/ \E g \in Grabs : Press(g)
  \/ PressElsewhere \/ Release \/ MissRelease
  \/ \E m \in MousePlaces, which, held \in BOOLEAN : Move(m, which, held)
  \/ Resize
=============================================================================
