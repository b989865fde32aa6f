----------------------------- MODULE ConfirmDialog -----------------------------
(***************************************************************************)
(* dialog(msg, confirmFn) of common.js: one jQuery UI dialog is given new  *)
(* buttons and a new text for every question.  Nothing makes a question    *)
(* wait for the answer to the one before: a timer, an answer of the server *)
(* or the page's own button can ask while the dialog is open, and so can   *)
(* the function of the question being confirmed, whose button closes the   *)
(* dialog after that unless the function throws.                           *)
(***************************************************************************)
EXTENDS DialogWidget

CONSTANTS MaxQuestions  \* bound: questions asked

VARIABLES
  text,      \* the question in the dialog
  buttons,   \* the question whose function the buttons call
  questions, \* how many have been asked
  fate       \* history: what became of each

questionVars == <<text, buttons, questions, fate>>
dialogVars == <<widgetVars, questionVars>>

TypeOK ==
  /\ WidgetTypeOK
  /\ text \in 0 .. MaxQuestions /\ buttons \in 0 .. MaxQuestions
  /\ questions \in 0 .. MaxQuestions
  /\ fate \in [1 .. MaxQuestions ->
       {"none", "asked", "confirmed", "cancelled", "nested", "replaced"}]
  /\ \A q \in 1 .. MaxQuestions : fate[q] = "none" <=> q > questions

Init ==
  /\ WidgetInit
  /\ text = 0 /\ buttons = 0 /\ questions = 0
  /\ fate = [q \in 1 .. MaxQuestions |-> "none"]

\* dialog(msg, confirmFn) up to open(): new buttons, and with them the position
\* again, even under a mouse that drags; then the new text.
SetQuestion ==
  /\ questions < MaxQuestions
  /\ questions' = questions + 1
  /\ buttons' = questions' /\ text' = questions'
  /\ place' = Position
  /\ astray' = started

\* open() of a dialog that is open leaves it on top.  If the focus was on what is
\* replaced, a button or something in the text, it is lost.
Replace ==
  /\ isOpen /\ SetQuestion
  /\ fate' = [fate EXCEPT ![text] = "replaced", ![questions'] = "asked"]
  /\ focus' \in {focus, IF focus = "dialog" THEN "none" ELSE focus}
  /\ UNCHANGED <<isOpen, overlays, trap, opening, tracked, opener, slipped>>

\* dialog(msg, confirmFn), whatever the dialog does at the time.
Ask ==
  /\ \/ Replace
     \/ /\ ~isOpen /\ SetQuestion /\ Open
        /\ fate' = [fate EXCEPT ![questions'] = "asked"]
  /\ UNCHANGED <<win, spot, pressed, handled, bound, moved, started, ignoring,
                 downAt, dragVars>>

\* A button can be used with the keyboard or with a mouse that drags nothing.
CanPress == isOpen /\ (focus = "dialog" \/ (~pressed /\ bound = 0))

\* Variant: the dialog is not closed after the function.
ConfirmStays ==
  /\ CanPress
  /\ fate' = [fate EXCEPT ![buttons] = "confirmed"]
  /\ UNCHANGED <<widgetVars, text, buttons, questions>>

\* The function of the question returns, and the button closes the dialog.
Returns ==
  /\ fate' = [fate EXCEPT ![buttons] = "confirmed"]
  /\ Close
  /\ UNCHANGED <<text, buttons, questions, place, astray>>

\* It throws, and the dialog stays.
Throws == UNCHANGED <<trapVars, place, questionVars, astray>>

\* It asks a question itself, and the button closes the dialog after that.
AsksAgain ==
  /\ SetQuestion
  /\ fate' = [fate EXCEPT ![buttons] = "confirmed", ![questions'] = "nested"]
  /\ Close

\* With Replace, the function asks a question itself and then throws.
Confirm ==
  /\ CanPress
  /\ Returns \/ Throws \/ AsksAgain \/ Replace
  /\ UNCHANGED <<win, spot, pressed, handled, bound, moved, started, ignoring,
                 downAt, dragVars>>

\* The other button, the cross in the title bar or the Escape key.
Cancel ==
  /\ CanPress
  /\ Close
  /\ fate' = [fate EXCEPT ![text] = "cancelled"]
  /\ UNCHANGED <<win, place, spot, mouseVars, text, buttons, questions>>

Next == Ask \/ Confirm \/ Cancel \/ (WidgetNext /\ UNCHANGED questionVars)

Spec == Init /\ [][Next]_dialogVars

-----------------------------------------------------------------------------
(* Properties.                                                             *)

\* The function that the button calls is that of the question on the screen, and
\* the question on the screen is the last one asked; it stays until it is answered
\* or a later one takes its place, which is the only way one goes unanswered, but
\* for one asked by the function of another, which is closed before anybody sees it
\* (common.js:20).
QuestionsSettled ==
  /\ isOpen => text = buttons /\ text = questions
  /\ \A q \in 1 .. questions :
       /\ fate[q] = "asked" <=> isOpen /\ text = q
       /\ fate[q] = "replaced" => q < questions

\* The focus cannot leave an open dialog for the page, question after question,
\* unless it did so before the timer of open had fired.
FocusStaysInside == isOpen /\ focus = "page" => slipped

\* The mouse drives at most one drag at a time, and a press is refused exactly
\* while one is followed, even when the release of the button was missed, the
\* dialog was closed during the drag or asked again before its end.
OneDrag == bound <= 1 /\ (handled <=> bound = 1) /\ (started => bound = 1)

\* Whatever the user does with mouse and keyboard, questions, focus and mouse
\* agree with what is on the screen.
DialogAgrees == QuestionsSettled /\ FocusStaysInside /\ OneDrag

\* A dialog never dragged shows a question inside the window, or at its left edge
\* when the window is too narrow; one that was dragged shows it where the last drag
\* left it, even where a window made narrower no longer shows it.
OpensInPlace ==
  [][questions' # questions =>
       IF spot = Centred
       THEN place' >= 0 /\ (place' + DialogWidth <= win \/ place' = 0)
       ELSE place' = spot]_dialogVars

\* After a drag the dialog is where the next question will show it, unless a
\* question came after the last move of the drag: the mouse then leaves the dialog
\* where it is and the position where it was.
PlaceKept == isOpen /\ ~started /\ spot # Centred /\ ~astray => place = spot

\* The place of the dialog, at every question and between them.
DialogInPlace == OpensInPlace /\ []PlaceKept
=============================================================================
