------------------------------ MODULE PagesProofs ------------------------------
(***************************************************************************)
(* Theorems about MCPages, for any windows and mouse places, lists of any  *)
(* length, any number of documents, page sizes and nodes.                  *)
(***************************************************************************)
EXTENDS MCPages, FiniteSetTheorems, TLAPS

(***************************************************************************)
(* The dialog: its questions, focus and drags.                             *)
(***************************************************************************)

\* What the variables the properties are about can be.
DialogFlags ==
  /\ isOpen \in BOOLEAN /\ trap \in BOOLEAN /\ opening \in BOOLEAN
  /\ tracked \in BOOLEAN /\ slipped \in BOOLEAN
  /\ handled \in BOOLEAN /\ started \in BOOLEAN /\ pressed \in BOOLEAN
  /\ moved \in BOOLEAN /\ ignoring \in BOOLEAN /\ astray \in BOOLEAN

DialogCounts ==
  /\ overlays \in Int /\ bound \in Int
  /\ focus \in {"page", "dialog", "none"} /\ opener \in {"page", "none"}

DialogFates ==
  /\ questions \in 0 .. MaxQuestions
  /\ fate \in [1 .. MaxQuestions ->
       {"none", "asked", "confirmed", "cancelled", "nested", "replaced"}]
  /\ \A q \in 1 .. MaxQuestions : fate[q] = "none" <=> q > questions

\* Overlay, focus trap and list of instances are there exactly while the dialog
\* is open, and its timer only then.
TrapFollowsDialog ==
  /\ overlays = IF isOpen THEN 1 ELSE 0
  /\ (trap <=> isOpen) /\ (tracked <=> isOpen)
  /\ opening => isOpen
  /\ focus = "dialog" => isOpen

\* Text and buttons belong to the last question, open or not.
LastQuestion == text = questions /\ buttons = questions

\* Handlers are bound once or not at all.
BoundOnce == bound = 0 \/ bound = 1

DialogInv ==
  /\ DialogFlags /\ DialogCounts /\ DialogFates
  /\ TrapFollowsDialog /\ LastQuestion /\ BoundOnce
  /\ D!QuestionsSettled /\ D!FocusStaysInside /\ D!OneDrag

\* A page just loaded is in order.
LEMMA DialogInit == D!Init => DialogInv
<1> SUFFICES ASSUME D!Init PROVE DialogInv
  OBVIOUS
<1> USE DEF D!Init, D!WidgetInit
<1>1. DialogFlags
  BY DEF DialogFlags
<1>2. DialogCounts
  BY DEF DialogCounts
<1>3. DialogFates
  BY DialogNumbers DEF DialogFates
<1>4. TrapFollowsDialog
  BY DEF TrapFollowsDialog
<1>5. LastQuestion /\ BoundOnce
  BY DEF LastQuestion, BoundOnce
<1>6. D!QuestionsSettled
  BY DEF D!QuestionsSettled
<1>7. D!FocusStaysInside
  BY DEF D!FocusStaysInside
<1>8. D!OneDrag
  BY DEF D!OneDrag
<1> QED
  BY <1>1, <1>2, <1>3, <1>4, <1>5, <1>6, <1>7, <1>8 DEF DialogInv

\* Every step of user, timer and window keeps it so.
LEMMA DialogStep == DialogInv /\ [D!Next]_dialogVars => DialogInv'
<1> SUFFICES ASSUME DialogInv, [D!Next]_dialogVars PROVE DialogInv'
  OBVIOUS
<1> USE DEF DialogInv
<1>1. CASE ~isOpen /\ D!SetQuestion /\ D!Open /\ D!Ask
  <2>1. DialogFlags'
    BY <1>1 DEF D!Ask, D!Replace, D!Open, D!CreateOverlay, D!SetQuestion, DialogFlags
  <2>2. DialogCounts'
    BY <1>1 DEF D!Ask, D!Replace, D!Open, D!CreateOverlay, D!SetQuestion, DialogCounts
  <2>0. /\ questions < MaxQuestions /\ questions' = questions + 1 /\ isOpen'
        /\ text' = questions' /\ buttons' = questions'
        /\ fate' = [fate EXCEPT ![questions'] = "asked"]
    BY <1>1 DEF D!Ask, D!Replace, D!Open, D!SetQuestion
  <2>3. DialogFates'
    BY <2>0, DialogNumbers DEF DialogFates
  <2>4. TrapFollowsDialog'
    BY <1>1 DEF D!Ask, D!Replace, D!Open, D!CreateOverlay, D!SetQuestion, DialogFlags, DialogCounts, TrapFollowsDialog
  <2>5. LastQuestion' /\ BoundOnce'
    BY <1>1 DEF D!Ask, D!Replace, D!Open, D!CreateOverlay, D!SetQuestion, LastQuestion, BoundOnce, D!OneDrag, DialogFlags
  <2>6. D!QuestionsSettled'
    BY <1>1, <2>0, DialogNumbers DEF DialogFates, LastQuestion, DialogFlags, D!QuestionsSettled
  <2>7. D!FocusStaysInside'
    BY <1>1 DEF D!Ask, D!Replace, D!Open, D!CreateOverlay, D!SetQuestion, DialogFlags, TrapFollowsDialog, D!FocusStaysInside
  <2>8. D!OneDrag'
    BY <1>1 DEF D!Ask, D!Replace, D!Open, D!CreateOverlay, D!SetQuestion, DialogFlags, BoundOnce, D!OneDrag
  <2> QED
    BY <2>1, <2>2, <2>3, <2>4, <2>5, <2>6, <2>7, <2>8
<1>2. CASE D!Returns /\ D!CanPress /\ UNCHANGED <<win, spot, pressed, handled, bound, moved, started, ignoring, downAt, D!dragVars>>
  <2>1. DialogFlags'
    BY <1>2 DEF D!Returns, D!CanPress, D!Close, D!DestroyOverlay, D!mouseVars, DialogFlags
  <2>2. DialogCounts'
    BY <1>2 DEF D!Returns, D!CanPress, D!Close, D!DestroyOverlay, D!mouseVars, DialogCounts
  <2>3. DialogFates'
    <3>1. questions' = questions /\ fate' = [fate EXCEPT ![questions] = "confirmed"]
      BY <1>2 DEF D!Returns, LastQuestion
    <3>2. questions \in Nat /\ \A q \in 1 .. MaxQuestions : fate'[q] = "none" <=> q > questions
      BY <3>1, DialogNumbers DEF DialogFates
    <3> QED
      BY <3>1, <3>2, DialogNumbers DEF DialogFates
  <2>4. TrapFollowsDialog'
    BY <1>2 DEF D!Returns, D!CanPress, D!Close, D!DestroyOverlay, D!mouseVars, DialogFlags, DialogCounts, TrapFollowsDialog
  <2>5. LastQuestion' /\ BoundOnce'
    BY <1>2 DEF D!Returns, D!CanPress, D!Close, D!DestroyOverlay, D!mouseVars, LastQuestion, BoundOnce, D!OneDrag, DialogFlags
  <2>6. D!QuestionsSettled'
    BY <1>2, DialogNumbers DEF D!Returns, D!CanPress, D!Close, D!DestroyOverlay, D!mouseVars, DialogFates, LastQuestion, DialogFlags, D!QuestionsSettled
  <2>7. D!FocusStaysInside'
    BY <1>2 DEF D!Returns, D!CanPress, D!Close, D!DestroyOverlay, D!mouseVars, DialogFlags, TrapFollowsDialog, D!FocusStaysInside
  <2>8. D!OneDrag'
    BY <1>2 DEF D!Returns, D!CanPress, D!Close, D!DestroyOverlay, D!mouseVars, DialogFlags, BoundOnce, D!OneDrag
  <2> QED
    BY <2>1, <2>2, <2>3, <2>4, <2>5, <2>6, <2>7, <2>8
<1>3. CASE D!Throws /\ UNCHANGED <<win, spot, pressed, handled, bound, moved, started, ignoring, downAt, D!dragVars>>
  BY <1>3, DialogNumbers
     DEF D!Throws, D!trapVars, D!mouseVars, D!questionVars, DialogFlags, DialogCounts, DialogFates, TrapFollowsDialog, LastQuestion, BoundOnce,
         D!QuestionsSettled, D!FocusStaysInside, D!OneDrag
<1>4. CASE D!AsksAgain /\ D!CanPress /\ UNCHANGED <<win, spot, pressed, handled, bound, moved, started, ignoring, downAt, D!dragVars>>
  <2>1. DialogFlags'
    BY <1>4 DEF D!AsksAgain, D!CanPress, D!Close, D!DestroyOverlay, D!SetQuestion, D!mouseVars, DialogFlags
  <2>2. DialogCounts'
    BY <1>4 DEF D!AsksAgain, D!CanPress, D!Close, D!DestroyOverlay, D!SetQuestion, D!mouseVars, DialogCounts
  <2>3. DialogFates'
    BY <1>4, DialogNumbers DEF D!AsksAgain, D!CanPress, D!Close, D!DestroyOverlay, D!SetQuestion, D!mouseVars, DialogFates, LastQuestion
  <2>4. TrapFollowsDialog'
    BY <1>4 DEF D!AsksAgain, D!CanPress, D!Close, D!DestroyOverlay, D!SetQuestion, D!mouseVars, DialogFlags, DialogCounts, TrapFollowsDialog
  <2>5. LastQuestion' /\ BoundOnce'
    BY <1>4 DEF D!AsksAgain, D!CanPress, D!Close, D!DestroyOverlay, D!SetQuestion, D!mouseVars, LastQuestion, BoundOnce, D!OneDrag, DialogFlags
  <2>6. D!QuestionsSettled'
    BY <1>4, DialogNumbers DEF D!AsksAgain, D!CanPress, D!Close, D!DestroyOverlay, D!SetQuestion, D!mouseVars, DialogFates, LastQuestion, DialogFlags, D!QuestionsSettled
  <2>7. D!FocusStaysInside'
    BY <1>4 DEF D!AsksAgain, D!CanPress, D!Close, D!DestroyOverlay, D!SetQuestion, D!mouseVars, DialogFlags, TrapFollowsDialog, D!FocusStaysInside
  <2>8. D!OneDrag'
    BY <1>4 DEF D!AsksAgain, D!CanPress, D!Close, D!DestroyOverlay, D!SetQuestion, D!mouseVars, DialogFlags, BoundOnce, D!OneDrag
  <2> QED
    BY <2>1, <2>2, <2>3, <2>4, <2>5, <2>6, <2>7, <2>8
<1>5. CASE D!Cancel
  <2>1. DialogFlags'
    BY <1>5 DEF D!Cancel, D!CanPress, D!Close, D!DestroyOverlay, D!mouseVars, DialogFlags
  <2>2. DialogCounts'
    BY <1>5 DEF D!Cancel, D!CanPress, D!Close, D!DestroyOverlay, D!mouseVars, DialogCounts
  <2>3. DialogFates'
    <3>1. questions' = questions /\ fate' = [fate EXCEPT ![questions] = "cancelled"]
      BY <1>5 DEF D!Cancel, LastQuestion
    <3>2. questions \in Nat /\ \A q \in 1 .. MaxQuestions : fate'[q] = "none" <=> q > questions
      BY <3>1, DialogNumbers DEF DialogFates
    <3> QED
      BY <3>1, <3>2, DialogNumbers DEF DialogFates
  <2>4. TrapFollowsDialog'
    BY <1>5 DEF D!Cancel, D!CanPress, D!Close, D!DestroyOverlay, D!mouseVars, DialogFlags, DialogCounts, TrapFollowsDialog
  <2>5. LastQuestion' /\ BoundOnce'
    BY <1>5 DEF D!Cancel, D!CanPress, D!Close, D!DestroyOverlay, D!mouseVars, LastQuestion, BoundOnce, D!OneDrag, DialogFlags
  <2>6. D!QuestionsSettled'
    BY <1>5, DialogNumbers DEF D!Cancel, D!CanPress, D!Close, D!DestroyOverlay, D!mouseVars, DialogFates, LastQuestion, DialogFlags, D!QuestionsSettled
  <2>7. D!FocusStaysInside'
    BY <1>5 DEF D!Cancel, D!CanPress, D!Close, D!DestroyOverlay, D!mouseVars, DialogFlags, TrapFollowsDialog, D!FocusStaysInside
  <2>8. D!OneDrag'
    BY <1>5 DEF D!Cancel, D!CanPress, D!Close, D!DestroyOverlay, D!mouseVars, DialogFlags, BoundOnce, D!OneDrag
  <2> QED
    BY <2>1, <2>2, <2>3, <2>4, <2>5, <2>6, <2>7, <2>8
<1>6. CASE D!Opened /\ UNCHANGED D!questionVars
  BY <1>6, DialogNumbers
     DEF D!Opened, D!mouseVars, D!questionVars, DialogFlags, DialogCounts, DialogFates, TrapFollowsDialog, LastQuestion, BoundOnce,
         D!QuestionsSettled, D!FocusStaysInside, D!OneDrag
<1>7. CASE D!FocusPage /\ UNCHANGED D!questionVars
  <2>1. DialogFlags'
    BY <1>7 DEF D!FocusPage, D!mouseVars, D!questionVars, DialogFlags
  <2>2. DialogCounts'
    BY <1>7 DEF D!FocusPage, D!mouseVars, D!questionVars, DialogCounts
  <2>3. DialogFates'
    BY <1>7, DialogNumbers DEF D!FocusPage, D!mouseVars, D!questionVars, DialogFates
  <2>4. TrapFollowsDialog'
    BY <1>7 DEF D!FocusPage, D!mouseVars, D!questionVars, DialogFlags, DialogCounts, TrapFollowsDialog
  <2>5. LastQuestion' /\ BoundOnce'
    BY <1>7 DEF D!FocusPage, D!mouseVars, D!questionVars, LastQuestion, BoundOnce, D!OneDrag, DialogFlags
  <2>6. D!QuestionsSettled'
    BY <1>7, DialogNumbers DEF D!FocusPage, D!mouseVars, D!questionVars, DialogFates, LastQuestion, DialogFlags, D!QuestionsSettled
  <2>7. D!FocusStaysInside'
    BY <1>7 DEF D!FocusPage, D!mouseVars, D!questionVars, DialogFlags, TrapFollowsDialog, D!FocusStaysInside
  <2>8. D!OneDrag'
    BY <1>7 DEF D!FocusPage, D!mouseVars, D!questionVars, DialogFlags, BoundOnce, D!OneDrag
  <2> QED
    BY <2>1, <2>2, <2>3, <2>4, <2>5, <2>6, <2>7, <2>8
<1>8. CASE (\E g \in Grabs : D!Press(g)) /\ UNCHANGED D!questionVars
  <2>1. DialogFlags'
    BY <1>8 DEF D!Press, D!questionVars, DialogFlags
  <2>2. DialogCounts'
    BY <1>8 DEF D!Press, D!questionVars, DialogCounts
  <2>3. DialogFates'
    BY <1>8, DialogNumbers DEF D!Press, D!questionVars, DialogFates
  <2>4. TrapFollowsDialog'
    BY <1>8 DEF D!Press, D!questionVars, DialogFlags, DialogCounts, TrapFollowsDialog
  <2>5. LastQuestion' /\ BoundOnce'
    BY <1>8 DEF D!Press, D!questionVars, LastQuestion, BoundOnce, D!OneDrag, DialogFlags
  <2>6. D!QuestionsSettled'
    BY <1>8, DialogNumbers DEF D!Press, D!questionVars, DialogFates, LastQuestion, DialogFlags, D!QuestionsSettled
  <2>7. D!FocusStaysInside'
    BY <1>8 DEF D!Press, D!questionVars, DialogFlags, TrapFollowsDialog, D!FocusStaysInside
  <2>8. D!OneDrag'
    BY <1>8 DEF D!Press, D!questionVars, DialogFlags, BoundOnce, D!OneDrag
  <2> QED
    BY <2>1, <2>2, <2>3, <2>4, <2>5, <2>6, <2>7, <2>8
<1>9. CASE D!PressElsewhere /\ UNCHANGED D!questionVars
  <2>1. DialogFlags'
    BY <1>9 DEF D!PressElsewhere, D!questionVars, DialogFlags
  <2>2. DialogCounts'
    BY <1>9 DEF D!PressElsewhere, D!questionVars, DialogCounts
  <2>3. DialogFates'
    BY <1>9, DialogNumbers DEF D!PressElsewhere, D!questionVars, DialogFates
  <2>4. TrapFollowsDialog'
    BY <1>9 DEF D!PressElsewhere, D!questionVars, DialogFlags, DialogCounts, TrapFollowsDialog
  <2>5. LastQuestion' /\ BoundOnce'
    BY <1>9 DEF D!PressElsewhere, D!questionVars, LastQuestion, BoundOnce, D!OneDrag, DialogFlags
  <2>6. D!QuestionsSettled'
    BY <1>9, DialogNumbers DEF D!PressElsewhere, D!questionVars, DialogFates, LastQuestion, DialogFlags, D!QuestionsSettled
  <2>7. D!FocusStaysInside'
    BY <1>9 DEF D!PressElsewhere, D!questionVars, DialogFlags, TrapFollowsDialog, D!FocusStaysInside
  <2>8. D!OneDrag'
    BY <1>9 DEF D!PressElsewhere, D!questionVars, DialogFlags, BoundOnce, D!OneDrag
  <2> QED
    BY <2>1, <2>2, <2>3, <2>4, <2>5, <2>6, <2>7, <2>8
<1>10. CASE D!Release /\ UNCHANGED D!questionVars
  <2>1. DialogFlags'
    BY <1>10 DEF D!Release, D!MouseUp, D!questionVars, DialogFlags
  <2>2. DialogCounts'
    BY <1>10 DEF D!Release, D!MouseUp, D!questionVars, DialogCounts
  <2>3. DialogFates'
    BY <1>10, DialogNumbers DEF D!Release, D!MouseUp, D!questionVars, DialogFates
  <2>4. TrapFollowsDialog'
    BY <1>10 DEF D!Release, D!MouseUp, D!questionVars, DialogFlags, DialogCounts, TrapFollowsDialog
  <2>5. LastQuestion' /\ BoundOnce'
    BY <1>10 DEF D!Release, D!MouseUp, D!questionVars, LastQuestion, BoundOnce, D!OneDrag, DialogFlags
  <2>6. D!QuestionsSettled'
    BY <1>10, DialogNumbers DEF D!Release, D!MouseUp, D!questionVars, DialogFates, LastQuestion, DialogFlags, D!QuestionsSettled
  <2>7. D!FocusStaysInside'
    BY <1>10 DEF D!Release, D!MouseUp, D!questionVars, DialogFlags, TrapFollowsDialog, D!FocusStaysInside
  <2>8. D!OneDrag'
    BY <1>10 DEF D!Release, D!MouseUp, D!questionVars, DialogFlags, BoundOnce, D!OneDrag
  <2> QED
    BY <2>1, <2>2, <2>3, <2>4, <2>5, <2>6, <2>7, <2>8
<1>11. CASE D!MissRelease /\ UNCHANGED D!questionVars
  BY <1>11, DialogNumbers
     DEF D!MissRelease, D!trapVars, D!questionVars, DialogFlags, DialogCounts, DialogFates, TrapFollowsDialog, LastQuestion, BoundOnce,
         D!QuestionsSettled, D!FocusStaysInside, D!OneDrag
<1>12. CASE (\E m \in MousePlaces, which, held \in BOOLEAN : D!Move(m, which, held)) /\ UNCHANGED D!questionVars
  <2>1. DialogFlags'
    <3> PICK m \in MousePlaces, which \in BOOLEAN, held \in BOOLEAN : D!Move(m, which, held)
      BY <1>12
    <3> DEFINE ends == moved /\ ~which /\ ~held /\ ~ignoring
    <3>1. CASE ends
      BY <3>1 DEF D!Move, D!MouseUp, DialogFlags
    <3>2. CASE ~ends
      <4>1. started' \in BOOLEAN /\ astray' \in BOOLEAN
        BY <3>2 DEF D!Move, D!Follow, D!Drag, DialogFlags
      <4> QED
        BY <3>2, <4>1 DEF D!Move, DialogFlags
    <3> QED
      BY <3>1, <3>2
  <2>2. DialogCounts'
    BY <1>12 DEF D!Move, D!Follow, D!Drag, D!MouseUp, D!questionVars, DialogCounts
  <2>3. DialogFates'
    BY <1>12, DialogNumbers DEF D!Move, D!Follow, D!Drag, D!MouseUp, D!questionVars, DialogFates
  <2>4. TrapFollowsDialog'
    BY <1>12 DEF D!Move, D!Follow, D!Drag, D!MouseUp, D!questionVars, DialogFlags, DialogCounts, TrapFollowsDialog
  <2>5. LastQuestion' /\ BoundOnce'
    BY <1>12 DEF D!Move, D!Follow, D!Drag, D!MouseUp, D!questionVars, LastQuestion, BoundOnce, D!OneDrag, DialogFlags
  <2>6. D!QuestionsSettled'
    BY <1>12, DialogNumbers DEF D!Move, D!Follow, D!Drag, D!MouseUp, D!questionVars, DialogFates, LastQuestion, DialogFlags, D!QuestionsSettled
  <2>7. D!FocusStaysInside'
    BY <1>12 DEF D!Move, D!Follow, D!Drag, D!MouseUp, D!questionVars, DialogFlags, TrapFollowsDialog, D!FocusStaysInside
  <2>8. D!OneDrag'
    <3> PICK m \in MousePlaces, which \in BOOLEAN, held \in BOOLEAN : D!Move(m, which, held)
      BY <1>12
    <3> DEFINE ends == moved /\ ~which /\ ~held /\ ~ignoring
    <3>1. CASE ends
      BY <3>1 DEF D!Move, D!MouseUp, D!OneDrag, DialogFlags
    <3>2. CASE ~ends
      BY <3>2 DEF D!Move, D!Follow, D!OneDrag, DialogFlags
    <3> QED
      BY <3>1, <3>2
  <2> QED
    BY <2>1, <2>2, <2>3, <2>4, <2>5, <2>6, <2>7, <2>8
<1>13. CASE D!Resize /\ UNCHANGED D!questionVars
  BY <1>13, DialogNumbers
     DEF D!Resize, D!trapVars, D!mouseVars, D!questionVars, DialogFlags, DialogCounts, DialogFates, TrapFollowsDialog, LastQuestion, BoundOnce,
         D!QuestionsSettled, D!FocusStaysInside, D!OneDrag
<1>14. CASE UNCHANGED dialogVars
  BY <1>14, DialogNumbers
     DEF dialogVars, DialogFlags, DialogCounts, DialogFates, TrapFollowsDialog, LastQuestion, BoundOnce,
         D!QuestionsSettled, D!FocusStaysInside, D!OneDrag
<1>15. CASE D!Replace /\ UNCHANGED <<win, spot, pressed, handled, bound, moved, started, ignoring, downAt, D!dragVars>>
  <2>1. DialogFlags'
    BY <1>15 DEF D!Replace, D!SetQuestion, DialogFlags
  <2>2. DialogCounts'
    BY <1>15 DEF D!Replace, D!SetQuestion, DialogCounts
  <2>3. DialogFates'
    BY <1>15, DialogNumbers DEF D!Replace, D!SetQuestion, DialogFates, LastQuestion
  <2>4. TrapFollowsDialog'
    BY <1>15 DEF D!Replace, D!SetQuestion, DialogFlags, DialogCounts, TrapFollowsDialog
  <2>5. LastQuestion' /\ BoundOnce'
    BY <1>15 DEF D!Replace, D!SetQuestion, LastQuestion, BoundOnce, D!OneDrag, DialogFlags
  <2>6. D!QuestionsSettled'
    BY <1>15, DialogNumbers DEF D!Replace, D!SetQuestion, DialogFates, LastQuestion, DialogFlags, D!QuestionsSettled
  <2>7. D!FocusStaysInside'
    BY <1>15 DEF D!Replace, D!SetQuestion, DialogFlags, TrapFollowsDialog, D!FocusStaysInside
  <2>8. D!OneDrag'
    BY <1>15 DEF D!Replace, D!SetQuestion, DialogFlags, BoundOnce, D!OneDrag
  <2> QED
    BY <2>1, <2>2, <2>3, <2>4, <2>5, <2>6, <2>7, <2>8
<1> QED
  BY <1>1, <1>2, <1>3, <1>4, <1>5, <1>6, <1>7, <1>8, <1>9, <1>10, <1>11, <1>12, <1>13, <1>14, <1>15 DEF D!Next, D!WidgetNext, D!Confirm, D!Ask

(***************************************************************************)
(* The dialog: where it is shown.                                          *)
(***************************************************************************)

\* With my and at both at the left, flipping moves a dialog that sticks out by as
\* much as it helps, which is never less: the place of a drag is kept.
LEMMA FlipKeeps ==
  ASSUME DialogWidth \in Int, win \in Int, NEW left \in Int
  PROVE  D!Flip(left) = left
BY DEF D!Flip

\* A centred dialog fits into the window or is at its left edge.
LEMMA FitShows ==
  ASSUME win \in Widths
  PROVE  LET left == D!Fit((win - DialogWidth) \div 2)
         IN  left \in Int /\ left >= 0 /\ (left + DialogWidth <= win \/ left = 0)
<1> DEFINE k == (win - DialogWidth) \div 2
<1>1. win \in Nat /\ DialogWidth \in Nat
  BY DialogNumbers
<1>2. (win - DialogWidth) % 2 = 0
  BY DialogCentred
<1>3. k \in Int /\ win - DialogWidth = 2 * k
  BY <1>1, <1>2
<1> HIDE DEF k
<1> QED
  BY <1>1, <1>3 DEF D!Fit, k

\* Places are whole numbers, the dialog is where a drag in progress last put it,
\* and an open dialog where the last drag left it, unless a question moved it.
PlaceInv ==
  /\ win \in Widths /\ place \in Int /\ spot \in Int
  /\ reach \in Int /\ grab \in Int /\ dragged \in Int /\ downAt \in Nat
  /\ started /\ ~astray => place = dragged
  /\ D!PlaceKept

LEMMA PlaceInit == D!Init => PlaceInv
BY DialogNumbers DEF D!Init, D!WidgetInit, D!Centred, PlaceInv, D!PlaceKept

\* Asking puts the dialog where the position option says.
LEMMA PositionKeeps ==
  ASSUME PlaceInv
  PROVE  /\ D!Position \in Int
         /\ IF spot = D!Centred
            THEN D!Position >= 0 /\ (D!Position + DialogWidth <= win \/ D!Position = 0)
            ELSE D!Position = spot
<1>1. CASE spot = D!Centred
  BY <1>1, FitShows DEF D!Position, PlaceInv
<1>2. CASE spot # D!Centred
  <2>1. DialogWidth \in Int /\ win \in Int /\ spot \in Int
    BY <1>2, DialogNumbers DEF PlaceInv
  <2>2. D!Flip(spot) = spot
    BY <2>1, FlipKeeps
  <2> QED
    BY <1>2, <2>1, <2>2 DEF D!Position
<1> QED
  BY <1>1, <1>2

\* Every question keeps the dialog where the drag left it, or notes that it moved it.
LEMMA QuestionPlaced ==
  ASSUME DialogInv, PlaceInv, D!SetQuestion,
         UNCHANGED <<win, spot, started, downAt, D!dragVars>>
  PROVE  PlaceInv'
<1>1. /\ place' = D!Position /\ place' \in Int /\ (spot # D!Centred => place' = spot)
      /\ astray' = started
  BY PositionKeeps DEF D!SetQuestion
<1>2. D!Centred' = D!Centred
  BY DEF D!Centred
<1> QED
  BY <1>1, <1>2 DEF PlaceInv, D!PlaceKept, D!dragVars

\* Every step keeps the places and the dialog where the drag left it.
LEMMA PlaceStep ==
  DialogInv /\ PlaceInv /\ [D!Next]_dialogVars => PlaceInv'
<1> SUFFICES ASSUME DialogInv, PlaceInv, [D!Next]_dialogVars
             PROVE  PlaceInv'
  OBVIOUS
<1> USE DEF PlaceInv, D!PlaceKept, D!Centred
<1>1. CASE D!Ask
  BY <1>1, QuestionPlaced DEF D!Ask, D!Replace
<1>2. CASE (D!AsksAgain \/ D!Replace) /\ D!Confirm
  BY <1>2, QuestionPlaced DEF D!AsksAgain, D!Replace, D!Confirm
<1>3. CASE (D!Returns \/ D!Throws) /\ D!Confirm
  <2>1. /\ UNCHANGED <<win, spot, place, astray, started, downAt, D!dragVars>>
        /\ isOpen' => isOpen
    BY <1>3 DEF D!Returns, D!Throws, D!Close, D!trapVars, D!Confirm, D!CanPress
  <2> QED
    BY <2>1 DEF D!dragVars
<1>4. CASE D!Cancel
  BY <1>4 DEF D!Cancel, D!Close, D!mouseVars, D!dragVars
<1>5. CASE D!Opened \/ D!FocusPage \/ D!PressElsewhere \/ D!MissRelease
  BY <1>5 DEF D!Opened, D!FocusPage, D!PressElsewhere, D!MissRelease, D!trapVars, D!mouseVars,
              D!dragVars
<1>6. CASE \E g \in Grabs : D!Press(g)
  BY <1>6, DialogNumbers DEF D!Press, D!dragVars
<1>7. CASE D!Release
  BY <1>7 DEF D!Release, D!MouseUp, D!dragVars
<1>8. CASE \E m \in MousePlaces, which, held \in BOOLEAN : D!Move(m, which, held)
  <2> PICK m \in MousePlaces, which \in BOOLEAN, held \in BOOLEAN : D!Move(m, which, held)
    BY <1>8
  <2>1. m \in Nat /\ DialogWidth \in Nat /\ win \in Nat
    BY DialogNumbers
  <2>2. CASE moved /\ ~which /\ ~held /\ ~ignoring
    BY <2>2 DEF D!Move, D!MouseUp
  <2>3. CASE ~(moved /\ ~which /\ ~held /\ ~ignoring)
    <3>1. D!Follow(m) /\ UNCHANGED <<isOpen, win, spot, downAt>>
      BY <2>3 DEF D!Move
    <3>2. CASE started
      <4>1. D!Drag(m, grab, reach) /\ UNCHANGED <<started, grab, reach>>
        BY <3>1, <3>2 DEF D!Follow
      <4>2. place' \in Int /\ dragged' = place' /\ started'
        BY <2>1, <3>2, <4>1 DEF D!Drag, D!Least, D!Greatest
      <4> QED
        BY <3>1, <4>1, <4>2
    <3>3. CASE ~started /\ m # downAt
      <4>1. /\ started' /\ grab' = downAt - D!Offset /\ reach' = D!Containment
            /\ D!Drag(m, grab', reach')
        BY <3>1, <3>3 DEF D!Follow
      <4>2. grab' \in Int /\ reach' \in Int
        BY <2>1, <4>1 DEF D!Offset, D!Containment, D!Greatest
      <4>3. place' \in Int /\ dragged' = place'
        BY <2>1, <4>1, <4>2 DEF D!Drag, D!Least, D!Greatest
      <4> QED
        BY <3>1, <4>1, <4>2, <4>3
    <3>4. CASE ~started /\ m = downAt
      BY <3>1, <3>4 DEF D!Follow, D!dragVars
    <3> QED
      BY <3>2, <3>3, <3>4
  <2> QED
    BY <2>2, <2>3
<1>9. CASE D!Resize
  BY <1>9 DEF D!Resize, D!trapVars, D!mouseVars, D!dragVars
<1>10. CASE UNCHANGED dialogVars
  BY <1>10 DEF dialogVars
<1> QED
  BY <1>1, <1>2, <1>3, <1>4, <1>5, <1>6, <1>7, <1>8, <1>9, <1>10
     DEF D!Next, D!WidgetNext, D!Confirm

\* Every question, opening the dialog or not, puts it where the position option says.
LEMMA QuestionStep ==
  DialogInv /\ PlaceInv /\ [D!Next]_dialogVars =>
    (questions' # questions =>
       IF spot = D!Centred
       THEN place' >= 0 /\ (place' + DialogWidth <= win \/ place' = 0)
       ELSE place' = spot)
<1> SUFFICES ASSUME PlaceInv, [D!Next]_dialogVars, questions' # questions
             PROVE  IF spot = D!Centred
                    THEN place' >= 0 /\ (place' + DialogWidth <= win \/ place' = 0)
                    ELSE place' = spot
  OBVIOUS
<1>1. D!SetQuestion
  BY DEF D!Next, D!Ask, D!Replace, D!Confirm, D!Returns, D!Throws, D!AsksAgain, D!Cancel,
         D!questionVars, dialogVars
<1> QED
  BY <1>1, PositionKeeps DEF D!SetQuestion


(***************************************************************************)
(* The pager: the arithmetic of pages and windows.                         *)
(***************************************************************************)

\* Max and Min of two numbers.
LEMMA MaxOfTwo ==
  ASSUME NEW a \in Int, NEW b \in Int
  PROVE  P!Max({a, b}) = IF a < b THEN b ELSE a
<1>1. PICK x \in {a, b} : \A y \in {a, b} : x >= y
  <2>1. CASE a < b
    BY <2>1
  <2>2. CASE ~(a < b)
    BY <2>2
  <2> QED
    BY <2>1, <2>2
<1>2. P!Max({a, b}) \in {a, b} /\ \A y \in {a, b} : P!Max({a, b}) >= y
  BY <1>1 DEF P!Max
<1> QED
  BY <1>2

LEMMA MinOfTwo ==
  ASSUME NEW a \in Int, NEW b \in Int
  PROVE  P!Min({a, b}) = IF a < b THEN a ELSE b
<1>1. PICK x \in {a, b} : \A y \in {a, b} : x <= y
  <2>1. CASE a < b
    BY <2>1
  <2>2. CASE ~(a < b)
    BY <2>2
  <2> QED
    BY <2>1, <2>2
<1>2. P!Min({a, b}) \in {a, b} /\ \A y \in {a, b} : P!Min({a, b}) <= y
  BY <1>1 DEF P!Min
<1> QED
  BY <1>2

\* The pages are the least number that holds the list, and one for an empty list.
LEMMA PageCountHolds ==
  ASSUME NEW count \in Nat, NEW per \in Nat \ {0}
  PROVE  LET n == P!PageCount(count, per)
         IN  n \in Nat \ {0} /\ n * per >= count /\ (n > 1 => (n - 1) * per < count)
<1> DEFINE q == count \div per
           r == count % per
<1>1. q \in Nat /\ r \in Nat /\ r < per /\ count = (q * per) + r
  OBVIOUS
<1>2. q = 0 => count = r
  BY <1>1
<1> HIDE DEF q, r
<1>3. P!PageCount(count, per) = IF count <= 0 THEN 1 ELSE IF r > 0 THEN q + 1 ELSE q
  BY DEF P!PageCount, q, r
<1>4. (q + 1) * per = (q * per) + per
  BY <1>1
<1>5. (q - 1) * per = (q * per) - per
  BY <1>1
<1>6. q * per \in Nat
  BY <1>1
<1> QED
  BY <1>1, <1>2, <1>3, <1>4, <1>5, <1>6

\* A window begins with a page and shows pages only; it shows the current page when
\* that is one.
LEMMA WindowFits ==
  ASSUME NEW max \in Nat \ {0}, NEW n \in Nat \ {0}, NEW current \in Nat \ {0}
  PROVE  LET low == P!Low(max, n, current)
             num == P!Min({max, n})
         IN  /\ low \in Nat \ {0} /\ num \in Nat
             /\ current <= n => low <= current /\ current <= low + num - 1 /\ low + num - 1 <= n
<1> DEFINE half == max \div 2
<1>1. half \in Nat /\ (max = 2 * half \/ max = (2 * half) + 1)
  OBVIOUS
<1> HIDE DEF half
<1>2. P!Low(max, n, current) =
        IF current - half <= 0 THEN 1
        ELSE IF current + half <= n THEN current - half
        ELSE IF 1 < n - max + 1 THEN n - max + 1 ELSE 1
  BY MaxOfTwo DEF P!Low, half
<1>3. P!Min({max, n}) = IF max < n THEN max ELSE n
  BY MinOfTwo
<1> QED
  BY <1>1, <1>2, <1>3

(***************************************************************************)
(* The pager: what is drawn.                                               *)
(***************************************************************************)

PagerTypes ==
  /\ attrs \in [Elements -> [max : MaxItems \cup {0}, per : PerPage \cup {0}]]
  /\ page \in P!Settings
  /\ drawn \in [Elements -> P!Drawing]
  /\ closure \in [Elements -> Counts \cup {0}]
  /\ inited \subseteq Elements /\ asked \in Counts \cup {0}
  /\ fits \in BOOLEAN /\ reasked \in BOOLEAN

\* Only an element initialised shows anything, and then a window that fits.
Shown(d) ==
  /\ d.pageCount \in Nat \ {0} /\ d.current \in Nat \ {0} /\ d.low \in Nat \ {0}
  /\ d.current <= d.pageCount =>
       d.low <= d.current /\ d.current <= d.low + d.num - 1 /\ d.low + d.num - 1 <= d.pageCount

WindowInv ==
  \A e \in Elements :
    IF e \in inited THEN Shown(drawn[e]) ELSE drawn[e].pageCount = 0

\* While one element only is initialised, the global settings are its own: each
\* drawing has the pages of the list the handlers hold.
OwnSettings ==
  /\ inited = {} => page.per = 10
  /\ \A e \in Elements : inited = {e} =>
       /\ page.per = P!Own(e)
       /\ drawn[e].pageCount = P!PageCount(closure[e], P!Own(e))

\* Its list is the one last given, and its page is a page of it.
OwnList ==
  \A e \in Elements : inited = {e} =>
    /\ ~reasked => asked = closure[e]
    /\ fits => drawn[e].current <= drawn[e].pageCount

PagerInv == PagerTypes /\ WindowInv /\ OwnSettings /\ OwnList

LEMMA PagerInit == P!Init => PagerInv
<1> SUFFICES ASSUME P!Init PROVE PagerInv
  OBVIOUS
<1> USE DEF P!Init
<1>1. PagerTypes
  <2>1. [pageCount |-> 0, current |-> 0, low |-> 0, num |-> 0] \in P!Drawing
    BY DEF P!Drawing
  <2>2. drawn \in [Elements -> P!Drawing]
    BY <2>1
  <2>3. page \in P!Settings
    BY DEF P!Settings
  <2> QED
    BY <2>2, <2>3 DEF PagerTypes
<1>2. WindowInv
  BY DEF WindowInv
<1>3. OwnSettings /\ OwnList
  BY DEF OwnSettings, OwnList
<1> QED
  BY <1>1, <1>2, <1>3 DEF PagerInv

\* What a drawing with settings s shows.
Drew(s, e, count, current) ==
  /\ drawn'[e].pageCount = P!PageCount(count, s.per)
  /\ drawn'[e].current = current
  /\ Shown(drawn'[e])
  /\ closure'[e] = count
  /\ \A f \in Elements \ {e} : drawn'[f] = drawn[f] /\ closure'[f] = closure[f]
  /\ drawn' \in [Elements -> P!Drawing]
  /\ closure' \in [Elements -> Counts \cup {0}]

LEMMA DrawShows ==
  ASSUME PagerTypes, NEW s \in P!Settings, NEW e \in Elements,
         NEW count \in Counts \cup {0}, NEW current \in Nat \ {0},
         P!Draw(s, e, count, current)
  PROVE  Drew(s, e, count, current)
<1> DEFINE n == P!PageCount(count, s.per)
           low == P!Low(s.max, n, current)
           num == P!Min({s.max, n})
<1>1. s.max \in Nat \ {0} /\ s.per \in Nat \ {0} /\ count \in Nat
  <2>1. s.max \in MaxItems \cup {5} /\ s.per \in PerPage \cup {10}
    BY DEF P!Settings
  <2>2. MaxItems \subseteq Nat \ {0} /\ PerPage \subseteq Nat \ {0} /\ Counts \subseteq Nat
    BY PagerNumbers
  <2>3. s.max \in Nat \ {0}
    <3>1. CASE s.max \in MaxItems
      BY <2>2, <3>1
    <3>2. CASE s.max = 5
      BY <3>2
    <3> QED
      BY <2>1, <3>1, <3>2
  <2>4. s.per \in Nat \ {0}
    <3>1. CASE s.per \in PerPage
      BY <2>2, <3>1
    <3>2. CASE s.per = 10
      BY <3>2
    <3> QED
      BY <2>1, <3>1, <3>2
  <2>5. count \in Nat
    BY <2>1, <2>2
  <2> QED
    BY <2>3, <2>4, <2>5
<1>2. n \in Nat \ {0}
  BY <1>1, PageCountHolds
<1>3. /\ low \in Nat \ {0} /\ num \in Nat
      /\ current <= n => low <= current /\ current <= low + num - 1 /\ low + num - 1 <= n
  <2> HIDE DEF n
  <2> QED
    BY <1>1, <1>2, WindowFits
<1>4. /\ drawn' = [drawn EXCEPT ![e] =
                     [pageCount |-> n, current |-> current, low |-> low, num |-> num]]
      /\ closure' = [closure EXCEPT ![e] = count]
  BY DEF P!Draw
<1> HIDE DEF n, low, num
<1>5. drawn'[e] = [pageCount |-> n, current |-> current, low |-> low, num |-> num]
  BY <1>4 DEF PagerTypes
<1>6. \A f \in Elements \ {e} : drawn'[f] = drawn[f] /\ closure'[f] = closure[f]
  BY <1>4 DEF PagerTypes
<1>7. drawn' \in [Elements -> P!Drawing]
  BY <1>2, <1>3, <1>4 DEF PagerTypes, P!Drawing
<1>8. closure' \in [Elements -> Counts \cup {0}] /\ closure'[e] = count
  BY <1>4 DEF PagerTypes
<1>9. Shown(drawn'[e])
  BY <1>2, <1>3, <1>5 DEF Shown
<1> QED
  BY <1>5, <1>6, <1>7, <1>8, <1>9 DEF Drew, n

\* The settings of an element on its own have a page length of its own.
LEMMA SettingsOf ==
  ASSUME PagerTypes, NEW e \in Elements
  PROVE  /\ P!Overwritten(e) \in P!Settings
         /\ P!Own(e) \in Nat \ {0}
         /\ page.per = 10 => P!Overwritten(e).per = P!Own(e)
         /\ page.per = P!Own(e) => P!Overwritten(e).per = P!Own(e)
<1>1. attrs[e] \in [max : MaxItems \cup {0}, per : PerPage \cup {0}]
  BY DEF PagerTypes
<1>2. page.max \in MaxItems \cup {5} /\ page.per \in PerPage \cup {10}
  BY DEF PagerTypes, P!Settings
<1>3. attrs[e].max \in MaxItems \cup {0} /\ attrs[e].per \in PerPage \cup {0}
  BY <1>1
<1> DEFINE m == IF attrs[e].max > 0 THEN attrs[e].max ELSE page.max
           p == IF attrs[e].per > 0 THEN attrs[e].per ELSE page.per
<1>4. m \in MaxItems \cup {5} /\ p \in PerPage \cup {10}
  BY <1>2, <1>3
<1>5. P!Overwritten(e) = [max |-> m, per |-> p]
  BY DEF P!Overwritten
<1>6. P!Own(e) = IF attrs[e].per > 0 THEN attrs[e].per ELSE 10
  BY DEF P!Own
<1>7. P!Own(e) \in Nat \ {0}
  <2>1. CASE attrs[e].per \in PerPage
    <3>1. attrs[e].per \in Nat \ {0}
      BY <2>1, PagerNumbers
    <3> QED
      BY <1>6, <3>1
  <2>2. CASE attrs[e].per = 0
    BY <1>6, <2>2
  <2> QED
    BY <1>3, <2>1, <2>2
<1>8. P!Overwritten(e) \in P!Settings
  <2> HIDE DEF m, p
  <2> QED
    BY <1>4, <1>5 DEF P!Settings
<1>9. P!Overwritten(e).per = p
  BY <1>5
<1> QED
  BY <1>6, <1>7, <1>8, <1>9

\* A link leads to a page of the list, if the page drawn is one.
LEMMA LinksFit ==
  ASSUME NEW e \in Elements, Shown(drawn[e]), drawn \in [Elements -> P!Drawing]
  PROVE  /\ P!Clickable(e) \subseteq Nat \ {0}
         /\ drawn[e].current <= drawn[e].pageCount =>
              P!Clickable(e) \subseteq 1 .. drawn[e].pageCount
<1> DEFINE d == drawn[e]
<1>1. d.pageCount \in Nat \ {0} /\ d.current \in Nat \ {0} /\ d.low \in Nat \ {0} /\ d.num \in Nat
  BY DEF Shown, P!Drawing
<1>2. ASSUME NEW p \in P!Clickable(e)
      PROVE  p \in Nat \ {0} /\ (d.current <= d.pageCount => p <= d.pageCount)
  <2>1. \/ p \in d.low .. d.low + d.num - 1
        \/ p = 1
        \/ d.current - 1 > 0 /\ p = d.current - 1
        \/ d.current + 1 <= d.pageCount /\ (p = d.current + 1 \/ p = d.pageCount)
    <3>1. \/ p \in P!Window(e)
          \/ d.current - 1 > 0 /\ (p = 1 \/ p = d.current - 1)
          \/ ~(d.current + 1 > d.pageCount) /\ (p = d.current + 1 \/ p = d.pageCount)
      BY <1>1, <1>2 DEF P!Clickable
    <3> QED
      BY <1>1, <3>1 DEF P!Window
  <2> HIDE DEF d
  <2>2. d.current <= d.pageCount => d.low + d.num - 1 <= d.pageCount
    BY DEF Shown, d
  <2> QED
    BY <1>1, <2>1, <2>2
<1> QED
  BY <1>1, <1>2

\* initPage draws the element with its own settings.
LEMMA InitPageStep ==
  ASSUME PagerInv, NEW e \in Elements, P!InitPage(e)
  PROVE  PagerInv'
<1>1. PICK listCount \in Counts, currentPage \in Currents :
        /\ page' = P!Overwritten(e)
        /\ P!Draw(P!Overwritten(e), e, listCount, P!Max({1, currentPage}))
        /\ P!Remember(e, listCount, P!Max({1, currentPage}) <= drawn'[e].pageCount)
        /\ UNCHANGED attrs
  BY DEF P!InitPage
<1> DEFINE current == P!Max({1, currentPage})
<1>2. current \in Nat \ {0}
  <2>1. currentPage \in Int
    BY PagerNumbers
  <2>2. current = IF 1 < currentPage THEN currentPage ELSE 1
    BY <2>1, MaxOfTwo
  <2> QED
    BY <2>1, <2>2
<1>3. PagerTypes /\ P!Overwritten(e) \in P!Settings
  BY SettingsOf DEF PagerInv
<1>4. Drew(P!Overwritten(e), e, listCount, current)
  <2> HIDE DEF current
  <2> QED
    BY <1>1, <1>2, <1>3, DrawShows DEF current
<1> HIDE DEF current
<1>5. /\ inited' = inited \cup {e}
      /\ asked' = IF inited' = {e} THEN listCount ELSE 0
      /\ fits' = (inited' = {e} /\ current <= drawn'[e].pageCount)
      /\ reasked' = FALSE
  BY <1>1 DEF P!Remember, current
<1>6. PagerTypes'
  <2>1. fits' \in BOOLEAN
    BY <1>5
  <2>2. asked' \in Counts \cup {0}
    BY <1>5
  <2>3. inited' \subseteq Elements
    BY <1>3, <1>5 DEF PagerTypes
  <2> QED
    BY <1>1, <1>3, <1>4, <1>5, <2>1, <2>2, <2>3 DEF PagerTypes, Drew
<1>7. WindowInv'
  BY <1>4, <1>5 DEF PagerInv, WindowInv, Drew
<1>8. OwnSettings'
  <2>1. inited' # {}
    BY <1>5
  <2>2. ASSUME NEW f \in Elements, inited' = {f}
        PROVE  page'.per = P!Own(f)' /\ drawn'[f].pageCount = P!PageCount(closure'[f], P!Own(f)')
    <3>1. f = e /\ (inited = {} \/ inited = {e})
      BY <1>5, <2>2
    <3>2. P!Own(e)' = P!Own(e)
      BY <1>1 DEF P!Own
    <3>3. P!Overwritten(e).per = P!Own(e)
      BY <1>3, <3>1, SettingsOf DEF PagerInv, OwnSettings
    <3> QED
      BY <1>1, <1>4, <3>1, <3>2, <3>3 DEF Drew
  <2> QED
    BY <2>1, <2>2 DEF OwnSettings
<1>9. OwnList'
  BY <1>4, <1>5 DEF OwnList, Drew
<1> QED
  BY <1>6, <1>7, <1>8, <1>9 DEF PagerInv

\* A click draws a page of the list again, with the settings the element had when
\* it is alone.
LEMMA ClickStep ==
  ASSUME PagerInv, NEW e \in Elements, P!Click(e)
  PROVE  PagerInv'
<1>1. PICK p \in P!Clickable(e) :
        \/ /\ P!Draw(page, e, closure[e], p)
           /\ UNCHANGED <<page, asked, fits, reasked>>
        \/ /\ \E listCount \in Counts :
                /\ asked' = IF inited = {e} THEN listCount ELSE 0
                /\ reasked' = (inited = {e} /\ (reasked \/ listCount # closure[e]))
           /\ page' = P!Overwritten(e)
           /\ P!Draw(page', e, closure[e], p)
           /\ UNCHANGED fits
  BY DEF P!Click
<1>2. e \in inited /\ attrs' = attrs /\ inited' = inited
  BY DEF P!Click
<1>3. PagerTypes /\ Shown(drawn[e])
  BY <1>2 DEF PagerInv, WindowInv
<1>4. /\ p \in Nat \ {0}
      /\ drawn[e].current <= drawn[e].pageCount => p <= drawn[e].pageCount
  BY <1>3, LinksFit DEF PagerTypes
<1>5. page' \in P!Settings /\ P!Draw(page', e, closure[e], p)
  <2>1. page \in P!Settings /\ P!Overwritten(e) \in P!Settings
    BY <1>3, SettingsOf DEF PagerTypes
  <2>2. page' = page => (P!Draw(page, e, closure[e], p) => P!Draw(page', e, closure[e], p))
    BY DEF P!Draw
  <2> QED
    BY <1>1, <2>1, <2>2
<1>6. closure[e] \in Counts \cup {0}
  BY <1>3 DEF PagerTypes
<1>7. Drew(page', e, closure[e], p)
  BY <1>3, <1>4, <1>5, <1>6, DrawShows
<1>8. PagerTypes'
  <2>1. reasked' \in BOOLEAN /\ asked' \in Counts \cup {0} /\ fits' \in BOOLEAN
    BY <1>1, <1>3 DEF PagerTypes
  <2> QED
    BY <1>2, <1>3, <1>5, <1>7, <2>1 DEF PagerTypes, Drew
<1>9. WindowInv'
  BY <1>2, <1>7 DEF PagerInv, WindowInv, Drew
<1>10. OwnSettings'
  <2>1. ASSUME NEW f \in Elements, inited' = {f}
        PROVE  /\ f = e /\ page'.per = P!Own(f)'
               /\ drawn'[f].pageCount = P!PageCount(closure'[f], P!Own(f)')
    <3>1. f = e /\ inited = {e}
      BY <1>2, <2>1
    <3>2. P!Own(e)' = P!Own(e)
      BY <1>2 DEF P!Own
    <3>3. page.per = P!Own(e) /\ P!Overwritten(e).per = P!Own(e)
      BY <1>3, <3>1, SettingsOf DEF PagerInv, OwnSettings
    <3>4. page'.per = P!Own(e)
      BY <1>1, <3>3
    <3> QED
      BY <1>7, <3>1, <3>2, <3>4 DEF Drew
  <2> QED
    BY <1>2, <2>1 DEF OwnSettings
<1>11. OwnList'
  <2>1. ASSUME NEW f \in Elements, inited' = {f}
        PROVE  /\ ~reasked' => asked' = closure'[f]
               /\ fits' => drawn'[f].current <= drawn'[f].pageCount
    <3>1. f = e /\ inited = {e}
      BY <1>2, <2>1
    <3>2. ~reasked' => asked' = closure[e]
      <4>1. ~reasked => asked = closure[e]
        BY <3>1 DEF PagerInv, OwnList
      <4>2. CASE asked' = asked /\ reasked' = reasked
        BY <4>1, <4>2
      <4>3. CASE \E listCount \in Counts :
                   /\ asked' = IF inited = {e} THEN listCount ELSE 0
                   /\ reasked' = (inited = {e} /\ (reasked \/ listCount # closure[e]))
        BY <3>1, <4>3
      <4> QED
        BY <1>1, <4>2, <4>3
    <3>3. fits' = fits
      BY <1>1
    <3>4. drawn'[e].pageCount = drawn[e].pageCount
      <4>1. P!Own(e)' = P!Own(e)
        BY <1>2 DEF P!Own
      <4> QED
        BY <1>2, <1>7, <1>10, <3>1, <4>1 DEF PagerInv, OwnSettings, Drew
    <3> QED
      BY <1>4, <1>7, <3>1, <3>2, <3>3, <3>4 DEF PagerInv, OwnList, Drew
  <2> QED
    BY <2>1 DEF OwnList
<1> QED
  BY <1>8, <1>9, <1>10, <1>11 DEF PagerInv

LEMMA PagerStep == PagerInv /\ [P!Next]_pagerVars => PagerInv'
<1> SUFFICES ASSUME PagerInv, [P!Next]_pagerVars PROVE PagerInv'
  OBVIOUS
<1>1. CASE P!Next
  BY <1>1, InitPageStep, ClickStep DEF P!Next
<1>2. CASE UNCHANGED pagerVars
  BY <1>2 DEF pagerVars, PagerInv, PagerTypes, WindowInv, OwnSettings, OwnList, P!Own
<1> QED
  BY <1>1, <1>2

\* The invariant has the three properties of the pager.
LEMMA PagerShows ==
  ASSUME PagerInv PROVE P!PagerShowsList /\ P!TypeOK
<1> USE DEF PagerInv
<1>1. \A e \in inited : Shown(drawn[e]) /\ drawn[e] \in P!Drawing
  BY DEF PagerTypes, WindowInv
<1>2. P!WindowHoldsCurrent
  <2> SUFFICES ASSUME NEW e \in inited, drawn[e].current <= drawn[e].pageCount
               PROVE  P!Window(e) \subseteq 1 .. drawn[e].pageCount /\ drawn[e].current \in P!Window(e)
    BY DEF P!WindowHoldsCurrent
  <2> DEFINE d == drawn[e]
  <2>1. /\ d.pageCount \in Nat \ {0} /\ d.current \in Nat \ {0} /\ d.low \in Nat \ {0} /\ d.num \in Nat
        /\ d.low <= d.current /\ d.current <= d.low + d.num - 1 /\ d.low + d.num - 1 <= d.pageCount
    BY <1>1 DEF Shown, P!Drawing
  <2>2. P!Window(e) = d.low .. d.low + d.num - 1
    BY DEF P!Window
  <2> HIDE DEF d
  <2> QED
    BY <2>1, <2>2 DEF d
<1>3. P!LinksExist
  <2> SUFFICES ASSUME NEW e \in Elements, inited = {e}, fits
               PROVE  /\ drawn[e].current <= drawn[e].pageCount
                      /\ P!Clickable(e) \subseteq 1 .. drawn[e].pageCount
    BY DEF P!LinksExist
  <2>1. drawn[e].current <= drawn[e].pageCount
    BY DEF OwnList
  <2> QED
    BY <1>1, <2>1, LinksFit DEF PagerTypes
<1>4. P!PagesHoldList
  <2> SUFFICES ASSUME NEW e \in Elements, inited = {e}, ~reasked
               PROVE  LET n == drawn[e].pageCount
                      IN  n * P!Own(e) >= asked /\ (n > 1 => (n - 1) * P!Own(e) < asked)
    BY DEF P!PagesHoldList
  <2>1. drawn[e].pageCount = P!PageCount(asked, P!Own(e))
    BY DEF OwnSettings, OwnList
  <2>2. P!Own(e) \in Nat \ {0}
    BY SettingsOf
  <2>3. asked \in Nat
    BY PagerNumbers DEF PagerTypes
  <2> QED
    BY <2>1, <2>2, <2>3, PageCountHolds
<1>5. P!TypeOK
  BY <1>1 DEF P!TypeOK, PagerTypes, WindowInv, Shown
<1> QED
  BY <1>2, <1>3, <1>4, <1>5 DEF P!PagerShowsList

(***************************************************************************)
(* The index: pages of hits.                                               *)
(***************************************************************************)

\* Cardinality and IsFiniteSet do not depend on where they are seen from.
LEMMA SameCardinality ==
  /\ \A S : E!Cardinality(S) = Cardinality(S)
  /\ \A S : E!IsFiniteSet(S) = IsFiniteSet(S)
BY DEF E!Cardinality, Cardinality, E!IsFiniteSet, IsFiniteSet

\* Documents and their sort values are numbers.
LEMMA KeyTypes ==
  ASSUME reader \in {"count", "follow"}, time \in [Docs -> Times]
  PROVE  /\ \A d \in Docs : E!Key(d) \in Nat /\ E!Key(d) \in Docs \cup Times
         /\ reader = "count" => \A d \in Docs : E!Key(d) = d
         /\ reader # "count" => \A d \in Docs : E!Key(d) = time[d]
BY IndexNumbers DEF E!Key

\* The page of some matches that is followed ends with the greatest of their values.
LEMMA FollowedIsLast ==
  ASSUME reader \in {"count", "follow"}, time \in [Docs -> Times],
         NEW h \in SUBSET Docs, h # {}
  PROVE  /\ \E m \in h : E!Followed(h) = E!Key(m)
         /\ \A d \in h : E!Key(d) <= E!Followed(h)
<1> DEFINE Later(x) == {y \in h : E!Key(y) > E!Key(x)}
           Chain == {Later(x) : x \in h}
<1>1. \A d \in h : E!Key(d) \in Nat
  BY KeyTypes
<1>2. IsFiniteSet(h)
  BY IndexNumbers, FS_Subset
<1>3. Chain \subseteq FiniteSubsetsOf(h) /\ Chain # {}
  <2>1. SUFFICES ASSUME NEW x \in h PROVE IsFiniteSet(Later(x))
    BY DEF FiniteSubsetsOf
  <2> QED
    BY <1>2, FS_Subset
<1>4. PICK last \in Chain : \A c \in Chain : <<c, last>> \notin StrictSubsetOrdering(h)
  <2> HIDE DEF Chain
  <2> QED
    BY <1>3, WFMin, FS_StrictSubsetOrderingWellFounded
<1>5. PICK m \in h : last = Later(m)
  OBVIOUS
<1>6. ASSUME NEW y \in h, E!Key(y) > E!Key(m) PROVE FALSE
  <2>1. Later(y) \subseteq Later(m) /\ y \in Later(m) /\ y \notin Later(y)
    BY <1>1, <1>6
  <2>2. <<Later(y), Later(m)>> \in StrictSubsetOrdering(h)
    BY <2>1 DEF StrictSubsetOrdering
  <2> QED
    BY <1>4, <1>5, <2>2
<1>7. \A y \in h : E!Key(m) >= E!Key(y)
  BY <1>1, <1>6
<1> DEFINE Keys == {E!Key(d) : d \in h}
<1>8. E!Key(m) \in Keys /\ \A k \in Keys : E!Key(m) >= k
  BY <1>7
<1>9. E!Followed(h) = E!Max(Keys)
  BY DEF E!Followed
<1>10. E!Max(Keys) \in Keys /\ \A k \in Keys : E!Max(Keys) >= k
  <2> HIDE DEF Keys
  <2> QED
    BY <1>8 DEF E!Max
<1> QED
  BY <1>1, <1>9, <1>10

\* Max and Min of two numbers, for the pages.
LEMMA FirstOf ==
  ASSUME NEW a \in Int, NEW b \in Int
  PROVE  E!Min({a, b}) = IF a < b THEN a ELSE b
<1>1. PICK x \in {a, b} : \A y \in {a, b} : x <= y
  <2>1. CASE a < b
    BY <2>1
  <2>2. CASE ~(a < b)
    BY <2>2
  <2> QED
    BY <2>1, <2>2
<1>2. E!Min({a, b}) \in {a, b} /\ \A y \in {a, b} : E!Min({a, b}) <= y
  BY <1>1 DEF E!Min
<1> QED
  BY <1>2

\* The pages of the first reader are the least number that holds the count.
LEMMA PagesHold ==
  ASSUME NEW cnt \in Nat
  PROVE  /\ E!Pages(cnt) \in Nat /\ E!Pages(cnt) <= cnt
         /\ E!Pages(cnt) * PageSize >= cnt
         /\ E!Pages(cnt) * PageSize < cnt + PageSize
<1> DEFINE q == cnt \div PageSize
           r == cnt % PageSize
<1>0. PageSize \in Nat \ {0}
  BY IndexNumbers
<1>1. q \in Nat /\ r \in Nat /\ r < PageSize /\ cnt = (q * PageSize) + r
  BY <1>0
<1>2. E!Pages(cnt) = IF r = 0 THEN q ELSE q + 1
  BY DEF E!Pages
<1> HIDE DEF q, r
<1>3. (q + 1) * PageSize = (q * PageSize) + PageSize /\ q * PageSize \in Nat
  BY <1>0, <1>1
<1>4. q <= q * PageSize
  BY <1>0, <1>1
<1> QED
  BY <1>0, <1>1, <1>2, <1>3, <1>4

(***************************************************************************)
(* The index: what has been read.                                          *)
(***************************************************************************)

EsTypes ==
  /\ reader \in {"count", "follow"} /\ time \in [Docs -> Times]
  /\ index \subseteq Docs /\ gone \subseteq Docs \ index
  /\ step \in {"begin", "read", "done", "failed"}
  /\ pages \in 0 .. Cardinality(Docs) /\ after \in Docs \cup Times \cup {-1}
  /\ got \subseteq Docs /\ again \subseteq got
  /\ atStart \subseteq Docs /\ cuts \subseteq Docs \cup Times

\* Before it begins nothing is read, and the second reader counts no pages.
NothingYet ==
  /\ step = "begin" =>
       got = {} /\ after = -1 /\ atStart = {} /\ pages = 0
  /\ reader = "follow" => pages = 0
  /\ reader = "count" /\ step = "done" => pages = 0
  /\ reader = "follow" => step # "failed"

\* What is read is behind the sort value that is searched after, and what is not
\* behind it is still to come, or has the value of a last hit.
ReadUpTo ==
  /\ again = {}
  /\ \A d \in got : E!Key(d) <= after
  /\ \A d \in (atStart \cap index) \ got : E!Key(d) > after \/ E!Key(d) \in cuts
  /\ reader = "count" => cuts \subseteq got
  /\ atStart \subseteq index \cup gone

\* The pages of the first reader: what is read and what is to be read holds the
\* documents of the start with less than a page to spare, unless a short page has
\* ended the list already.
PagesLeft ==
  reader = "count" =>
    /\ E!Missed = {} \/ Cardinality(atStart) <= Cardinality(got) + (pages * PageSize)
    /\ Cardinality(got) + (pages * PageSize) < Cardinality(atStart) + PageSize

IndexInv ==
  /\ EsTypes /\ NothingYet /\ ReadUpTo /\ PagesLeft
  /\ E!MissesExplained /\ E!FailsOnlyIfDeleted

\* Documents are finitely many.
LEMMA FinitelyMany ==
  ASSUME NEW S \in SUBSET Docs
  PROVE  IsFiniteSet(S) /\ Cardinality(S) \in Nat /\ Cardinality(S) <= Cardinality(Docs)
<1>1. IsFiniteSet(S) /\ Cardinality(S) <= Cardinality(Docs)
  BY IndexNumbers, FS_Subset
<1> QED
  BY <1>1, FS_CardinalityType

LEMMA IndexInit == E!Init => IndexInv
<1> SUFFICES ASSUME E!Init PROVE IndexInv
  OBVIOUS
<1> USE DEF E!Init
<1>1. PageSize \in Nat \ {0} /\ Cardinality({}) = 0 /\ Cardinality(Docs) \in Nat
  BY IndexNumbers, FS_EmptySet, FS_CardinalityType
<1>2. EsTypes
  BY <1>1 DEF EsTypes
<1>3. NothingYet /\ ReadUpTo
  BY DEF NothingYet, ReadUpTo
<1>4. PagesLeft
  <2>1. pages * PageSize = 0
    BY <1>1
  <2> QED
    BY <1>1, <2>1 DEF PagesLeft
<1>5. E!MissesExplained /\ E!FailsOnlyIfDeleted
  BY DEF E!MissesExplained, E!FailsOnlyIfDeleted
<1> QED
  BY <1>2, <1>3, <1>4, <1>5 DEF IndexInv

\* Sort values stay what they are.
LEMMA SameKeys ==
  ASSUME UNCHANGED <<reader, time>>
  PROVE  \A d : E!Key(d)' = E!Key(d)
BY DEF E!Key

\* What other clients do: nothing that was there at the start comes back.
LEMMA OthersStep ==
  ASSUME IndexInv,
         UNCHANGED <<reader, time, step, pages, after, got, again, atStart, cuts>>,
         index' \subseteq Docs, gone' \subseteq Docs \ index', gone \subseteq gone',
         index \cup gone \subseteq index' \cup gone',
         atStart \cap index' \subseteq atStart \cap index
  PROVE  IndexInv'
<1>1. \A d : E!Key(d)' = E!Key(d)
  BY SameKeys
<1>2. E!Missed' \subseteq E!Missed
  BY DEF E!Missed
<1>3. EsTypes' /\ NothingYet'
  BY DEF IndexInv, EsTypes, NothingYet
<1>4. ReadUpTo'
  BY <1>1 DEF IndexInv, ReadUpTo
<1>5. PagesLeft'
  BY <1>2 DEF IndexInv, PagesLeft
<1>6. E!MissesExplained'
  <2> SUFFICES ASSUME step = "done"
               PROVE  IF reader = "count"
                      THEN E!Cardinality(E!Missed') <= E!Cardinality(got \ atStart)
                      ELSE \A d \in E!Missed' : time[d] \in cuts
    BY DEF E!MissesExplained
  <2>1. CASE reader = "count"
    <3>1. E!Missed \subseteq Docs /\ got \ atStart \subseteq Docs
      BY DEF IndexInv, EsTypes, E!Missed
    <3>2. /\ Cardinality(E!Missed') <= Cardinality(E!Missed)
          /\ Cardinality(E!Missed') \in Nat /\ Cardinality(E!Missed) \in Nat
          /\ Cardinality(got \ atStart) \in Nat
      BY <1>2, <3>1, FinitelyMany, FS_Subset
    <3>3. Cardinality(E!Missed) <= Cardinality(got \ atStart)
      BY <2>1, SameCardinality DEF IndexInv, E!MissesExplained
    <3>4. Cardinality(E!Missed') <= Cardinality(got \ atStart)
      BY ONLY <3>2, <3>3
    <3> QED
      BY <2>1, <3>4, SameCardinality
  <2>2. CASE reader # "count"
    BY <1>2, <2>2 DEF IndexInv, E!MissesExplained
  <2> QED
    BY <2>1, <2>2
<1>7. E!FailsOnlyIfDeleted'
  BY DEF IndexInv, E!FailsOnlyIfDeleted
<1> QED
  BY <1>3, <1>4, <1>5, <1>6, <1>7 DEF IndexInv

LEMMA ClientStep ==
  ASSUME IndexInv, NEW d \in Docs, E!Index(d) \/ E!Delete(d)
  PROVE  IndexInv'
<1>1. CASE E!Index(d)
  BY <1>1, OthersStep DEF E!Index, IndexInv, EsTypes, ReadUpTo
<1>2. CASE E!Delete(d)
  BY <1>2, OthersStep DEF E!Delete, IndexInv, EsTypes, ReadUpTo
<1> QED
  BY <1>1, <1>2

\* Counting gives the pages that hold what is there.
LEMMA BeginStep == IndexInv /\ E!Begin => IndexInv'
<1> SUFFICES ASSUME IndexInv, E!Begin PROVE IndexInv'
  OBVIOUS
<1> USE DEF IndexInv, E!Begin
<1>1. \A d : E!Key(d)' = E!Key(d)
  BY SameKeys
<1>2. /\ Cardinality(index) \in Nat /\ Cardinality(index) <= Cardinality(Docs)
      /\ Cardinality(Docs) \in Nat
  BY FinitelyMany DEF EsTypes
<1>3. pages' = IF reader = "count" THEN E!Pages(Cardinality(index)) ELSE 0
  BY SameCardinality
<1>4. /\ E!Pages(Cardinality(index)) \in Nat
      /\ E!Pages(Cardinality(index)) <= Cardinality(index)
      /\ E!Pages(Cardinality(index)) * PageSize >= Cardinality(index)
      /\ E!Pages(Cardinality(index)) * PageSize < Cardinality(index) + PageSize
  BY <1>2, PagesHold
<1>5. pages' \in 0 .. Cardinality(Docs)
  BY <1>2, <1>3, <1>4
<1>6. EsTypes'
  BY <1>5 DEF EsTypes
<1>7. NothingYet'
  BY <1>3 DEF NothingYet, EsTypes
<1>8. ReadUpTo'
  <2>1. got = {} /\ after = -1
    BY DEF NothingYet
  <2>2. \A d \in index : E!Key(d) > -1
    BY KeyTypes DEF EsTypes
  <2> QED
    BY <1>1, <2>1, <2>2 DEF ReadUpTo
<1>9. PagesLeft'
  <2> SUFFICES ASSUME reader = "count"
               PROVE  /\ Cardinality(index) <= Cardinality(got) + (pages' * PageSize)
                      /\ Cardinality(got) + (pages' * PageSize) < Cardinality(index) + PageSize
    BY DEF PagesLeft
  <2>1. Cardinality(got) = 0
    BY FS_EmptySet DEF NothingYet
  <2>2. PageSize \in Nat
    BY IndexNumbers
  <2>3. pages' = E!Pages(Cardinality(index))
    BY <1>3
  <2> QED
    BY ONLY <1>2, <1>4, <2>1, <2>2, <2>3
<1>10. E!MissesExplained' /\ E!FailsOnlyIfDeleted'
  BY DEF E!MissesExplained, E!FailsOnlyIfDeleted
<1> QED
  BY <1>6, <1>7, <1>8, <1>9, <1>10

\* An empty page means that nothing follows; and what has been there from the start
\* is then read, or has the value of a last hit.
LEMMA NothingFollows ==
  ASSUME IndexInv, {} \in E!Hits
  PROVE  /\ \A d \in index : ~(E!Key(d) > after)
         /\ \A d \in E!Missed : E!Key(d) \in cuts
         /\ reader = "count" => E!Missed = {}
<1>1. E!Matches \subseteq Docs
  BY DEF IndexInv, EsTypes, E!Matches
<1>2. IsFiniteSet(E!Matches) /\ Cardinality(E!Matches) \in Nat /\ PageSize \in Nat \ {0}
  BY <1>1, FinitelyMany, IndexNumbers
<1>3. Cardinality({}) = E!Min({PageSize, Cardinality(E!Matches)})
  BY SameCardinality DEF E!Hits
<1>4. Cardinality(E!Matches) = 0
  BY <1>2, <1>3, FirstOf, FS_EmptySet
<1>5. E!Matches = {}
  BY <1>2, <1>4, FS_EmptySet
<1>6. \A d \in index : ~(E!Key(d) > after)
  BY <1>5 DEF E!Matches
<1>7. \A d \in E!Missed : E!Key(d) \in cuts
  BY <1>6 DEF IndexInv, ReadUpTo, E!Missed
<1>8. reader = "count" => E!Missed = {}
  <2> SUFFICES ASSUME reader = "count", NEW d \in E!Missed PROVE FALSE
    OBVIOUS
  <2>1. d \in Docs /\ d \notin got
    BY DEF IndexInv, EsTypes, E!Missed
  <2>2. E!Key(d) = d
    BY <2>1, KeyTypes DEF IndexInv, EsTypes
  <2> QED
    BY <1>7, <2>1, <2>2 DEF IndexInv, ReadUpTo
<1> QED
  BY <1>6, <1>7, <1>8

\* What a page that is not empty does, for either reader.
TurnOf(h) ==
  /\ E!Collect(h)
  /\ after' = E!Followed(h) /\ cuts' = cuts \cup {E!Followed(h)}
  /\ UNCHANGED <<reader, time, index, gone, step, atStart>>

LEMMA TurnReads ==
  ASSUME IndexInv, step = "read", NEW h \in E!Hits, h # {}, TurnOf(h),
         pages' \in 0 .. Cardinality(Docs), reader = "follow" => pages' = 0
  PROVE  EsTypes' /\ NothingYet' /\ ReadUpTo' /\ E!MissesExplained' /\ E!FailsOnlyIfDeleted'
<1> USE DEF IndexInv
<1>1. h \subseteq E!Matches /\ E!Matches \subseteq index /\ index \subseteq Docs /\ got \subseteq Docs
  BY DEF E!Hits, E!Matches, EsTypes
<1>2. \A d \in Docs : E!Key(d) \in Nat /\ E!Key(d) \in Docs \cup Times
  BY KeyTypes DEF EsTypes
<1>3. PICK m \in h : E!Followed(h) = E!Key(m)
  BY <1>1, FollowedIsLast DEF EsTypes
<1>4. \A d \in h : E!Key(d) <= after'
  BY <1>1, FollowedIsLast DEF EsTypes, TurnOf
<1>5. after' = E!Key(m) /\ after' \in Nat /\ after' \in Docs \cup Times /\ after' > after
  BY <1>1, <1>2, <1>3 DEF TurnOf, E!Matches
<1>6. after \in Int
  BY IndexNumbers DEF EsTypes
<1>7. got' = got \cup h /\ again' = again \cup (got \cap h) /\ cuts' = cuts \cup {after'}
  BY DEF TurnOf, E!Collect
<1>8. \A d : E!Key(d)' = E!Key(d)
  BY SameKeys DEF TurnOf
<1>9. got \cap h = {}
  <2> SUFFICES ASSUME NEW d \in got, d \in h PROVE FALSE
    OBVIOUS
  <2>1. E!Key(d) <= after /\ E!Key(d) > after /\ E!Key(d) \in Nat
    BY <1>1, <1>2 DEF ReadUpTo, E!Matches
  <2> QED
    BY ONLY <1>6, <2>1
<1>10. EsTypes'
  BY <1>1, <1>5, <1>7 DEF EsTypes, TurnOf
<1>11. NothingYet'
  BY DEF NothingYet, TurnOf
<1>12. ReadUpTo'
  <2>1. again' = {}
    BY <1>7, <1>9 DEF ReadUpTo
  <2>2. ASSUME NEW d \in got' PROVE E!Key(d) <= after'
    <3>1. CASE d \in h
      BY <1>4, <3>1
    <3>2. CASE d \in got
      <4>1. E!Key(d) <= after /\ E!Key(d) \in Nat
        BY <1>1, <1>2, <3>2 DEF ReadUpTo
      <4> QED
        BY ONLY <1>5, <1>6, <4>1
    <3> QED
      BY <1>7, <2>2, <3>1, <3>2
  <2>3. ASSUME NEW d \in (atStart \cap index) \ got' PROVE E!Key(d) > after' \/ E!Key(d) \in cuts'
    <3>1. d \in index /\ d \in Docs /\ d \notin h /\ (E!Key(d) > after \/ E!Key(d) \in cuts)
      BY <1>1, <1>7 DEF ReadUpTo
    <3>2. CASE E!Key(d) > after
      <4>1. d \in E!Matches \ h
        BY <3>1, <3>2 DEF E!Matches
      <4>2. E!Key(m) <= E!Key(d)
        BY <4>1 DEF E!Hits
      <4>3. E!Key(d) > after' \/ E!Key(d) = after'
        BY <1>2, <1>5, <3>1, <4>2
      <4> QED
        BY <1>7, <4>3
    <3>3. CASE E!Key(d) \in cuts
      BY <1>7, <3>3
    <3> QED
      BY <3>1, <3>2, <3>3
  <2>4. reader = "count" => cuts' \subseteq got'
    <3>1. reader = "count" => after' = m
      BY <1>1, <1>5, KeyTypes DEF EsTypes
    <3> QED
      BY <1>7, <3>1 DEF ReadUpTo
  <2> QED
    BY <1>8, <2>1, <2>2, <2>3, <2>4 DEF ReadUpTo, TurnOf
<1>13. E!MissesExplained' /\ E!FailsOnlyIfDeleted'
  BY DEF E!MissesExplained, E!FailsOnlyIfDeleted, TurnOf
<1> QED
  BY <1>10, <1>11, <1>12, <1>13

\* One turn of the first reader takes a page off, whether it was full or not.
LEMMA ReadPageStep == IndexInv /\ E!ReadPage => IndexInv'
<1> SUFFICES ASSUME IndexInv, E!ReadPage PROVE IndexInv'
  OBVIOUS
<1>1. reader = "count" /\ step = "read" /\ pages > 0 /\ pages \in Nat
  BY FinitelyMany DEF E!ReadPage, IndexInv, EsTypes
<1>2. PICK h \in E!Hits :
        IF h = {}
        THEN step' = "failed" /\ UNCHANGED <<pages, after, got, again, cuts>>
        ELSE /\ E!Collect(h)
             /\ after' = E!Followed(h) /\ cuts' = cuts \cup {E!Followed(h)}
             /\ pages' = pages - 1
             /\ UNCHANGED step
  BY DEF E!ReadPage
<1>3. UNCHANGED <<reader, time, index, gone, atStart>>
  BY DEF E!ReadPage
<1>4. /\ atStart \subseteq Docs /\ got \subseteq Docs /\ index \subseteq Docs
      /\ E!Matches \subseteq Docs /\ h \subseteq E!Matches /\ E!Matches \subseteq index
  BY DEF IndexInv, EsTypes, E!Hits, E!Matches
<1>5. PageSize \in Nat \ {0}
  BY IndexNumbers
<1>6. /\ Cardinality(atStart) \in Nat /\ Cardinality(got) \in Nat
      /\ Cardinality(E!Matches) \in Nat /\ Cardinality(h) \in Nat
      /\ IsFiniteSet(E!Matches) /\ IsFiniteSet(got) /\ IsFiniteSet(h) /\ IsFiniteSet(atStart)
  BY <1>4, FinitelyMany
<1>7. /\ E!Missed = {} \/ Cardinality(atStart) <= Cardinality(got) + (pages * PageSize)
      /\ Cardinality(got) + (pages * PageSize) < Cardinality(atStart) + PageSize
  BY <1>1 DEF IndexInv, PagesLeft
<1>8. CASE h = {}
  <2>1. \A d : E!Key(d)' = E!Key(d)
    BY <1>3, SameKeys
  <2>2. E!Missed = {} /\ E!Missed' = {}
    BY <1>1, <1>2, <1>3, <1>8, NothingFollows DEF E!Missed
  <2>3. EsTypes' /\ NothingYet' /\ ReadUpTo'
    BY <1>1, <1>2, <1>3, <1>8, <2>1 DEF IndexInv, EsTypes, NothingYet, ReadUpTo
  <2>4. PagesLeft'
    BY <1>1, <1>2, <1>3, <1>7, <1>8, <2>2 DEF PagesLeft
  <2>5. E!MissesExplained'
    BY <1>2, <1>8 DEF E!MissesExplained
  <2>6. atStart \cap gone # {}
    <3> SUFFICES ASSUME atStart \cap gone = {} PROVE FALSE
      OBVIOUS
    <3>1. atStart \subseteq got
      BY <2>2 DEF IndexInv, ReadUpTo, E!Missed
    <3>2. Cardinality(atStart) <= Cardinality(got)
      BY <1>6, <3>1, FS_Subset
    <3>3. pages * PageSize >= PageSize /\ pages * PageSize \in Nat
      BY <1>1, <1>5
    <3>4. Cardinality(got) + (pages * PageSize) < Cardinality(atStart) + PageSize
      BY <1>7
    <3> QED
      BY ONLY <1>5, <1>6, <3>2, <3>3, <3>4
  <2>7. E!FailsOnlyIfDeleted'
    BY <1>3, <2>6 DEF E!FailsOnlyIfDeleted
  <2> QED
    BY <2>3, <2>4, <2>5, <2>7 DEF IndexInv
<1>9. CASE h # {}
  <2>1. TurnOf(h) /\ pages' = pages - 1
    BY <1>2, <1>3, <1>9 DEF TurnOf
  <2>2. pages' \in 0 .. Cardinality(Docs)
    BY <1>1, <2>1, FinitelyMany DEF IndexInv, EsTypes
  <2>3. EsTypes' /\ NothingYet' /\ ReadUpTo' /\ E!MissesExplained' /\ E!FailsOnlyIfDeleted'
    BY <1>1, <1>9, <2>1, <2>2, TurnReads
  <2>4. got' = got \cup h /\ got \cap h = {}
    BY <2>1, <2>3 DEF TurnOf, E!Collect, ReadUpTo
  <2>5. Cardinality(got') = Cardinality(got) + Cardinality(h)
    <3>1. Cardinality(got \cup h) = Cardinality(got) + Cardinality(h) - Cardinality(got \cap h)
      BY <1>6, FS_Union
    <3>2. Cardinality(got \cap h) = 0
      BY <2>4, FS_EmptySet
    <3> QED
      BY <1>6, <2>4, <3>1, <3>2
  <2>6. pages' * PageSize = (pages * PageSize) - PageSize /\ pages * PageSize \in Nat
    BY <1>1, <1>5, <2>1
  <2>7. Cardinality(h) = IF PageSize < Cardinality(E!Matches) THEN PageSize ELSE Cardinality(E!Matches)
    <3>1. Cardinality(h) = E!Min({PageSize, Cardinality(E!Matches)})
      BY SameCardinality DEF E!Hits
    <3> QED
      BY <1>5, <1>6, <3>1, FirstOf
  <2>8. Cardinality(h) <= PageSize
    BY <1>5, <1>6, <2>7
  <2>9. Cardinality(got') + (pages' * PageSize) < Cardinality(atStart) + PageSize
    <3>1. Cardinality(got) + (pages * PageSize) < Cardinality(atStart) + PageSize
      BY <1>7
    <3> QED
      BY ONLY <1>5, <1>6, <2>5, <2>6, <2>8, <3>1
  <2>10. E!Missed' = {} \/ Cardinality(atStart) <= Cardinality(got') + (pages' * PageSize)
    <3>1. CASE E!Missed = {}
      <4>1. E!Missed' \subseteq E!Missed
        BY <1>3, <2>4 DEF E!Missed
      <4> QED
        BY <3>1, <4>1
    <3>2. CASE Cardinality(h) = PageSize /\ E!Missed # {}
      <4>1. Cardinality(atStart) <= Cardinality(got) + (pages * PageSize)
        BY <1>7, <3>2
      <4>2. Cardinality(h) = PageSize
        BY <3>2
      <4>3. Cardinality(atStart) <= Cardinality(got') + (pages' * PageSize)
        BY ONLY <1>5, <1>6, <2>5, <2>6, <4>1, <4>2
      <4> QED
        BY <4>3
    <3>3. CASE Cardinality(h) # PageSize
      <4>1. Cardinality(h) = Cardinality(E!Matches)
        BY <2>7, <3>3
      <4>2. h = E!Matches
        BY <1>4, <1>6, <4>1, FS_Subset
      <4>3. ASSUME NEW d \in E!Missed' PROVE FALSE
        <5>1. d \in atStart \cap index /\ d \notin got /\ d \notin h /\ d \in Docs
          BY <1>3, <1>4, <2>4, <4>3 DEF E!Missed
        <5>2. ~(E!Key(d) > after)
          BY <4>2, <5>1 DEF E!Matches
        <5>3. E!Key(d) \in cuts /\ cuts \subseteq got
          BY <1>1, <5>1, <5>2 DEF IndexInv, ReadUpTo
        <5>4. E!Key(d) = d
          BY <1>1, <5>1, KeyTypes DEF IndexInv, EsTypes
        <5> QED
          BY <5>1, <5>3, <5>4
      <4> QED
        BY <4>3
    <3> QED
      BY <3>1, <3>2, <3>3
  <2>11. PagesLeft'
    BY <1>3, <2>9, <2>10 DEF PagesLeft
  <2> QED
    BY <2>3, <2>11 DEF IndexInv
<1> QED
  BY <1>8, <1>9

\* The last page has been read: what is missed has been replaced.
LEMMA LastPageStep == IndexInv /\ E!LastPage => IndexInv'
<1> SUFFICES ASSUME IndexInv, E!LastPage PROVE IndexInv'
  OBVIOUS
<1> USE DEF IndexInv, E!LastPage
<1>1. \A d : E!Key(d)' = E!Key(d)
  BY SameKeys
<1>2. EsTypes' /\ NothingYet' /\ ReadUpTo'
  BY <1>1 DEF EsTypes, NothingYet, ReadUpTo
<1>3. PagesLeft' /\ E!FailsOnlyIfDeleted'
  BY DEF PagesLeft, E!Missed, E!FailsOnlyIfDeleted
<1>4. atStart \subseteq Docs /\ got \subseteq Docs /\ E!Missed \subseteq atStart \ got
  BY DEF EsTypes, E!Missed
<1>5. /\ Cardinality(atStart) \in Nat /\ Cardinality(got) \in Nat
      /\ Cardinality(atStart \cap got) \in Nat
      /\ Cardinality(got \ atStart) \in Nat /\ Cardinality(E!Missed) \in Nat
      /\ IsFiniteSet(atStart) /\ IsFiniteSet(got) /\ IsFiniteSet(atStart \ got)
  <2>1. atStart \cap got \subseteq Docs /\ got \ atStart \subseteq Docs /\ E!Missed \subseteq Docs
        /\ atStart \ got \subseteq Docs
    BY <1>4
  <2> QED
    BY <1>4, <2>1, FinitelyMany
<1>6. Cardinality(E!Missed) <= Cardinality(got \ atStart)
  <2>1. CASE E!Missed = {}
    <3>1. Cardinality(E!Missed) = 0
      BY <2>1, FS_EmptySet
    <3> QED
      BY <1>5, <3>1
  <2>2. CASE E!Missed # {}
    <3>1. Cardinality(atStart) <= Cardinality(got)
      <4>1. PageSize \in Nat /\ pages = 0
        BY IndexNumbers
      <4>2. Cardinality(atStart) <= Cardinality(got) + (pages * PageSize)
        BY <2>2 DEF PagesLeft
      <4> QED
        BY <1>5, <4>1, <4>2
    <3>2. Cardinality(atStart \ got) = Cardinality(atStart) - Cardinality(atStart \cap got)
      BY <1>5, FS_Difference
    <3>3. Cardinality(got \ atStart) = Cardinality(got) - Cardinality(atStart \cap got)
      <4>1. Cardinality(got \ atStart) = Cardinality(got) - Cardinality(got \cap atStart)
        BY <1>5, FS_Difference
      <4>2. got \cap atStart = atStart \cap got
        OBVIOUS
      <4> QED
        BY <4>1, <4>2
    <3>4. Cardinality(E!Missed) <= Cardinality(atStart \ got)
      BY <1>4, <1>5, FS_Subset
    <3> QED
      BY ONLY <1>5, <3>1, <3>2, <3>3, <3>4
  <2> QED
    BY <2>1, <2>2
<1>7. E!MissesExplained'
  <2>1. E!Missed' = E!Missed
    BY DEF E!Missed
  <2> QED
    BY <1>6, <2>1, SameCardinality DEF E!MissesExplained
<1> QED
  BY <1>2, <1>3, <1>7

\* A turn of the second reader: until nothing follows.
LEMMA FollowPageStep == IndexInv /\ E!FollowPage => IndexInv'
<1> SUFFICES ASSUME IndexInv, E!FollowPage PROVE IndexInv'
  OBVIOUS
<1>1. PICK h \in E!Hits :
        IF h = {}
        THEN step' = "done" /\ UNCHANGED <<after, got, again, cuts>>
        ELSE /\ E!Collect(h)
             /\ after' = E!Followed(h) /\ cuts' = cuts \cup {E!Followed(h)}
             /\ UNCHANGED step
  BY DEF E!FollowPage
<1>2. /\ reader = "follow" /\ step = "read"
      /\ UNCHANGED <<reader, time, index, gone, pages, atStart>>
  BY DEF E!FollowPage
<1>3. pages = 0
  BY <1>2 DEF IndexInv, NothingYet
<1>4. PagesLeft'
  BY <1>2 DEF PagesLeft
<1>5. CASE h = {}
  <2>1. \A d : E!Key(d)' = E!Key(d)
    BY <1>2, SameKeys
  <2>2. EsTypes' /\ NothingYet' /\ ReadUpTo'
    BY <1>1, <1>2, <1>5, <2>1 DEF IndexInv, EsTypes, NothingYet, ReadUpTo
  <2>3. E!FailsOnlyIfDeleted'
    BY <1>1, <1>5 DEF E!FailsOnlyIfDeleted
  <2>4. \A d \in E!Missed : E!Key(d) \in cuts
    BY <1>5, NothingFollows
  <2>5. \A d \in E!Missed : E!Key(d) = time[d]
    BY <1>2, KeyTypes DEF IndexInv, EsTypes, E!Missed
  <2>6. E!MissesExplained'
    BY <1>1, <1>2, <1>5, <2>4, <2>5 DEF E!MissesExplained, E!Missed
  <2> QED
    BY <1>4, <2>2, <2>3, <2>6 DEF IndexInv
<1>6. CASE h # {}
  <2>1. TurnOf(h)
    BY <1>1, <1>2, <1>6 DEF TurnOf
  <2>2. pages' = 0 /\ pages' \in 0 .. Cardinality(Docs)
    BY <1>2, <1>3, FinitelyMany
  <2> QED
    BY <1>2, <1>4, <1>6, <2>1, <2>2, TurnReads DEF IndexInv
<1> QED
  BY <1>5, <1>6

LEMMA IndexStep == IndexInv /\ [E!Next]_esVars => IndexInv'
<1> SUFFICES ASSUME IndexInv, [E!Next]_esVars PROVE IndexInv'
  OBVIOUS
<1>1. CASE E!Next
  BY <1>1, ClientStep, BeginStep, ReadPageStep, LastPageStep, FollowPageStep DEF E!Next
<1>2. CASE UNCHANGED esVars
  BY <1>2, OthersStep DEF esVars, IndexInv, EsTypes
<1> QED
  BY <1>1, <1>2

\* The invariant has what is promised of reading page by page.
LEMMA IndexExplains ==
  ASSUME IndexInv PROVE E!PagingExplained /\ E!TypeOK
<1> USE DEF IndexInv
<1>1. E!PagingExplained
  BY DEF E!PagingExplained, E!ReadOnce, ReadUpTo
<1>2. pages * PageSize < Cardinality(atStart) + PageSize
  <2>1. /\ PageSize \in Nat \ {0} /\ pages \in Nat
        /\ Cardinality(atStart) \in Nat /\ Cardinality(got) \in Nat
    BY IndexNumbers, FinitelyMany DEF EsTypes
  <2>2. pages * PageSize \in Nat
    BY <2>1
  <2>3. CASE reader = "count"
    <3>1. Cardinality(got) + (pages * PageSize) < Cardinality(atStart) + PageSize
      BY <2>3 DEF PagesLeft
    <3> QED
      BY ONLY <2>1, <2>2, <3>1
  <2>4. CASE reader = "follow"
    BY <2>1, <2>4 DEF NothingYet
  <2> QED
    BY <2>3, <2>4 DEF EsTypes
<1>3. E!TypeOK
  BY <1>2, SameCardinality DEF E!TypeOK, EsTypes
<1> QED
  BY <1>1, <1>3

(***************************************************************************)
(* The trees: lists and calls in progress.                                 *)
(***************************************************************************)

TreeTypes ==
  /\ algorithm \in {"listToTree", "toTree"}
  /\ nid \in [Nodes -> Ids] /\ pid \in [Nodes -> Ids \cup {0}]
  /\ children \in [Nodes -> Seq(Nodes)]
  /\ list \in Seq(Nodes) /\ roots \in Seq(Nodes) /\ todo \in Seq(Nodes)
  /\ stack \in Seq(T!Frames) /\ out \in Seq(Nodes) /\ first \in Seq(Nodes)
  /\ phase \in {"call", "build", "flatten", "done", "overflow"}

\* The members of a sequence are in U.
Within(s, U) == \A i \in DOMAIN s : s[i] \in U

\* Taking the first one off leaves the others.
LEMMA TakeFirst ==
  ASSUME NEW S, NEW s \in Seq(S), s # <<>>
  PROVE  /\ Head(s) \in S /\ Tail(s) \in Seq(S)
         /\ \A U : Within(s, U) <=> Head(s) \in U /\ Within(Tail(s), U)
<1>1. Head(s) = s[1] /\ Len(s) \in Nat /\ Len(s) > 0 /\ DOMAIN s = 1 .. Len(s)
  OBVIOUS
<1>2. Tail(s) \in Seq(S) /\ DOMAIN Tail(s) = 1 .. Len(s) - 1
  OBVIOUS
<1>3. \A i \in DOMAIN Tail(s) : Tail(s)[i] = s[i + 1]
  OBVIOUS
<1>4. ASSUME NEW U, Within(s, U) PROVE Head(s) \in U /\ Within(Tail(s), U)
  BY <1>1, <1>2, <1>3, <1>4 DEF Within
<1>5. ASSUME NEW U, Head(s) \in U, Within(Tail(s), U) PROVE Within(s, U)
  <2> SUFFICES ASSUME NEW i \in DOMAIN s PROVE s[i] \in U
    BY DEF Within
  <2>1. CASE i = 1
    BY <1>1, <1>5, <2>1
  <2>2. CASE i # 1
    <3>1. i - 1 \in DOMAIN Tail(s) /\ (i - 1) + 1 = i
      BY <1>1, <1>2, <2>2
    <3>2. Tail(s)[i - 1] = s[(i - 1) + 1]
      BY <1>3, <3>1
    <3> QED
      BY <1>5, <3>1, <3>2 DEF Within
  <2> QED
    BY <2>1, <2>2
<1> QED
  BY <1>1, <1>2, <1>4, <1>5

\* Adding one at the end keeps the others.
LEMMA AddLast ==
  ASSUME NEW S, NEW s \in Seq(S), NEW x \in S
  PROVE  /\ Append(s, x) \in Seq(S)
         /\ \A U : Within(Append(s, x), U) <=> Within(s, U) /\ x \in U
<1>1. /\ Append(s, x) \in Seq(S) /\ Len(s) \in Nat /\ DOMAIN s = 1 .. Len(s)
      /\ DOMAIN Append(s, x) = 1 .. Len(s) + 1
      /\ Append(s, x)[Len(s) + 1] = x
      /\ \A i \in 1 .. Len(s) : Append(s, x)[i] = s[i]
  OBVIOUS
<1>2. \A i \in 1 .. Len(s) + 1 : i \in 1 .. Len(s) \/ i = Len(s) + 1
  BY <1>1
<1>3. 1 .. Len(s) \subseteq 1 .. Len(s) + 1 /\ Len(s) + 1 \in 1 .. Len(s) + 1
  BY <1>1
<1> QED
  BY <1>1, <1>2, <1>3 DEF Within

\* The call on top of the stack, and what is left when it ends.
LEMMA TopOfStack ==
  ASSUME TreeTypes, stack # <<>>
  PROVE  /\ Len(stack) \in DOMAIN stack /\ Len(stack) \in Nat
         /\ T!Top = stack[Len(stack)] /\ T!Top \in T!Frames
         /\ T!Top.node \in Nodes /\ T!Top.rest \in Seq(Nodes)
<1>1. stack \in Seq(T!Frames)
  BY DEF TreeTypes
<1>2. T!Top = stack[Len(stack)]
  BY DEF T!Top
<1>3. Len(stack) \in DOMAIN stack /\ stack[Len(stack)] \in T!Frames /\ Len(stack) \in Nat
  BY <1>1
<1> QED
  BY <1>2, <1>3 DEF T!Frames

\* A turn of the innermost loop.
LEMMA SteppedStack ==
  ASSUME TreeTypes, stack # <<>>, T!Top.rest # <<>>
  PROVE  /\ T!Stepped \in Seq(T!Frames) /\ DOMAIN T!Stepped = DOMAIN stack
         /\ \A i \in DOMAIN stack : T!Stepped[i].node = stack[i].node
         /\ T!Stepped[Len(stack)].rest = Tail(T!Top.rest)
         /\ \A i \in DOMAIN stack : i # Len(stack) => T!Stepped[i] = stack[i]
<1> DEFINE n == Len(stack)
           frame == [stack[n] EXCEPT !.rest = Tail(@)]
<1>1. stack \in Seq(T!Frames) /\ n \in DOMAIN stack /\ stack[n] \in T!Frames
      /\ stack[n].rest \in Seq(Nodes) /\ stack[n].rest # <<>> /\ T!Top = stack[n]
  BY TopOfStack DEF TreeTypes
<1>2. T!Stepped = [stack EXCEPT ![n] = frame]
  BY DEF T!Stepped
<1>3. Tail(stack[n].rest) \in Seq(Nodes)
  BY <1>1, TakeFirst
<1>4. frame \in T!Frames /\ frame.node = stack[n].node /\ frame.rest = Tail(stack[n].rest)
  BY <1>1, <1>3 DEF T!Frames
<1> HIDE DEF frame
<1>5. [stack EXCEPT ![n] = frame] \in Seq(T!Frames)
  BY <1>1, <1>4
<1> QED
  BY <1>1, <1>2, <1>4, <1>5

(***************************************************************************)
(* The trees: building and taking apart.                                   *)
(***************************************************************************)

\* U holds with a node its children; every node that has children is in U.
Closed(U) == \A n \in U : Within(children[n], U)
Parents(U) == \A n \in Nodes : children[n] # <<>> => n \in U

\* A call begins with no children left from the one before.
NoneLeft ==
  phase = "call" => stack = <<>> /\ \A n \in Nodes : children[n] = <<>>

\* While trees are built, what is on the stack and what has children hangs on a
\* root: it is in every set that holds the roots and with a node its children.
HangsOnRoots ==
  phase = "build" => \A U \in SUBSET Nodes : Within(roots, U) /\ Closed(U) =>
    Within(todo, U) /\ (\A i \in DOMAIN stack : stack[i].node \in U) /\ Parents(U)

\* While they are taken apart, what still has children hangs on what is still to be
\* visited.
StillVisited ==
  phase = "flatten" => \A U \in SUBSET Nodes :
    Within(todo, U) /\ (\A i \in DOMAIN stack : Within(stack[i].rest, U)) /\ Closed(U) =>
      Parents(U)

TreeInv == TreeTypes /\ NoneLeft /\ HangsOnRoots /\ StillVisited /\ T!SiblingsDistinct

LEMMA TreeInit == T!Init => TreeInv
<1> SUFFICES ASSUME T!Init PROVE TreeInv
  OBVIOUS
<1> USE DEF T!Init
<1>1. list \in Seq(Nodes)
  <2>1. Cardinality(Nodes) \in Nat /\ Nodes = 1 .. Cardinality(Nodes)
    BY TreeNodes, FS_CardinalityType
  <2> QED
    BY <2>1
<1>2. TreeTypes
  BY <1>1 DEF TreeTypes
<1>3. NoneLeft /\ HangsOnRoots /\ StillVisited
  BY DEF NoneLeft, HangsOnRoots, StillVisited
<1>4. T!SiblingsDistinct
  <2>1. \A n \in Nodes : children[n] = <<>>
    OBVIOUS
  <2>2. \A n \in Nodes : DOMAIN children[n] = {}
    BY <2>1
  <2> QED
    BY <2>2 DEF T!SiblingsDistinct
<1> QED
  BY <1>2, <1>3, <1>4 DEF TreeInv

\* A call goes on the stack, or there is no room for it.
LEMMA PushGrows ==
  ASSUME NEW calls \in Seq(T!Frames), NEW n \in Nodes, NEW rest \in Seq(Nodes),
         T!Push(calls, n, rest)
  PROVE  /\ stack' \in Seq(T!Frames)
         /\ phase' = "overflow" \/ phase' = phase
         /\ phase' # "overflow" =>
              /\ \A i \in DOMAIN stack' :
                   \/ i \in DOMAIN calls /\ stack'[i] = calls[i]
                   \/ stack'[i].node = n /\ stack'[i].rest = rest
              /\ \A i \in DOMAIN calls : i \in DOMAIN stack' /\ stack'[i] = calls[i]
              /\ \E i \in DOMAIN stack' : stack'[i].rest = rest
<1> DEFINE frame == [node |-> n, rest |-> rest]
<1>1. frame \in T!Frames /\ frame.node = n /\ frame.rest = rest
  BY DEF T!Frames
<1>2. CASE Len(calls) = MaxDepth
  BY <1>2 DEF T!Push
<1>3. CASE Len(calls) # MaxDepth
  <2>1. stack' = Append(calls, frame) /\ phase' = phase
    BY <1>3 DEF T!Push
  <2> HIDE DEF frame
  <2>2. /\ Append(calls, frame) \in Seq(T!Frames) /\ Len(calls) \in Nat
        /\ DOMAIN calls = 1 .. Len(calls)
        /\ DOMAIN Append(calls, frame) = 1 .. Len(calls) + 1
        /\ Append(calls, frame)[Len(calls) + 1] = frame
        /\ \A i \in 1 .. Len(calls) : Append(calls, frame)[i] = calls[i]
    BY <1>1
  <2>3. \A i \in 1 .. Len(calls) + 1 : i \in 1 .. Len(calls) \/ i = Len(calls) + 1
    BY <2>2
  <2>4. 1 .. Len(calls) \subseteq 1 .. Len(calls) + 1 /\ Len(calls) + 1 \in 1 .. Len(calls) + 1
    BY <2>2
  <2>5. \A i \in DOMAIN stack' :
          \/ i \in DOMAIN calls /\ stack'[i] = calls[i]
          \/ stack'[i] = frame
    BY <2>1, <2>2, <2>3
  <2>6. \A i \in DOMAIN calls : i \in DOMAIN stack' /\ stack'[i] = calls[i]
    BY <2>1, <2>2, <2>4
  <2>7. Len(calls) + 1 \in DOMAIN stack' /\ stack'[Len(calls) + 1] = frame
    BY <2>1, <2>2, <2>4
  <2> QED
    BY <1>1, <2>1, <2>2, <2>5, <2>6, <2>7
<1> QED
  BY <1>2, <1>3

\* Looking for the roots, and splitting the list.
LEMMA SplitStep ==
  ASSUME TreeInv, T!Sift \/ T!Split
  PROVE  TreeInv'
<1> USE DEF TreeInv
<1>1. CASE T!Sift
  <2>1. Head(list) \in Nodes /\ Tail(list) \in Seq(Nodes)
    BY <1>1, TakeFirst DEF T!Sift, TreeTypes
  <2>2. Append(roots, Head(list)) \in Seq(Nodes) /\ Append(todo, Head(list)) \in Seq(Nodes)
    BY <2>1, AddLast DEF TreeTypes
  <2>3. TreeTypes'
    BY <1>1, <2>1, <2>2 DEF T!Sift, TreeTypes, T!input
  <2>4. NoneLeft' /\ HangsOnRoots' /\ StillVisited' /\ T!SiblingsDistinct'
    BY <1>1 DEF T!Sift, NoneLeft, HangsOnRoots, StillVisited, T!SiblingsDistinct, T!input
  <2> QED
    BY <2>3, <2>4
<1>2. CASE T!Split
  <2>1. TreeTypes'
    BY <1>2 DEF T!Split, TreeTypes, T!input
  <2>2. NoneLeft' /\ StillVisited' /\ T!SiblingsDistinct'
    BY <1>2 DEF T!Split, NoneLeft, StillVisited, T!SiblingsDistinct, T!input
  <2>3. HangsOnRoots'
    <3>1. stack = <<>> /\ \A n \in Nodes : children[n] = <<>>
      BY <1>2 DEF T!Split, NoneLeft
    <3>2. stack' = <<>> /\ children' = children /\ todo' = roots /\ roots' = roots
      BY <1>2, <3>1 DEF T!Split
    <3>3. DOMAIN stack' = {}
      BY <3>2
    <3> QED
      BY <3>1, <3>2, <3>3 DEF HangsOnRoots, Parents
  <2> QED
    BY <2>1, <2>2, <2>3
<1> QED
  BY <1>1, <1>2

\* A root is called.
LEMMA RootStep ==
  ASSUME TreeInv, T!Root
  PROVE  TreeInv'
<1> USE DEF TreeInv
<1>1. phase = "build" /\ todo # <<>> /\ T!Push(stack, Head(todo), list) /\ todo' = Tail(todo)
      /\ UNCHANGED <<algorithm, nid, pid, children, list, roots, out, first>>
  BY DEF T!Root, T!input
<1>2. /\ Head(todo) \in Nodes /\ Tail(todo) \in Seq(Nodes)
      /\ \A U : Within(todo, U) <=> Head(todo) \in U /\ Within(Tail(todo), U)
  BY <1>1, TakeFirst DEF TreeTypes
<1>3. /\ stack' \in Seq(T!Frames)
      /\ phase' = "overflow" \/ phase' = phase
      /\ phase' # "overflow" =>
           \A i \in DOMAIN stack' :
             \/ i \in DOMAIN stack /\ stack'[i] = stack[i]
             \/ stack'[i].node = Head(todo)
  BY <1>1, <1>2, PushGrows DEF TreeTypes
<1>4. TreeTypes'
  BY <1>1, <1>2, <1>3 DEF TreeTypes
<1>5. NoneLeft' /\ StillVisited' /\ T!SiblingsDistinct'
  BY <1>1, <1>3 DEF NoneLeft, StillVisited, T!SiblingsDistinct
<1>6. HangsOnRoots'
  <2> SUFFICES ASSUME phase' = "build", NEW U \in SUBSET Nodes, Within(roots, U), Closed(U)
               PROVE  /\ Within(todo', U) /\ (\A i \in DOMAIN stack' : stack'[i].node \in U)
                      /\ Parents(U)
    BY <1>1 DEF HangsOnRoots, Closed, Parents
  <2>1. Within(todo, U) /\ (\A i \in DOMAIN stack : stack[i].node \in U) /\ Parents(U)
    BY <1>1 DEF HangsOnRoots
  <2>2. Head(todo) \in U /\ Within(todo', U)
    BY <1>1, <1>2, <2>1
  <2> QED
    BY <1>3, <2>1, <2>2
<1> QED
  BY <1>4, <1>5, <1>6

\* A child is added to the node of the innermost call, or not.
LEMMA VisitStep ==
  ASSUME TreeInv, T!Visit
  PROVE  TreeInv'
<1> USE DEF TreeInv
<1> DEFINE n == T!Top.node
           t == Head(T!Top.rest)
<1>1. /\ phase = "build" /\ stack # <<>> /\ T!Top.rest # <<>>
      /\ IF T!Adopts(n, t)
         THEN children' = [children EXCEPT ![n] = Append(@, t)] /\ T!Push(T!Stepped, t, list)
         ELSE stack' = T!Stepped /\ UNCHANGED <<children, phase>>
      /\ UNCHANGED <<algorithm, nid, pid, list, roots, todo, out, first>>
  BY DEF T!Visit, T!input
<1>2. /\ Len(stack) \in DOMAIN stack /\ T!Top = stack[Len(stack)]
      /\ n \in Nodes /\ T!Top.rest \in Seq(Nodes)
  BY <1>1, TopOfStack
<1>3. t \in Nodes
  BY <1>1, <1>2, TakeFirst
<1>4. /\ T!Stepped \in Seq(T!Frames) /\ DOMAIN T!Stepped = DOMAIN stack
      /\ \A i \in DOMAIN stack : T!Stepped[i].node = stack[i].node
  BY <1>1, SteppedStack
<1> HIDE DEF n, t
<1>5. CASE T!Adopts(n, t)
  <2>1. children' = [children EXCEPT ![n] = Append(children[n], t)] /\ T!Push(T!Stepped, t, list)
    BY <1>1, <1>5
  <2>2. children[n] \in Seq(Nodes)
    BY <1>2 DEF TreeTypes
  <2>3. /\ Append(children[n], t) \in Seq(Nodes)
        /\ \A U : Within(Append(children[n], t), U) <=> Within(children[n], U) /\ t \in U
    BY <1>3, <2>2, AddLast
  <2>4. children' \in [Nodes -> Seq(Nodes)] /\ children'[n] = Append(children[n], t)
        /\ \A m \in Nodes : m # n => children'[m] = children[m]
    BY <1>2, <2>1, <2>3 DEF TreeTypes
  <2>5. /\ stack' \in Seq(T!Frames)
        /\ phase' = "overflow" \/ phase' = phase
        /\ phase' # "overflow" =>
             \A i \in DOMAIN stack' :
               \/ i \in DOMAIN stack /\ stack'[i].node = stack[i].node
               \/ stack'[i].node = t
    <3>1. list \in Seq(Nodes)
      BY DEF TreeTypes
    <3>2. /\ stack' \in Seq(T!Frames)
          /\ phase' = "overflow" \/ phase' = phase
          /\ phase' # "overflow" =>
               \A i \in DOMAIN stack' :
                 \/ i \in DOMAIN T!Stepped /\ stack'[i] = T!Stepped[i]
                 \/ stack'[i].node = t /\ stack'[i].rest = list
      BY <1>3, <1>4, <2>1, <3>1, PushGrows
    <3> QED
      BY <1>4, <3>2
  <2>6. TreeTypes'
    BY <1>1, <2>4, <2>5 DEF TreeTypes
  <2>7. NoneLeft' /\ StillVisited'
    BY <1>1, <2>5 DEF NoneLeft, StillVisited
  <2>8. HangsOnRoots'
    <3> SUFFICES ASSUME phase' = "build", NEW U \in SUBSET Nodes, Within(roots, U), Closed(U)'
                 PROVE  /\ Within(todo, U) /\ (\A i \in DOMAIN stack' : stack'[i].node \in U)
                        /\ Parents(U)'
      BY <1>1 DEF HangsOnRoots
    <3>1. \A m \in U : Within(children'[m], U)
      BY DEF Closed
    <3>2. Closed(U)
      BY <2>3, <2>4, <3>1 DEF Closed
    <3>3. Within(todo, U) /\ (\A i \in DOMAIN stack : stack[i].node \in U) /\ Parents(U)
      BY <1>1, <3>2 DEF HangsOnRoots
    <3>4. n \in U
      BY <1>2, <3>3 DEF n
    <3>5. t \in U
      BY <2>3, <2>4, <3>1, <3>4
    <3>6. Parents(U)'
      BY <2>4, <3>3, <3>4 DEF Parents
    <3> QED
      BY <2>5, <3>3, <3>5, <3>6
  <2>9. T!SiblingsDistinct'
    <3> SUFFICES ASSUME algorithm = "listToTree", NEW m \in Nodes,
                        NEW i \in DOMAIN children'[m], NEW j \in DOMAIN children'[m], i # j
                 PROVE  nid[children'[m][i]] # nid[children'[m][j]]
      BY <1>1 DEF T!SiblingsDistinct
    <3>1. CASE m # n
      <4>1. children'[m] = children[m]
        BY <2>4, <3>1
      <4>2. \A k, l \in DOMAIN children[m] : k # l => nid[children[m][k]] # nid[children[m][l]]
        BY DEF T!SiblingsDistinct
      <4> QED
        BY <4>1, <4>2
    <3>2. CASE m = n
      <4> DEFINE c == children[n]
      <4>1. \A k \in DOMAIN c : nid[c[k]] # nid[t]
        BY <1>5 DEF T!Adopts, T!HasChild
      <4>2. /\ DOMAIN c = 1 .. Len(c) /\ Len(c) \in Nat
            /\ DOMAIN Append(c, t) = 1 .. Len(c) + 1
            /\ Append(c, t)[Len(c) + 1] = t
            /\ \A k \in 1 .. Len(c) : Append(c, t)[k] = c[k]
        BY <2>2
      <4>3. \A k, l \in DOMAIN c : k # l => nid[c[k]] # nid[c[l]]
        BY <1>2 DEF T!SiblingsDistinct
      <4>4. children'[m] = Append(c, t)
        BY <2>4, <3>2
      <4> HIDE DEF c
      <4>5. \A k \in DOMAIN Append(c, t) : k \in DOMAIN c \/ k = Len(c) + 1
        BY <4>2
      <4>6. CASE i = Len(c) + 1
        BY <4>1, <4>2, <4>4, <4>5, <4>6
      <4>7. CASE j = Len(c) + 1
        BY <4>1, <4>2, <4>4, <4>5, <4>7
      <4>8. CASE i # Len(c) + 1 /\ j # Len(c) + 1
        BY <4>2, <4>3, <4>4, <4>5, <4>8
      <4> QED
        BY <4>6, <4>7, <4>8
    <3> QED
      BY <3>1, <3>2
  <2> QED
    BY <2>6, <2>7, <2>8, <2>9
<1>6. CASE ~T!Adopts(n, t)
  <2>1. stack' = T!Stepped /\ children' = children /\ phase' = phase
    BY <1>1, <1>6
  <2>2. TreeTypes'
    BY <1>1, <1>4, <2>1 DEF TreeTypes
  <2>3. NoneLeft' /\ StillVisited' /\ T!SiblingsDistinct'
    BY <1>1, <2>1 DEF NoneLeft, StillVisited, T!SiblingsDistinct
  <2>4. HangsOnRoots'
    BY <1>1, <1>4, <2>1 DEF HangsOnRoots, Closed, Parents
  <2> QED
    BY <2>2, <2>3, <2>4
<1> QED
  BY <1>5, <1>6

\* A call returns.
LEMMA ReturnStep ==
  ASSUME TreeInv, T!Return
  PROVE  TreeInv'
<1> USE DEF TreeInv
<1>1. /\ stack # <<>> /\ T!Top.rest = <<>> /\ phase \in {"build", "flatten"}
      /\ stack' = T!Front(stack)
      /\ UNCHANGED <<algorithm, nid, pid, children, list, roots, todo, out, first, phase>>
  BY DEF T!Return, T!input
<1>2. stack \in Seq(T!Frames) /\ Len(stack) \in Nat /\ Len(stack) > 0 /\ DOMAIN stack = 1 .. Len(stack)
  BY <1>1 DEF TreeTypes
<1>3. /\ stack' \in Seq(T!Frames) /\ DOMAIN stack' = 1 .. Len(stack) - 1
      /\ \A i \in DOMAIN stack' : i \in DOMAIN stack /\ stack'[i] = stack[i]
  BY <1>1, <1>2 DEF T!Front
<1>4. TreeTypes'
  BY <1>1, <1>3 DEF TreeTypes
<1>5. NoneLeft' /\ HangsOnRoots' /\ T!SiblingsDistinct'
  BY <1>1, <1>3 DEF NoneLeft, HangsOnRoots, Closed, Parents, T!SiblingsDistinct
<1>6. StillVisited'
  <2> SUFFICES ASSUME phase = "flatten", NEW U \in SUBSET Nodes, Within(todo, U),
                      \A i \in DOMAIN stack' : Within(stack'[i].rest, U), Closed(U)
               PROVE  Parents(U)
    BY <1>1 DEF StillVisited, Closed, Parents
  <2>1. stack[Len(stack)].rest = <<>>
    BY <1>1, TopOfStack
  <2>2. \A i \in DOMAIN stack : i \in DOMAIN stack' \/ i = Len(stack)
    BY <1>2, <1>3
  <2>3. Within(<<>>, U)
    BY DEF Within
  <2>4. \A i \in DOMAIN stack : Within(stack[i].rest, U)
    BY <1>3, <2>1, <2>2, <2>3
  <2> QED
    BY <2>4 DEF StillVisited
<1> QED
  BY <1>4, <1>5, <1>6

\* The trees are built.
LEMMA BuiltStep ==
  ASSUME TreeInv, T!Built
  PROVE  TreeInv'
<1> USE DEF TreeInv
<1>1. /\ phase = "build" /\ stack = <<>> /\ phase' = "flatten" /\ todo' = roots
      /\ UNCHANGED <<algorithm, nid, pid, children, list, roots, stack, out, first>>
  BY DEF T!Built, T!input
<1>2. TreeTypes'
  BY <1>1 DEF TreeTypes
<1>3. NoneLeft' /\ HangsOnRoots' /\ T!SiblingsDistinct'
  BY <1>1 DEF NoneLeft, HangsOnRoots, T!SiblingsDistinct
<1>4. StillVisited'
  BY <1>1 DEF StillVisited, HangsOnRoots, Closed, Parents
<1> QED
  BY <1>2, <1>3, <1>4

\* A node is taken apart: its children have still to be visited, it has none.
LEMMA TakenApart ==
  ASSUME TreeInv, phase = "flatten", NEW n \in Nodes, NEW calls \in Seq(T!Frames),
         T!TakeApart(n, calls), todo' \in Seq(Nodes),
         UNCHANGED <<algorithm, nid, pid, list, roots, first>>,
         \A U : Within(todo', U) /\ (\A i \in DOMAIN calls : Within(calls[i].rest, U)) /\ n \in U =>
           Within(todo, U) /\ \A i \in DOMAIN stack : Within(stack[i].rest, U)
  PROVE  TreeInv'
<1> USE DEF TreeInv
<1>1. /\ out' = Append(out, n) /\ children' = [children EXCEPT ![n] = <<>>]
      /\ T!Push(calls, n, children[n])
  BY DEF T!TakeApart
<1>2. out' \in Seq(Nodes)
  BY <1>1, AddLast DEF TreeTypes
<1>3. /\ children' \in [Nodes -> Seq(Nodes)] /\ children'[n] = <<>>
      /\ \A m \in Nodes : m # n => children'[m] = children[m]
  BY <1>1 DEF TreeTypes
<1>4. /\ stack' \in Seq(T!Frames)
      /\ phase' = "overflow" \/ phase' = phase
      /\ phase' # "overflow" =>
           /\ \A i \in DOMAIN calls : i \in DOMAIN stack' /\ stack'[i] = calls[i]
           /\ \E i \in DOMAIN stack' : stack'[i].rest = children[n]
  <2>1. children[n] \in Seq(Nodes)
    BY DEF TreeTypes
  <2> QED
    BY <1>1, <2>1, PushGrows
<1>5. TreeTypes'
  BY <1>2, <1>3, <1>4 DEF TreeTypes
<1>6. NoneLeft' /\ HangsOnRoots'
  BY <1>4 DEF NoneLeft, HangsOnRoots
<1>7. StillVisited'
  <2> SUFFICES ASSUME phase' = "flatten", NEW U \in SUBSET Nodes, Within(todo', U),
                      \A i \in DOMAIN stack' : Within(stack'[i].rest, U), Closed(U)'
               PROVE  Parents(U)'
    BY DEF StillVisited
  <2> DEFINE V == U \cup {n}
  <2>1. \A s : Within(s, U) => Within(s, V)
    BY DEF Within
  <2>2. Within(children[n], U) /\ \A i \in DOMAIN calls : Within(calls[i].rest, U)
    BY <1>4
  <2>3. Within(todo', V) /\ (\A i \in DOMAIN calls : Within(calls[i].rest, V)) /\ n \in V
    BY <2>1, <2>2
  <2>4. Within(todo, V) /\ \A i \in DOMAIN stack : Within(stack[i].rest, V)
    BY <2>3
  <2>5. Closed(V)
    <3> SUFFICES ASSUME NEW m \in V PROVE Within(children[m], V)
      BY DEF Closed
    <3>1. CASE m = n
      BY <2>1, <2>2, <3>1
    <3>2. CASE m # n
      <4>1. m \in U /\ m \in Nodes
        BY <3>2
      <4>2. Within(children'[m], U)
        BY <4>1 DEF Closed
      <4> QED
        BY <1>3, <2>1, <3>2, <4>1, <4>2
    <3> QED
      BY <3>1, <3>2
  <2>6. V \in SUBSET Nodes
    OBVIOUS
  <2>7. Parents(V)
    <3> HIDE DEF V
    <3> QED
      BY <2>4, <2>5, <2>6 DEF StillVisited
  <2> QED
    BY <1>3, <2>7 DEF Parents
<1>8. T!SiblingsDistinct'
  <2> SUFFICES ASSUME algorithm = "listToTree", NEW m \in Nodes,
                      NEW i \in DOMAIN children'[m], NEW j \in DOMAIN children'[m], i # j
               PROVE  nid[children'[m][i]] # nid[children'[m][j]]
    BY DEF T!SiblingsDistinct
  <2>1. m # n
    <3>1. DOMAIN <<>> = {}
      OBVIOUS
    <3> QED
      BY <1>3, <3>1
  <2>2. children'[m] = children[m]
    BY <1>3, <2>1
  <2>3. \A k, l \in DOMAIN children[m] : k # l => nid[children[m][k]] # nid[children[m][l]]
    BY DEF T!SiblingsDistinct
  <2> QED
    BY <2>2, <2>3
<1> QED
  BY <1>5, <1>6, <1>7, <1>8

LEMMA FlattenStep ==
  ASSUME TreeInv, T!FlattenRoot \/ T!FlattenChild
  PROVE  TreeInv'
<1>1. TreeTypes
  BY DEF TreeInv
<1>2. CASE T!FlattenRoot
  <2>1. /\ phase = "flatten" /\ stack = <<>> /\ todo # <<>>
        /\ T!TakeApart(Head(todo), stack) /\ todo' = Tail(todo)
        /\ UNCHANGED <<algorithm, nid, pid, list, roots, first>>
    BY <1>2 DEF T!FlattenRoot, T!input
  <2>2. /\ Head(todo) \in Nodes /\ Tail(todo) \in Seq(Nodes)
        /\ \A U : Within(todo, U) <=> Head(todo) \in U /\ Within(Tail(todo), U)
    BY <1>1, <2>1, TakeFirst DEF TreeTypes
  <2>3. stack \in Seq(T!Frames)
    BY <1>1 DEF TreeTypes
  <2> QED
    BY <2>1, <2>2, <2>3, TakenApart
<1>3. CASE T!FlattenChild
  <2>1. /\ phase = "flatten" /\ stack # <<>> /\ T!Top.rest # <<>>
        /\ T!TakeApart(Head(T!Top.rest), T!Stepped)
        /\ UNCHANGED <<algorithm, nid, pid, list, roots, todo, first>>
    BY <1>3 DEF T!FlattenChild, T!input
  <2>2. /\ Len(stack) \in DOMAIN stack /\ T!Top = stack[Len(stack)] /\ T!Top.rest \in Seq(Nodes)
    BY <1>1, <2>1, TopOfStack
  <2>3. /\ Head(T!Top.rest) \in Nodes
        /\ \A U : Within(T!Top.rest, U) <=> Head(T!Top.rest) \in U /\ Within(Tail(T!Top.rest), U)
    BY <2>1, <2>2, TakeFirst
  <2>4. /\ T!Stepped \in Seq(T!Frames) /\ DOMAIN T!Stepped = DOMAIN stack
        /\ T!Stepped[Len(stack)].rest = Tail(T!Top.rest)
        /\ \A i \in DOMAIN stack : i # Len(stack) => T!Stepped[i] = stack[i]
    BY <1>1, <2>1, SteppedStack
  <2>5. ASSUME NEW U, \A i \in DOMAIN T!Stepped : Within(T!Stepped[i].rest, U),
               Head(T!Top.rest) \in U
        PROVE  \A i \in DOMAIN stack : Within(stack[i].rest, U)
    <3> SUFFICES ASSUME NEW i \in DOMAIN stack PROVE Within(stack[i].rest, U)
      OBVIOUS
    <3>1. CASE i = Len(stack)
      BY <2>2, <2>3, <2>4, <2>5, <3>1
    <3>2. CASE i # Len(stack)
      BY <2>4, <2>5, <3>2
    <3> QED
      BY <3>1, <3>2
  <2>6. todo' \in Seq(Nodes) /\ todo' = todo
    BY <1>1, <2>1 DEF TreeTypes
  <2> QED
    BY <2>1, <2>3, <2>4, <2>5, <2>6, TakenApart
<1> QED
  BY <1>2, <1>3

\* All trees are taken apart: nothing has children.
LEMMA AllTaken ==
  ASSUME TreeInv, phase = "flatten", stack = <<>>, todo = <<>>
  PROVE  \A n \in Nodes : children[n] = <<>>
<1>1. Within(todo, {}) /\ (\A i \in DOMAIN stack : Within(stack[i].rest, {})) /\ Closed({})
  BY DEF Within, Closed
<1>2. Parents({})
  BY <1>1 DEF TreeInv, StillVisited
<1> QED
  BY <1>2 DEF Parents

\* The next call begins, or the result is there.
LEMMA FlattenedStep ==
  ASSUME TreeInv, T!Flattened
  PROVE  TreeInv'
<1> USE DEF TreeInv
<1>1. /\ phase = "flatten" /\ stack = <<>> /\ todo = <<>>
      /\ \/ phase' = "call" /\ list' = out /\ first' = out /\ roots' = <<>> /\ out' = <<>>
         \/ phase' = "done" /\ UNCHANGED <<list, first, roots, out>>
      /\ UNCHANGED <<algorithm, nid, pid, children, todo, stack>>
  BY DEF T!Flattened, T!input
<1>2. \A n \in Nodes : children[n] = <<>>
  BY <1>1, AllTaken
<1>3. TreeTypes'
  BY <1>1 DEF TreeTypes
<1>4. NoneLeft' /\ HangsOnRoots' /\ StillVisited' /\ T!SiblingsDistinct'
  BY <1>1, <1>2 DEF NoneLeft, HangsOnRoots, StillVisited, T!SiblingsDistinct
<1> QED
  BY <1>3, <1>4

LEMMA TreeStep == TreeInv /\ [T!Next]_treeVars => TreeInv'
<1> SUFFICES ASSUME TreeInv, [T!Next]_treeVars PROVE TreeInv'
  OBVIOUS
<1>1. CASE T!Next
  BY <1>1, SplitStep, RootStep, VisitStep, BuiltStep, FlattenStep, FlattenedStep, ReturnStep
     DEF T!Next, T!Build, T!Flatten
<1>2. CASE UNCHANGED treeVars
  <2>1. UNCHANGED <<algorithm, nid, pid, children, list, roots, todo, stack, out, first, phase>>
    BY <1>2 DEF treeVars
  <2>2. TreeTypes' /\ NoneLeft'
    BY <2>1 DEF TreeInv, TreeTypes, NoneLeft
  <2>3. HangsOnRoots' /\ StillVisited'
    BY <2>1 DEF TreeInv, HangsOnRoots, StillVisited, Closed, Parents
  <2>4. T!SiblingsDistinct'
    BY <2>1 DEF TreeInv, T!SiblingsDistinct
  <2> QED
    BY <2>2, <2>3, <2>4 DEF TreeInv
<1> QED
  BY <1>1, <1>2

(***************************************************************************)
(* The trees: what comes out of them.  With unique ids a node hangs on one  *)
(* other or on none, and a tree visits its nodes in the order of the list.  *)
(***************************************************************************)

Rooted == {n \in Nodes : T!IsRoot(n)}

\* The edges of the trees: a parent and what hangs on it.
Edges == {e \in Nodes \X Nodes : e[2] \notin Rooted /\ nid[e[1]] = pid[e[2]]}

\* The list the call in progress was given.
Source == IF first = <<>> THEN [n \in Nodes |-> n] ELSE first

In(s, n) == \E i \in DOMAIN s : s[i] = n
Once(s) == \A i, j \in DOMAIN s : i # j => s[i] # s[j]

\* m comes before n in L; the members of s come in the order they have in L.
Before(L, m, n) == \E a, b \in DOMAIN L : a < b /\ L[a] = m /\ L[b] = n
Sorted(L, s) == \A i, j \in DOMAIN s : i < j => Before(L, s[i], s[j])

\* In s a node comes after its parent, and what comes between the two hangs on
\* the parent or on something after it.
AfterParents(R, G, s) ==
  \A j \in DOMAIN s : s[j] \in R \/ \E i \in 1 .. j - 1 : <<s[i], s[j]>> \in G
Inside(G, s, p, i) == \E q \in p .. i - 1 : <<s[q], s[i]>> \in G
Nested(G, s) ==
  \A p, i, j \in DOMAIN s : p < i /\ i < j /\ <<s[p], s[j]>> \in G => Inside(G, s, p, i)

\* What comes out of trees with the roots R and the edges G, that hold U.
Listed(R, G, U, s) ==
  /\ Once(s) /\ AfterParents(R, G, s) /\ Nested(G, s)
  /\ \A n \in Nodes : n \in U <=> In(s, n)

\* The second round is given what came out of the first.
SourceListed == first # <<>> => Listed(Rooted, Edges, T!Reached, first)

\* The list is looked through from the front, and sifted in its order.
Sifting ==
  phase = "call" =>
    /\ out = <<>> /\ Sorted(Source, list) /\ Sorted(Source, roots) /\ Sorted(Source, todo)
    /\ \A m, n \in Nodes : (In(roots, m) \/ In(todo, m)) /\ In(list, n) => Before(Source, m, n)
    /\ \A n \in Nodes : In(Source, n) <=> In(list, n) \/ In(roots, n) \/ In(todo, n)
    /\ \A n \in Nodes : (In(roots, n) => n \in Rooted) /\ (In(todo, n) => n \notin Rooted)

Sifted ==
  phase = "build" =>
    /\ out = <<>> /\ Sorted(Source, list) /\ Sorted(Source, roots) /\ Sorted(Source, todo)
    /\ \A n \in Nodes : In(list, n) <=> In(Source, n) /\ n \notin Rooted
    /\ \A n \in Nodes : In(roots, n) <=> In(Source, n) /\ n \in Rooted
    /\ \A n \in Nodes : In(todo, n) => In(roots, n)

\* The roots called so far and the nodes that were added to a parent.
Visited(rs, ts, c, n) == (In(rs, n) /\ ~In(ts, n)) \/ \E m \in Nodes : In(c[m], n)

\* A visited node has its children, or a call in progress that will meet them.
Grown ==
  phase = "build" => \A n \in Nodes :
    /\ Sorted(Source, children[n])
    /\ \A t \in Nodes : In(children[n], t) =>
         Visited(roots, todo, children, n) /\ <<n, t>> \in Edges /\ In(list, t)
    /\ Visited(roots, todo, children, n) => \A t \in Nodes : In(list, t) /\ <<n, t>> \in Edges =>
         In(children[n], t) \/ \E i \in DOMAIN stack : stack[i].node = n /\ In(stack[i].rest, t)

\* Calls are for different nodes, and what a call has still to look at comes after
\* the children it found.
Growing ==
  phase = "build" =>
    /\ \A i, j \in DOMAIN stack : i # j => stack[i].node # stack[j].node
    /\ \A i \in DOMAIN stack :
         /\ Visited(roots, todo, children, stack[i].node) /\ Sorted(Source, stack[i].rest)
         /\ \A t \in Nodes : In(stack[i].rest, t) =>
              /\ In(list, t)
              /\ \A c \in Nodes : In(children[stack[i].node], c) => Before(Source, c, t)

\* Every node that hangs on a root is out or is going to be met.
Standing ==
  phase = "flatten" =>
    /\ Sorted(Source, todo)
    /\ \A n \in Nodes : In(todo, n) => n \in Rooted /\ ~In(out, n)
    /\ \A n \in Nodes : Sorted(Source, children[n]) /\ (In(out, n) => children[n] = <<>>)
    /\ \A n, t \in Nodes : In(children[n], t) => <<n, t>> \in Edges
    /\ \A n \in Nodes : n \in T!Reached =>
         \/ In(out, n) \/ In(todo, n)
         \/ \E m \in Nodes : In(children[m], n)
         \/ \E i \in DOMAIN stack : In(stack[i].rest, n)

\* What is out is as Listed says, in the second round as it was after the first.
Felled ==
  phase = "flatten" =>
    /\ Once(out) /\ AfterParents(Rooted, Edges, out) /\ Nested(Edges, out)
    /\ \A n \in Nodes : In(out, n) => n \in T!Reached
    /\ first # <<>> => Len(out) <= Len(first) /\ \A i \in DOMAIN out : out[i] = first[i]

\* Calls are for nodes that are out, in that order; everything after such a node
\* hangs on it or on something after it.
Felling ==
  phase = "flatten" =>
    /\ \A i \in DOMAIN stack :
         /\ In(out, stack[i].node) /\ Sorted(Source, stack[i].rest)
         /\ \A t \in Nodes : In(stack[i].rest, t) => <<stack[i].node, t>> \in Edges /\ ~In(out, t)
         /\ \A p \in DOMAIN out : out[p] = stack[i].node =>
              \A k \in p + 1 .. Len(out) : Inside(Edges, out, p, k)
    /\ \A i, j \in DOMAIN stack : i < j => Before(out, stack[i].node, stack[j].node)

Ended == phase = "done" => Listed(Rooted, Edges, T!Reached, out) /\ out = first

ListsInv ==
  T!UniqueIds /\ phase # "overflow" =>
    SourceListed /\ Sifting /\ Sifted /\ Grown /\ Growing /\ Standing /\ Felled /\ Felling /\ Ended

\* An empty list holds nothing.
LEMMA NoneIn == \A L : Sorted(L, <<>>) /\ Once(<<>>) /\ \A n : ~In(<<>>, n)
<1>1. DOMAIN <<>> = {}
  OBVIOUS
<1> QED
  BY <1>1 DEF Sorted, Once, In

\* The first member and the others.
LEMMA FirstIn ==
  ASSUME NEW S, NEW s \in Seq(S), s # <<>>
  PROVE  /\ \A n : In(s, n) <=> n = Head(s) \/ In(Tail(s), n)
         /\ \A L : Sorted(L, s) =>
              Sorted(L, Tail(s)) /\ \A n : In(Tail(s), n) => Before(L, Head(s), n)
<1>1. Head(s) = s[1] /\ Len(s) \in Nat /\ Len(s) > 0 /\ DOMAIN s = 1 .. Len(s)
  OBVIOUS
<1>2. /\ DOMAIN Tail(s) = 1 .. Len(s) - 1
      /\ \A i \in DOMAIN Tail(s) : i + 1 \in DOMAIN s /\ Tail(s)[i] = s[i + 1]
  OBVIOUS
<1>3. \A i \in DOMAIN s : i = 1 \/ (i - 1 \in DOMAIN Tail(s) /\ (i - 1) + 1 = i)
  BY <1>1, <1>2
<1>4. 1 \in DOMAIN s /\ \A i \in DOMAIN Tail(s) : 1 < i + 1
  BY <1>1, <1>2
<1>5. ASSUME NEW n PROVE In(s, n) <=> n = Head(s) \/ In(Tail(s), n)
  <2>1. ASSUME In(s, n) PROVE n = Head(s) \/ In(Tail(s), n)
    <3>1. PICK i \in DOMAIN s : s[i] = n
      BY <2>1 DEF In
    <3>2. CASE i = 1
      BY <1>1, <3>1, <3>2
    <3>3. CASE i # 1
      <4>1. i - 1 \in DOMAIN Tail(s) /\ (i - 1) + 1 = i
        BY <1>3, <3>3
      <4>2. Tail(s)[i - 1] = n
        BY <1>2, <3>1, <4>1
      <4> QED
        BY <4>1, <4>2 DEF In
    <3> QED
      BY <3>2, <3>3
  <2>2. ASSUME n = Head(s) \/ In(Tail(s), n) PROVE In(s, n)
    BY <1>1, <1>2, <1>4, <2>2 DEF In
  <2> QED
    BY <2>1, <2>2
<1>6. ASSUME NEW L, Sorted(L, s)
      PROVE  Sorted(L, Tail(s)) /\ \A n : In(Tail(s), n) => Before(L, Head(s), n)
  <2>1. Sorted(L, Tail(s))
    <3> SUFFICES ASSUME NEW i \in DOMAIN Tail(s), NEW j \in DOMAIN Tail(s), i < j
                 PROVE  Before(L, Tail(s)[i], Tail(s)[j])
      BY DEF Sorted
    <3>1. i + 1 \in DOMAIN s /\ j + 1 \in DOMAIN s /\ i + 1 < j + 1
      BY <1>2
    <3> QED
      BY <1>2, <1>6, <3>1 DEF Sorted
  <2>2. ASSUME NEW n, In(Tail(s), n) PROVE Before(L, Head(s), n)
    BY <1>1, <1>2, <1>4, <1>6, <2>2 DEF In, Sorted
  <2> QED
    BY <2>1, <2>2
<1> QED
  BY <1>5, <1>6

\* One more at the end.
LEMMA LastIn ==
  ASSUME NEW S, NEW s \in Seq(S), NEW x \in S
  PROVE  /\ \A n : In(Append(s, x), n) <=> In(s, n) \/ n = x
         /\ \A L : Sorted(L, s) /\ (\A m \in S : In(s, m) => Before(L, m, x)) =>
              Sorted(L, Append(s, x))
<1> DEFINE r == Append(s, x)
           k == Len(s) + 1
<1>1. /\ Len(s) \in Nat /\ DOMAIN s = 1 .. Len(s) /\ DOMAIN r = 1 .. k /\ r[k] = x
      /\ \A i \in DOMAIN s : r[i] = s[i] /\ s[i] \in S
  OBVIOUS
<1>2. \A i \in DOMAIN r : i \in DOMAIN s \/ i = k
  BY <1>1
<1>3. k \in DOMAIN r /\ \A i \in DOMAIN s : i \in DOMAIN r /\ i < k
  BY <1>1
<1>4. \A i \in DOMAIN r : ~(k < i)
  BY <1>1
<1> HIDE DEF r, k
<1>5. ASSUME NEW n PROVE In(r, n) <=> In(s, n) \/ n = x
  BY <1>1, <1>2, <1>3 DEF In
<1>6. ASSUME NEW L, Sorted(L, s), \A m \in S : In(s, m) => Before(L, m, x)
      PROVE  Sorted(L, r)
  <2> SUFFICES ASSUME NEW i \in DOMAIN r, NEW j \in DOMAIN r, i < j
               PROVE  Before(L, r[i], r[j])
    BY DEF Sorted
  <2>1. i \in DOMAIN s
    BY <1>2, <1>4
  <2>2. r[i] = s[i] /\ In(s, s[i]) /\ s[i] \in S
    BY <1>1, <2>1 DEF In
  <2>3. CASE j = k
    BY <1>1, <1>6, <2>2, <2>3
  <2>4. CASE j # k
    <3>1. j \in DOMAIN s /\ r[j] = s[j]
      BY <1>1, <1>2, <2>4
    <3> QED
      BY <1>6, <2>1, <2>2, <3>1 DEF Sorted
  <2> QED
    BY <2>3, <2>4
<1> QED
  BY <1>5, <1>6 DEF r

\* In a list without repetitions that is an order.
LEMMA BeforeOrders ==
  ASSUME NEW L \in Seq(Nodes), Once(L)
  PROVE  /\ \A m : ~Before(L, m, m)
         /\ \A m, n, k : Before(L, m, n) /\ Before(L, n, k) => Before(L, m, k)
<1>1. DOMAIN L \subseteq Nat
  OBVIOUS
<1>2. ASSUME NEW m, Before(L, m, m) PROVE FALSE
  <2>1. PICK a \in DOMAIN L, b \in DOMAIN L : a < b /\ L[a] = m /\ L[b] = m
    BY <1>2 DEF Before
  <2>2. a # b
    BY <1>1, <2>1
  <2> QED
    BY <2>1, <2>2 DEF Once
<1>3. ASSUME NEW m, NEW n, NEW k, Before(L, m, n), Before(L, n, k) PROVE Before(L, m, k)
  <2>1. PICK a \in DOMAIN L, b \in DOMAIN L : a < b /\ L[a] = m /\ L[b] = n
    BY <1>3 DEF Before
  <2>2. PICK c \in DOMAIN L, d \in DOMAIN L : c < d /\ L[c] = n /\ L[d] = k
    BY <1>3 DEF Before
  <2>3. b = c
    BY <2>1, <2>2 DEF Once
  <2>4. a < d
    BY <1>1, <2>1, <2>2, <2>3
  <2> QED
    BY <2>1, <2>2, <2>4 DEF Before
<1> QED
  BY <1>2, <1>3

\* Ids, parents and list are the input.
LEMMA InputRests ==
  ASSUME UNCHANGED <<nid, pid>>
  PROVE  /\ Rooted' = Rooted /\ Edges' = Edges /\ T!Reached' = T!Reached
         /\ T!UniqueIds' <=> T!UniqueIds
<1>1. Rooted' = Rooted
  BY DEF Rooted, T!IsRoot
<1>2. Edges' = Edges
  BY <1>1 DEF Edges
<1>3. \A S : T!Hangs(S)' <=> T!Hangs(S)
  BY DEF T!Hangs, T!IsRoot
<1>4. T!Reached' = T!Reached
  BY <1>3 DEF T!Reached, T!Hangs, T!IsRoot
<1>5. T!UniqueIds' <=> T!UniqueIds
  BY DEF T!UniqueIds
<1> QED
  BY <1>1, <1>2, <1>4, <1>5

\* With unique ids nothing hangs on two nodes.
LEMMA OneParent ==
  ASSUME T!UniqueIds
  PROVE  \A m, k, n : <<m, n>> \in Edges /\ <<k, n>> \in Edges => m = k
BY DEF T!UniqueIds, Edges

\* What hangs on a node is no root.
LEMMA EdgeNodes ==
  \A m, n : <<m, n>> \in Edges => m \in Nodes /\ n \in Nodes /\ n \notin Rooted
BY DEF Edges

\* What hangs on a root, and nothing else, is reached.
LEMMA ReachedHangs ==
  /\ T!Reached \in SUBSET Nodes /\ Rooted \subseteq T!Reached
  /\ \A m, n : m \in T!Reached /\ <<m, n>> \in Edges => n \in T!Reached
  /\ \A S \in SUBSET Nodes : Rooted \subseteq S /\
       (\A m, n \in Nodes : m \in S /\ <<m, n>> \in Edges => n \in S) => T!Reached \subseteq S
<1>1. T!Reached \in SUBSET Nodes
  BY DEF T!Reached
<1>2. ASSUME NEW n \in Rooted PROVE n \in T!Reached
  BY DEF T!Reached, T!Hangs, Rooted
<1>3. ASSUME NEW m \in T!Reached, NEW n, <<m, n>> \in Edges PROVE n \in T!Reached
  <2>1. n \in Nodes /\ nid[m] = pid[n]
    BY <1>3 DEF Edges
  <2> SUFFICES ASSUME NEW S \in SUBSET Nodes, T!Hangs(S) PROVE n \in S
    BY <2>1 DEF T!Reached
  <2>2. m \in S
    BY DEF T!Reached
  <2> QED
    BY <2>1, <2>2 DEF T!Hangs
<1>4. ASSUME NEW S \in SUBSET Nodes, Rooted \subseteq S,
             \A m, n \in Nodes : m \in S /\ <<m, n>> \in Edges => n \in S
      PROVE  T!Reached \subseteq S
  <2>1. T!Hangs(S)
    <3> SUFFICES ASSUME NEW n \in Nodes, T!IsRoot(n) \/ \E m \in S : nid[m] = pid[n]
                 PROVE  n \in S
      BY DEF T!Hangs
    <3>1. CASE n \in Rooted
      BY <1>4, <3>1
    <3>2. CASE n \notin Rooted
      <4>1. PICK m \in S : nid[m] = pid[n]
        BY <3>2 DEF Rooted
      <4>2. <<m, n>> \in Edges
        BY <3>2, <4>1 DEF Edges
      <4> QED
        BY <1>4, <4>2
    <3> QED
      BY <3>1, <3>2
  <2> QED
    BY <2>1 DEF T!Reached
<1> QED
  BY <1>1, <1>2, <1>3, <1>4

\* The list given to a call has no node twice, and holds all that is reached.
LEMMA SourceHolds ==
  ASSUME TreeTypes, SourceListed
  PROVE  /\ Source \in Seq(Nodes) /\ Once(Source)
         /\ \A n \in T!Reached : In(Source, n)
<1>1. CASE first = <<>>
  <2>1. Cardinality(Nodes) \in Nat /\ Nodes = 1 .. Cardinality(Nodes)
    BY TreeNodes, FS_CardinalityType
  <2>2. Source = [n \in Nodes |-> n]
    BY <1>1 DEF Source
  <2>3. Source \in Seq(Nodes) /\ DOMAIN Source = Nodes /\ \A n \in Nodes : Source[n] = n
    BY <2>1, <2>2
  <2>4. T!Reached \subseteq Nodes
    BY ReachedHangs
  <2> QED
    BY <2>3, <2>4 DEF Once, In
<1>2. CASE first # <<>>
  <2>1. Source = first /\ Listed(Rooted, Edges, T!Reached, first)
    BY <1>2 DEF Source, SourceListed
  <2>2. T!Reached \subseteq Nodes
    BY ReachedHangs
  <2> QED
    BY <2>1, <2>2 DEF Listed, TreeTypes
<1> QED
  BY <1>1, <1>2

\* A call goes on the stack.
LEMMA Pushed ==
  ASSUME NEW calls \in Seq(T!Frames), NEW n \in Nodes, NEW rest \in Seq(Nodes),
         T!Push(calls, n, rest), phase' # "overflow"
  PROVE  /\ phase' = phase /\ stack' \in Seq(T!Frames) /\ DOMAIN calls = 1 .. Len(calls)
         /\ Len(calls) \in Nat /\ DOMAIN stack' = 1 .. Len(calls) + 1
         /\ stack'[Len(calls) + 1].node = n /\ stack'[Len(calls) + 1].rest = rest
         /\ \A i \in 1 .. Len(calls) : stack'[i] = calls[i]
<1> DEFINE frame == [node |-> n, rest |-> rest]
<1>1. frame \in T!Frames /\ frame.node = n /\ frame.rest = rest
  BY DEF T!Frames
<1>2. stack' = Append(calls, frame) /\ phase' = phase
  BY DEF T!Push
<1> HIDE DEF frame
<1>3. /\ Append(calls, frame) \in Seq(T!Frames) /\ Len(calls) \in Nat
      /\ DOMAIN calls = 1 .. Len(calls)
      /\ DOMAIN Append(calls, frame) = 1 .. Len(calls) + 1
      /\ Append(calls, frame)[Len(calls) + 1] = frame
      /\ \A i \in 1 .. Len(calls) : Append(calls, frame)[i] = calls[i]
  BY <1>1
<1> QED
  BY <1>1, <1>2, <1>3

\* The list is numbered in order.
LEMMA ListsInit == T!Init => ListsInv
<1> SUFFICES ASSUME T!Init PROVE ListsInv
  OBVIOUS
<1> USE DEF T!Init
<1>1. Source = list
  BY DEF Source
<1>2. list = [n \in Nodes |-> n] /\ Cardinality(Nodes) \in Nat /\ Nodes = 1 .. Cardinality(Nodes)
  BY TreeNodes, FS_CardinalityType
<1>3. DOMAIN list = Nodes /\ (\A n \in Nodes : list[n] = n) /\ Nodes \subseteq Nat
  BY <1>2
<1>4. Sorted(Source, list)
  BY <1>1, <1>3 DEF Sorted, Before
<1>5. Sifting
  BY <1>1, <1>4, NoneIn DEF Sifting
<1> QED
  BY <1>5 DEF ListsInv, SourceListed, Sifted, Grown, Growing, Standing, Felled, Felling, Ended

\* A node goes to the roots or to the others, after those met before.
LEMMA SiftLists ==
  ASSUME TreeInv, ListsInv, T!UniqueIds, T!Sift
  PROVE  ListsInv'
<1> DEFINE h == Head(list)
           r == Tail(list)
<1>1. /\ phase = "call" /\ phase' = phase /\ list # <<>> /\ list' = r
      /\ UNCHANGED <<nid, pid, children, stack, out, first>>
      /\ \/ h \in Rooted /\ roots' = Append(roots, h) /\ todo' = todo
         \/ h \notin Rooted /\ todo' = Append(todo, h) /\ roots' = roots
  <2>1. TreeTypes
    BY DEF TreeInv
  <2>2. list # <<>>
    BY DEF T!Sift
  <2>3. h \in Nodes
    BY <2>1, <2>2, TakeFirst DEF TreeTypes
  <2> QED
    BY <2>3 DEF T!Sift, T!input, Rooted
<1>2. /\ list \in Seq(Nodes) /\ roots \in Seq(Nodes) /\ todo \in Seq(Nodes)
      /\ h \in Nodes
  BY <1>1, TakeFirst DEF TreeInv, TreeTypes
<1>3. Rooted' = Rooted /\ Edges' = Edges /\ T!Reached' = T!Reached /\ Source' = Source
  BY <1>1, InputRests DEF Source
<1>4. SourceListed'
  BY <1>1, <1>3 DEF ListsInv, SourceListed
<1>5. /\ Sorted(Source, list) /\ Sorted(Source, roots) /\ Sorted(Source, todo)
      /\ \A m, n \in Nodes : (In(roots, m) \/ In(todo, m)) /\ In(list, n) => Before(Source, m, n)
      /\ \A n \in Nodes : In(Source, n) <=> In(list, n) \/ In(roots, n) \/ In(todo, n)
      /\ \A n \in Nodes : (In(roots, n) => n \in Rooted) /\ (In(todo, n) => n \notin Rooted)
      /\ out = <<>>
  BY <1>1 DEF ListsInv, Sifting
<1>6. /\ \A n : In(list, n) <=> n = h \/ In(r, n)
      /\ Sorted(Source, r) /\ \A n : In(r, n) => Before(Source, h, n)
  BY <1>1, <1>2, <1>5, FirstIn
<1>7. /\ \A n : In(Append(roots, h), n) <=> In(roots, n) \/ n = h
      /\ \A n : In(Append(todo, h), n) <=> In(todo, n) \/ n = h
      /\ Sorted(Source, Append(roots, h)) /\ Sorted(Source, Append(todo, h))
  <2>1. \A m \in Nodes : In(roots, m) \/ In(todo, m) => Before(Source, m, h)
    BY <1>2, <1>5, <1>6
  <2> QED
    BY <1>2, <1>5, <2>1, LastIn
<1> HIDE DEF h, r
<1>8. Sifting'
  <2> SUFFICES
        /\ Sorted(Source, list') /\ Sorted(Source, roots') /\ Sorted(Source, todo')
        /\ \A m, n \in Nodes : (In(roots', m) \/ In(todo', m)) /\ In(list', n) => Before(Source, m, n)
        /\ \A n \in Nodes : In(Source, n) <=> In(list', n) \/ In(roots', n) \/ In(todo', n)
        /\ \A n \in Nodes : (In(roots', n) => n \in Rooted) /\ (In(todo', n) => n \notin Rooted)
    BY <1>1, <1>3, <1>5 DEF Sifting
  <2>1. CASE h \in Rooted /\ roots' = Append(roots, h) /\ todo' = todo
    BY <1>1, <1>5, <1>6, <1>7, <2>1
  <2>2. CASE h \notin Rooted /\ todo' = Append(todo, h) /\ roots' = roots
    BY <1>1, <1>5, <1>6, <1>7, <2>2
  <2> QED
    BY <1>1, <2>1, <2>2
<1> QED
  BY <1>1, <1>4, <1>8 DEF ListsInv, Sifted, Grown, Growing, Standing, Felled, Felling, Ended

\* The roots are on one side, the list is without them, nothing has children yet.
LEMMA SplitLists ==
  ASSUME TreeInv, ListsInv, T!UniqueIds, T!Split
  PROVE  ListsInv'
<1>1. /\ phase = "call" /\ phase' = "build" /\ list = <<>> /\ list' = todo /\ todo' = roots
      /\ UNCHANGED <<nid, pid, children, roots, stack, out, first>>
  BY DEF T!Split, T!input
<1>2. Rooted' = Rooted /\ Edges' = Edges /\ T!Reached' = T!Reached /\ Source' = Source
  BY <1>1, InputRests DEF Source
<1>3. SourceListed'
  BY <1>1, <1>2 DEF ListsInv, SourceListed
<1>4. /\ Sorted(Source, roots) /\ Sorted(Source, todo) /\ out = <<>>
      /\ \A n \in Nodes : In(Source, n) <=> In(list, n) \/ In(roots, n) \/ In(todo, n)
      /\ \A n \in Nodes : (In(roots, n) => n \in Rooted) /\ (In(todo, n) => n \notin Rooted)
  BY <1>1 DEF ListsInv, Sifting
<1>5. \A n : ~In(list, n)
  BY <1>1, NoneIn
<1>6. Sifted'
  BY <1>1, <1>2, <1>4, <1>5 DEF Sifted
<1>7. stack' = <<>> /\ DOMAIN stack' = {} /\ \A n \in Nodes : children'[n] = <<>>
  <2>1. stack = <<>> /\ \A n \in Nodes : children[n] = <<>>
    BY <1>1 DEF TreeInv, NoneLeft
  <2> QED
    BY <1>1, <2>1
<1>8. Growing'
  BY <1>7 DEF Growing
<1>9. Grown'
  <2>1. \A n \in Nodes : Sorted(Source', children'[n]) /\ \A t : ~In(children'[n], t)
    BY <1>7, NoneIn
  <2>2. \A n \in Nodes : ~Visited(roots', todo', children', n)
    BY <1>1, <2>1 DEF Visited
  <2> QED
    BY <2>1, <2>2 DEF Grown
<1> QED
  BY <1>1, <1>3, <1>6, <1>8, <1>9 DEF ListsInv, Sifting, Standing, Felled, Felling, Ended

\* What is known while trees are built.
LEMMA Building ==
  ASSUME TreeInv, ListsInv, T!UniqueIds, phase = "build"
  PROVE  /\ SourceListed /\ out = <<>>
         /\ Sorted(Source, list) /\ Sorted(Source, roots) /\ Sorted(Source, todo)
         /\ \A n \in Nodes : In(list, n) <=> In(Source, n) /\ n \notin Rooted
         /\ \A n \in Nodes : In(roots, n) <=> In(Source, n) /\ n \in Rooted
         /\ \A n \in Nodes : In(todo, n) => In(roots, n)
         /\ \A n \in Nodes : Sorted(Source, children[n])
         /\ \A n, t \in Nodes : In(children[n], t) =>
              Visited(roots, todo, children, n) /\ <<n, t>> \in Edges /\ In(list, t)
         /\ \A n, t \in Nodes :
              Visited(roots, todo, children, n) /\ In(list, t) /\ <<n, t>> \in Edges =>
                In(children[n], t) \/ \E i \in DOMAIN stack : stack[i].node = n /\ In(stack[i].rest, t)
         /\ \A i, j \in DOMAIN stack : i # j => stack[i].node # stack[j].node
         /\ \A i \in DOMAIN stack :
              Visited(roots, todo, children, stack[i].node) /\ Sorted(Source, stack[i].rest)
         /\ \A i \in DOMAIN stack : \A t \in Nodes : In(stack[i].rest, t) => In(list, t)
         /\ \A i \in DOMAIN stack : \A c, t \in Nodes :
              In(stack[i].rest, t) /\ In(children[stack[i].node], c) => Before(Source, c, t)
<1>1. SourceListed
  BY DEF ListsInv
<1>2. Sifted /\ Grown /\ Growing
  BY DEF ListsInv
<1> QED
  BY <1>1, <1>2 DEF Sifted, Grown, Growing

\* The next root is called; it has no children yet and is no child.
LEMMA RootLists ==
  ASSUME TreeInv, ListsInv, T!UniqueIds, T!Root, phase' # "overflow"
  PROVE  ListsInv'
<1> DEFINE x == Head(todo)
           r == Tail(todo)
<1>1. /\ phase = "build" /\ stack = <<>> /\ todo # <<>> /\ T!Push(stack, x, list) /\ todo' = r
      /\ UNCHANGED <<nid, pid, children, list, roots, out, first>>
  BY DEF T!Root, T!input
<1>2. /\ list \in Seq(Nodes) /\ todo \in Seq(Nodes) /\ x \in Nodes /\ TreeTypes
      /\ stack \in Seq(T!Frames)
  BY <1>1, TakeFirst DEF TreeInv, TreeTypes
<1>3. Rooted' = Rooted /\ Edges' = Edges /\ T!Reached' = T!Reached /\ Source' = Source
  BY <1>1, InputRests DEF Source
<1>4. SourceListed /\ SourceListed'
  BY <1>1, <1>3 DEF ListsInv, SourceListed
<1>5. \A m : ~Before(Source, m, m)
  BY <1>2, <1>4, SourceHolds, BeforeOrders
<1>6. /\ \A n : In(todo, n) <=> n = x \/ In(r, n)
      /\ Sorted(Source, r) /\ \A n : In(r, n) => Before(Source, x, n)
  BY <1>1, <1>2, Building, FirstIn
<1>7. /\ phase' = phase /\ DOMAIN stack' = {1}
      /\ stack'[1].node = x /\ stack'[1].rest = list
  <2>1. Len(stack) = 0
    BY <1>1
  <2>2. /\ phase' = phase /\ DOMAIN stack' = 1 .. 0 + 1
        /\ stack'[0 + 1].node = x /\ stack'[0 + 1].rest = list
    BY <1>1, <1>2, <2>1, Pushed
  <2> QED
    BY <2>2
<1>8. DOMAIN stack = {}
  BY <1>1
<1> HIDE DEF x, r
<1>9. Sifted'
  BY <1>1, <1>3, <1>6, Building DEF Sifted
<1>10. x \in Rooted /\ \A m \in Nodes : ~In(children[m], x)
  <2>1. x \in Rooted
    BY <1>1, <1>2, <1>6, Building
  <2> QED
    BY <1>1, <1>2, <2>1, Building, EdgeNodes
<1>11. \A t \in Nodes : ~In(children[x], t)
  BY <1>1, <1>2, <1>6, <1>10, Building DEF Visited
<1>12. /\ Visited(roots', todo', children', x)
       /\ \A n \in Nodes : Visited(roots, todo, children, n) => Visited(roots', todo', children', n)
       /\ \A n \in Nodes : Visited(roots', todo', children', n) =>
            n = x \/ Visited(roots, todo, children, n)
  <2>1. In(roots, x) /\ ~In(r, x)
    BY <1>1, <1>2, <1>5, <1>6, Building
  <2> QED
    BY <1>1, <1>6, <2>1 DEF Visited
<1>13. Grown'
  <2> SUFFICES ASSUME NEW n \in Nodes
               PROVE
        /\ Sorted(Source, children[n])
        /\ \A t \in Nodes : In(children[n], t) =>
             Visited(roots', todo', children', n) /\ <<n, t>> \in Edges /\ In(list, t)
        /\ Visited(roots', todo', children', n) => \A t \in Nodes : In(list, t) /\ <<n, t>> \in Edges =>
             In(children[n], t) \/ \E i \in DOMAIN stack' : stack'[i].node = n /\ In(stack'[i].rest, t)
    BY <1>1, <1>3 DEF Grown
  <2>1. Sorted(Source, children[n])
    BY <1>1, Building
  <2>2. \A t \in Nodes : In(children[n], t) =>
          Visited(roots', todo', children', n) /\ <<n, t>> \in Edges /\ In(list, t)
    BY <1>1, <1>12, Building
  <2>3. ASSUME Visited(roots', todo', children', n),
               NEW t \in Nodes, In(list, t), <<n, t>> \in Edges
        PROVE  In(children[n], t) \/ \E i \in DOMAIN stack' : stack'[i].node = n /\ In(stack'[i].rest, t)
    <3>1. CASE n = x
      BY <1>7, <2>3, <3>1
    <3>2. CASE n # x
      BY <1>1, <1>8, <1>12, <2>3, <3>2, Building
    <3> QED
      BY <3>1, <3>2
  <2> QED
    BY <2>1, <2>2, <2>3
<1>14. Growing'
  <2> SUFFICES
        /\ \A i, j \in DOMAIN stack' : i # j => stack'[i].node # stack'[j].node
        /\ \A i \in DOMAIN stack' :
             /\ Visited(roots', todo', children', stack'[i].node) /\ Sorted(Source, stack'[i].rest)
             /\ \A t \in Nodes : In(stack'[i].rest, t) =>
                  /\ In(list, t)
                  /\ \A c \in Nodes : In(children[stack'[i].node], c) => Before(Source, c, t)
    BY <1>1, <1>3 DEF Growing
  <2>1. Sorted(Source, list)
    BY <1>1, Building
  <2> QED
    BY <1>7, <1>11, <1>12, <2>1
<1> QED
  BY <1>1, <1>4, <1>7, <1>9, <1>13, <1>14 DEF ListsInv, Sifting, Standing, Felled, Felling, Ended

\* A child is added after those found before; it was not visited before, as it
\* hangs on this node only.
LEMMA VisitLists ==
  ASSUME TreeInv, ListsInv, T!UniqueIds, T!Visit, phase' # "overflow"
  PROVE  ListsInv'
<1> DEFINE n == T!Top.node
           rest == T!Top.rest
           t == Head(rest)
           r == Tail(rest)
           k == Len(stack)
<1>1. /\ phase = "build" /\ stack # <<>> /\ rest # <<>>
      /\ IF T!Adopts(n, t)
         THEN children' = [children EXCEPT ![n] = Append(@, t)] /\ T!Push(T!Stepped, t, list)
         ELSE stack' = T!Stepped /\ UNCHANGED <<children, phase>>
      /\ UNCHANGED <<nid, pid, list, roots, todo, out, first>>
  BY DEF T!Visit, T!input
<1>2. TreeTypes /\ list \in Seq(Nodes)
  BY DEF TreeInv, TreeTypes
<1>3. /\ k \in DOMAIN stack /\ k \in Nat /\ DOMAIN stack = 1 .. k
      /\ n = stack[k].node /\ rest = stack[k].rest
      /\ n \in Nodes /\ rest \in Seq(Nodes) /\ t \in Nodes
  <2>1. stack \in Seq(T!Frames)
    BY <1>2 DEF TreeTypes
  <2>2. DOMAIN stack = 1 .. k
    BY <2>1
  <2> QED
    BY <1>1, <1>2, <2>2, TopOfStack, TakeFirst
<1>4. /\ T!Stepped \in Seq(T!Frames) /\ DOMAIN T!Stepped = DOMAIN stack
      /\ \A i \in DOMAIN stack : T!Stepped[i].node = stack[i].node
      /\ T!Stepped[k].rest = r
      /\ \A i \in DOMAIN stack : i # k => T!Stepped[i].rest = stack[i].rest
  BY <1>1, <1>2, SteppedStack
<1>5. Rooted' = Rooted /\ Edges' = Edges /\ T!Reached' = T!Reached /\ Source' = Source
  BY <1>1, InputRests DEF Source
<1>6. SourceListed /\ SourceListed'
  BY <1>1, <1>5 DEF ListsInv, SourceListed
<1>7. \A m : ~Before(Source, m, m)
  BY <1>2, <1>6, SourceHolds, BeforeOrders
<1>8. /\ \A u : In(rest, u) <=> u = t \/ In(r, u)
      /\ Sorted(Source, r) /\ \A u : In(r, u) => Before(Source, t, u)
  BY <1>1, <1>3, Building, FirstIn
<1> HIDE DEF n, rest, t, r, k
<1>9. /\ phase' = phase /\ stack' # <<>>
      /\ \A i \in DOMAIN stack : i \in DOMAIN stack' /\ stack'[i].node = stack[i].node
      /\ stack'[k].rest = r
      /\ \A i \in DOMAIN stack : i # k => stack'[i].rest = stack[i].rest
      /\ T!Adopts(n, t) =>
           /\ DOMAIN stack' = 1 .. k + 1 /\ stack'[k + 1].node = t /\ stack'[k + 1].rest = list
      /\ ~T!Adopts(n, t) => DOMAIN stack' = DOMAIN stack /\ children' = children
  <2>1. CASE T!Adopts(n, t)
    <3>1. T!Push(T!Stepped, t, list)
      BY <1>1, <2>1
    <3>2. Len(T!Stepped) = k
      BY <1>3, <1>4
    <3>3. /\ phase' = phase /\ stack' \in Seq(T!Frames) /\ DOMAIN stack' = 1 .. k + 1
          /\ stack'[k + 1].node = t /\ stack'[k + 1].rest = list
          /\ \A i \in 1 .. k : stack'[i] = T!Stepped[i]
      BY <1>2, <1>3, <1>4, <3>1, <3>2, Pushed
    <3>4. 1 .. k \subseteq 1 .. k + 1 /\ stack' # <<>>
      BY <1>3, <3>3
    <3> QED
      BY <1>3, <1>4, <2>1, <3>3, <3>4
  <2>2. CASE ~T!Adopts(n, t)
    BY <1>1, <1>3, <1>4, <2>2
  <2> QED
    BY <2>1, <2>2
<1>10. Sifted'
  BY <1>1, <1>5, <1>9, Building DEF Sifted
<1>11. /\ In(list, t) /\ t \notin Rooted
       /\ Visited(roots, todo, children, n)
       /\ \A c \in Nodes : In(children[n], c) => Before(Source, c, t)
  BY <1>1, <1>3, <1>8, Building
<1>12. CASE T!Adopts(n, t)
  <2>1. <<n, t>> \in Edges
    BY <1>3, <1>11, <1>12 DEF T!Adopts, Edges
  <2>2. \A m \in Nodes : ~In(children[m], t)
    <3> SUFFICES ASSUME NEW m \in Nodes, In(children[m], t) PROVE FALSE
      OBVIOUS
    <3>1. <<m, t>> \in Edges
      BY <1>1, <1>3, Building
    <3>2. m = n
      BY <2>1, <3>1, OneParent
    <3> QED
      BY <1>3, <1>7, <1>11, <3>2
  <2>3. ~Visited(roots, todo, children, t)
    BY <1>1, <1>3, <1>11, <2>2, Building DEF Visited
  <2>4. /\ \A c \in Nodes : ~In(children[t], c)
        /\ \A i \in DOMAIN stack : stack[i].node # t
    <3>1. \A c \in Nodes : In(children[t], c) => Visited(roots, todo, children, t)
      BY <1>1, <1>3, Building
    <3>2. \A i \in DOMAIN stack : Visited(roots, todo, children, stack[i].node)
      BY <1>1, Building
    <3> QED
      BY <2>3, <3>1, <3>2
  <2>5. n # t
    BY <1>11, <2>3
  <2>6. /\ \A m \in Nodes : m # n => children'[m] = children[m]
        /\ \A c : In(children'[n], c) <=> In(children[n], c) \/ c = t
        /\ Sorted(Source, children'[n])
    <3>1. children \in [Nodes -> Seq(Nodes)]
      BY <1>2 DEF TreeTypes
    <3>2. /\ \A m \in Nodes : m # n => children'[m] = children[m]
          /\ children'[n] = Append(children[n], t)
      BY <1>1, <1>3, <1>12, <3>1
    <3>3. /\ \A c : In(Append(children[n], t), c) <=> In(children[n], c) \/ c = t
          /\ Sorted(Source, Append(children[n], t))
      <4>1. children[n] \in Seq(Nodes) /\ Sorted(Source, children[n])
        BY <1>1, <1>3, <3>1, Building
      <4> QED
        BY <1>3, <1>11, <4>1, LastIn
    <3> QED
      BY <3>2, <3>3
  <2>7. \A m \in Nodes : Visited(roots', todo', children', m) <=>
          m = t \/ Visited(roots, todo, children, m)
    <3>1. \A m \in Nodes : (\E l \in Nodes : In(children'[l], m)) <=>
            m = t \/ \E l \in Nodes : In(children[l], m)
      BY <1>3, <2>6
    <3> QED
      BY <1>1, <3>1 DEF Visited
  <2>8. k + 1 \in DOMAIN stack' /\ \A i \in DOMAIN stack' : i \in DOMAIN stack \/ i = k + 1
    BY <1>3, <1>9, <1>12
  <2>9. Grown'
    <3> SUFFICES ASSUME NEW m \in Nodes
                 PROVE
          /\ Sorted(Source, children'[m])
          /\ \A c \in Nodes : In(children'[m], c) =>
               Visited(roots', todo', children', m) /\ <<m, c>> \in Edges /\ In(list, c)
          /\ Visited(roots', todo', children', m) => \A c \in Nodes : In(list, c) /\ <<m, c>> \in Edges =>
               In(children'[m], c) \/ \E i \in DOMAIN stack' : stack'[i].node = m /\ In(stack'[i].rest, c)
      BY <1>1, <1>5 DEF Grown
    <3>1. Sorted(Source, children'[m])
      BY <1>1, <2>6, Building
    <3>2. ASSUME NEW c \in Nodes, In(children'[m], c)
          PROVE  Visited(roots', todo', children', m) /\ <<m, c>> \in Edges /\ In(list, c)
      <4>1. CASE m = n /\ c = t
        BY <1>3, <1>11, <2>1, <2>7, <4>1
      <4>2. CASE ~(m = n /\ c = t)
        <5>1. In(children[m], c)
          BY <2>6, <3>2, <4>2
        <5> QED
          BY <1>1, <2>7, <5>1, Building
      <4> QED
        BY <4>1, <4>2
    <3>3. ASSUME Visited(roots', todo', children', m),
                 NEW c \in Nodes, In(list, c), <<m, c>> \in Edges
          PROVE  In(children'[m], c) \/ \E i \in DOMAIN stack' : stack'[i].node = m /\ In(stack'[i].rest, c)
      <4>1. CASE m = t
        BY <1>9, <1>12, <2>8, <3>3, <4>1
      <4>2. CASE m # t
        <5>1. Visited(roots, todo, children, m)
          BY <2>7, <3>3, <4>2
        <5>2. In(children[m], c) \/ \E i \in DOMAIN stack : stack[i].node = m /\ In(stack[i].rest, c)
          BY <1>1, <3>3, <5>1, Building
        <5>3. CASE In(children[m], c)
          BY <2>6, <5>3
        <5>4. ASSUME NEW i \in DOMAIN stack, stack[i].node = m, In(stack[i].rest, c)
              PROVE  In(children'[m], c) \/ \E j \in DOMAIN stack' : stack'[j].node = m /\ In(stack'[j].rest, c)
          <6>1. CASE i # k
            BY <1>9, <5>4, <6>1
          <6>2. CASE i = k
            <7>1. m = n /\ (c = t \/ In(r, c))
              BY <1>3, <1>8, <5>4, <6>2
            <7> QED
              BY <1>3, <1>9, <2>6, <5>4, <6>2, <7>1
          <6> QED
            BY <6>1, <6>2
        <5> QED
          BY <5>2, <5>3, <5>4
      <4> QED
        BY <4>1, <4>2
    <3> QED
      BY <3>1, <3>2, <3>3
  <2>10. Growing'
    <3> SUFFICES
          /\ \A i, j \in DOMAIN stack' : i # j => stack'[i].node # stack'[j].node
          /\ \A i \in DOMAIN stack' :
               /\ Visited(roots', todo', children', stack'[i].node) /\ Sorted(Source, stack'[i].rest)
               /\ \A u \in Nodes : In(stack'[i].rest, u) =>
                    /\ In(list, u)
                    /\ \A c \in Nodes : In(children'[stack'[i].node], c) => Before(Source, c, u)
      BY <1>1, <1>5 DEF Growing
    <3>1. ASSUME NEW i \in DOMAIN stack', NEW j \in DOMAIN stack', i # j
          PROVE  stack'[i].node # stack'[j].node
      <4>1. \A a, b \in DOMAIN stack : a # b => stack[a].node # stack[b].node
        BY <1>1, Building
      <4> QED
        BY <1>9, <1>12, <2>4, <2>8, <3>1, <4>1
    <3>2. ASSUME NEW i \in DOMAIN stack'
          PROVE  /\ Visited(roots', todo', children', stack'[i].node) /\ Sorted(Source, stack'[i].rest)
                 /\ \A u \in Nodes : In(stack'[i].rest, u) =>
                      /\ In(list, u)
                      /\ \A c \in Nodes : In(children'[stack'[i].node], c) => Before(Source, c, u)
      <4>1. CASE i = k + 1
        <5>1. stack'[i].node = t /\ stack'[i].rest = list /\ children'[t] = children[t]
          BY <1>3, <1>9, <1>12, <2>5, <2>6, <4>1
        <5>2. Sorted(Source, list) /\ Visited(roots', todo', children', t)
          BY <1>1, <1>3, <2>7, Building
        <5> QED
          BY <2>4, <5>1, <5>2
      <4>2. CASE i = k
        <5>1. stack'[i].node = n /\ stack'[i].rest = r
          BY <1>3, <1>9, <4>2
        <5>2. Visited(roots', todo', children', n)
          BY <1>3, <1>11, <2>7
        <5>3. \A u \in Nodes : In(r, u) => In(list, u) /\
                \A c \in Nodes : In(children[n], c) => Before(Source, c, u)
          BY <1>1, <1>3, <1>8, Building
        <5> QED
          BY <1>8, <2>6, <5>1, <5>2, <5>3
      <4>3. CASE i # k /\ i # k + 1
        <5>1. i \in DOMAIN stack /\ stack'[i].node = stack[i].node /\ stack'[i].rest = stack[i].rest
          BY <1>9, <2>8, <4>3
        <5>2. stack[i].node # n /\ stack[i].node \in Nodes
          <6>1. stack[i].node # n
            BY <1>1, <1>3, <4>3, <5>1, Building
          <6>2. stack \in Seq(T!Frames)
            BY <1>2 DEF TreeTypes
          <6>3. stack[i] \in T!Frames
            BY <5>1, <6>2
          <6> QED
            BY <6>1, <6>3 DEF T!Frames
        <5>3. children'[stack[i].node] = children[stack[i].node]
          BY <2>6, <5>2
        <5>4. Visited(roots', todo', children', stack[i].node)
          BY <1>1, <2>7, <5>1, <5>2, Building
        <5> QED
          BY <1>1, <5>1, <5>3, <5>4, Building
      <4> QED
        BY <4>1, <4>2, <4>3
    <3> QED
      BY <3>1, <3>2
  <2> QED
    BY <1>1, <1>6, <1>9, <1>10, <2>9, <2>10
       DEF ListsInv, Sifting, Standing, Felled, Felling, Ended
<1>13. CASE ~T!Adopts(n, t)
  <2>1. children' = children /\ DOMAIN stack' = DOMAIN stack
    BY <1>9, <1>13
  <2>2. <<n, t>> \in Edges => In(children[n], t)
    <3> SUFFICES ASSUME <<n, t>> \in Edges PROVE In(children[n], t)
      OBVIOUS
    <3>1. nid[n] = pid[t]
      BY DEF Edges
    <3>2. PICK i \in DOMAIN children[n] : nid[children[n][i]] = nid[t]
      BY <1>13, <3>1 DEF T!Adopts, T!HasChild
    <3>3. children[n][i] \in Nodes
      BY <1>2, <1>3, <3>2 DEF TreeTypes
    <3>4. children[n][i] = t
      BY <1>3, <3>2, <3>3 DEF T!UniqueIds
    <3> QED
      BY <3>2, <3>4 DEF In
  <2>3. \A m \in Nodes : Visited(roots', todo', children', m) <=> Visited(roots, todo, children, m)
    BY <1>1, <2>1
  <2>4. Grown'
    <3> SUFFICES ASSUME NEW m \in Nodes, Visited(roots, todo, children, m),
                        NEW c \in Nodes, In(list, c), <<m, c>> \in Edges
                 PROVE  In(children[m], c) \/ \E i \in DOMAIN stack' : stack'[i].node = m /\ In(stack'[i].rest, c)
      BY <1>1, <1>5, <2>1, <2>3, Building DEF Grown
    <3>1. In(children[m], c) \/ \E i \in DOMAIN stack : stack[i].node = m /\ In(stack[i].rest, c)
      BY <1>1, Building
    <3>2. ASSUME NEW i \in DOMAIN stack, stack[i].node = m, In(stack[i].rest, c)
          PROVE  In(children[m], c) \/ \E j \in DOMAIN stack' : stack'[j].node = m /\ In(stack'[j].rest, c)
      <4>1. CASE i # k
        BY <1>9, <3>2, <4>1
      <4>2. CASE i = k
        <5>1. m = n /\ (c = t \/ In(r, c))
          BY <1>3, <1>8, <3>2, <4>2
        <5> QED
          BY <1>3, <1>9, <2>2, <3>2, <4>2, <5>1
      <4> QED
        BY <4>1, <4>2
    <3> QED
      BY <3>1, <3>2
  <2>5. Growing'
    <3> SUFFICES
          /\ \A i, j \in DOMAIN stack' : i # j => stack'[i].node # stack'[j].node
          /\ \A i \in DOMAIN stack' :
               /\ Visited(roots, todo, children, stack'[i].node) /\ Sorted(Source, stack'[i].rest)
               /\ \A u \in Nodes : In(stack'[i].rest, u) =>
                    /\ In(list, u)
                    /\ \A c \in Nodes : In(children[stack'[i].node], c) => Before(Source, c, u)
      BY <1>1, <1>5, <2>1 DEF Growing
    <3>1. \A i, j \in DOMAIN stack' : i # j => stack'[i].node # stack'[j].node
      BY <1>1, <1>9, <2>1, Building
    <3>2. \A i \in DOMAIN stack' : Sorted(Source, stack'[i].rest) /\
            \A u : In(stack'[i].rest, u) => In(stack[i].rest, u)
      BY <1>1, <1>3, <1>8, <1>9, <2>1, Building
    <3> QED
      BY <1>1, <1>9, <2>1, <3>1, <3>2, Building
  <2> QED
    BY <1>1, <1>6, <1>9, <1>10, <2>4, <2>5
       DEF ListsInv, Sifting, Standing, Felled, Felling, Ended
<1> QED
  BY <1>12, <1>13

\* A call that ends has nothing left to look at.
LEMMA ReturnLists ==
  ASSUME TreeInv, ListsInv, T!UniqueIds, T!Return
  PROVE  ListsInv'
<1> DEFINE k == Len(stack)
<1>1. /\ stack # <<>> /\ T!Top.rest = <<>> /\ phase \in {"build", "flatten"}
      /\ stack' = T!Front(stack)
      /\ UNCHANGED <<nid, pid, children, list, roots, todo, out, first, phase>>
  BY DEF T!Return, T!input
<1>2. /\ DOMAIN stack' = 1 .. k - 1 /\ DOMAIN stack = 1 .. k /\ k \in DOMAIN stack
      /\ \A i \in DOMAIN stack' : i \in DOMAIN stack /\ stack'[i] = stack[i]
      /\ \A i \in DOMAIN stack : i \in DOMAIN stack' \/ i = k
  <2>1. stack \in Seq(T!Frames) /\ k \in Nat /\ k > 0 /\ DOMAIN stack = 1 .. k
    BY <1>1 DEF TreeInv, TreeTypes
  <2>2. DOMAIN stack' = 1 .. k - 1 /\ \A i \in DOMAIN stack' : i \in DOMAIN stack /\ stack'[i] = stack[i]
    BY <1>1, <2>1 DEF T!Front
  <2> QED
    BY <2>1, <2>2
<1>3. \A t : ~In(stack[k].rest, t)
  <2>1. stack[k].rest = <<>>
    BY <1>1, TopOfStack DEF TreeInv
  <2> QED
    BY <2>1, NoneIn
<1> HIDE DEF k
<1>4. Rooted' = Rooted /\ Edges' = Edges /\ T!Reached' = T!Reached /\ Source' = Source
  BY <1>1, InputRests DEF Source
<1>5. SourceListed'
  BY <1>1, <1>4 DEF ListsInv, SourceListed
<1>6. CASE phase = "build"
  <2>1. Sifted'
    BY <1>1, <1>4, <1>6, Building DEF Sifted
  <2>2. Grown'
    <3> SUFFICES ASSUME NEW m \in Nodes, Visited(roots, todo, children, m),
                        NEW c \in Nodes, In(list, c), <<m, c>> \in Edges
                 PROVE  In(children[m], c) \/ \E i \in DOMAIN stack' : stack'[i].node = m /\ In(stack'[i].rest, c)
      BY <1>1, <1>4, <1>6, Building DEF Grown
    <3>1. In(children[m], c) \/ \E i \in DOMAIN stack : stack[i].node = m /\ In(stack[i].rest, c)
      BY <1>6, Building
    <3> QED
      BY <1>2, <1>3, <3>1
  <2>3. Growing'
    <3> SUFFICES
          /\ \A i, j \in DOMAIN stack' : i # j => stack'[i].node # stack'[j].node
          /\ \A i \in DOMAIN stack' :
               /\ Visited(roots, todo, children, stack'[i].node) /\ Sorted(Source, stack'[i].rest)
               /\ \A u \in Nodes : In(stack'[i].rest, u) =>
                    /\ In(list, u)
                    /\ \A c \in Nodes : In(children[stack'[i].node], c) => Before(Source, c, u)
      BY <1>1, <1>4, <1>6 DEF Growing
    <3> QED
      BY <1>2, <1>6, Building
  <2> QED
    BY <1>1, <1>5, <1>6, <2>1, <2>2, <2>3
       DEF ListsInv, Sifting, Standing, Felled, Felling, Ended
<1>7. CASE phase = "flatten"
  <2>1. Standing /\ Felled /\ Felling
    BY <1>7 DEF ListsInv
  <2>2. Felled'
    BY <1>1, <1>4, <1>7, <2>1 DEF Felled
  <2>3. Standing'
    <3>1. \A n : (\E i \in DOMAIN stack : In(stack[i].rest, n)) =>
            \E i \in DOMAIN stack' : In(stack'[i].rest, n)
      BY <1>2, <1>3
    <3> QED
      BY <1>1, <1>4, <1>7, <2>1, <3>1 DEF Standing
  <2>4. Felling'
    <3> SUFFICES
        /\ \A i \in DOMAIN stack' :
             /\ In(out, stack'[i].node) /\ Sorted(Source, stack'[i].rest)
             /\ \A t \in Nodes : In(stack'[i].rest, t) => <<stack'[i].node, t>> \in Edges /\ ~In(out, t)
             /\ \A p \in DOMAIN out : out[p] = stack'[i].node =>
                  \A l \in p + 1 .. Len(out) : Inside(Edges, out, p, l)
        /\ \A i, j \in DOMAIN stack' : i < j => Before(out, stack'[i].node, stack'[j].node)
      BY <1>1, <1>4, <1>7 DEF Felling
    <3> QED
      BY <1>2, <1>7, <2>1 DEF Felling
  <2> QED
    BY <1>1, <1>5, <1>7, <2>2, <2>3, <2>4
       DEF ListsInv, Sifting, Sifted, Grown, Growing, Ended
<1> QED
  BY <1>1, <1>6, <1>7

\* The trees are built: every node that is reached is a root or a child.
LEMMA BuiltLists ==
  ASSUME TreeInv, ListsInv, T!UniqueIds, T!Built
  PROVE  ListsInv'
<1>1. /\ phase = "build" /\ stack = <<>> /\ todo = <<>> /\ phase' = "flatten" /\ todo' = roots
      /\ UNCHANGED <<nid, pid, children, list, roots, stack, out, first>>
  BY DEF T!Built, T!input
<1>2. Rooted' = Rooted /\ Edges' = Edges /\ T!Reached' = T!Reached /\ Source' = Source
  BY <1>1, InputRests DEF Source
<1>3. SourceListed /\ SourceListed'
  BY <1>1, <1>2 DEF ListsInv, SourceListed
<1>4. DOMAIN stack = {} /\ DOMAIN stack' = {} /\ out = <<>> /\ DOMAIN out = {} /\ Len(out) = 0
      /\ (\A n : ~In(todo, n)) /\ \A n : ~In(out, n)
  BY <1>1, NoneIn, Building
<1>5. \A n \in T!Reached : In(Source, n)
  BY <1>3, SourceHolds DEF TreeInv
<1> DEFINE S == {n \in Nodes : n \in T!Reached /\ (In(roots, n) \/ \E m \in Nodes : In(children[m], n))}
<1>6. T!Reached \subseteq S
  <2>1. Rooted \subseteq S
    <3> SUFFICES ASSUME NEW n \in Rooted PROVE n \in S
      OBVIOUS
    <3>1. n \in T!Reached /\ n \in Nodes
      BY ReachedHangs
    <3> QED
      BY <1>1, <1>5, <3>1, Building
  <2>2. ASSUME NEW m \in Nodes, NEW n \in Nodes, m \in S, <<m, n>> \in Edges PROVE n \in S
    <3>1. n \in T!Reached /\ n \notin Rooted
      BY <2>2, ReachedHangs, EdgeNodes
    <3>2. In(list, n)
      BY <1>1, <1>5, <3>1, Building
    <3>3. Visited(roots, todo, children, m)
      BY <1>4, <2>2 DEF Visited
    <3>4. In(children[m], n)
      BY <1>1, <1>4, <2>2, <3>2, <3>3, Building
    <3> QED
      BY <3>1, <3>4
  <2>3. S \in SUBSET Nodes
    OBVIOUS
  <2> HIDE DEF S
  <2> QED
    BY <2>1, <2>2, <2>3, ReachedHangs
<1>7. Standing'
  <2> SUFFICES
    /\ Sorted(Source, roots)
    /\ \A n \in Nodes : In(roots, n) => n \in Rooted /\ ~In(out, n)
    /\ \A n \in Nodes : Sorted(Source, children[n]) /\ (In(out, n) => children[n] = <<>>)
    /\ \A n, t \in Nodes : In(children[n], t) => <<n, t>> \in Edges
    /\ \A n \in Nodes : n \in T!Reached =>
         In(roots, n) \/ \E m \in Nodes : In(children[m], n)
    BY <1>1, <1>2 DEF Standing
  <2>1. \A n \in Nodes : n \in T!Reached => In(roots, n) \/ \E m \in Nodes : In(children[m], n)
    BY <1>6
  <2> QED
    BY <1>1, <1>4, <2>1, Building
<1>8. Felled'
  <2>1. Once(out) /\ AfterParents(Rooted, Edges, out) /\ Nested(Edges, out)
    BY <1>4 DEF Once, AfterParents, Nested
  <2>2. Len(first) \in Nat
    BY DEF TreeInv, TreeTypes
  <2> QED
    BY <1>1, <1>2, <1>4, <2>1, <2>2 DEF Felled
<1>9. Felling'
  BY <1>1, <1>4 DEF Felling
<1> QED
  BY <1>1, <1>3, <1>7, <1>8, <1>9 DEF ListsInv, Sifting, Sifted, Grown, Growing, Ended

\* A list goes on after its parents, and inside the trees, when what is added hangs
\* on something that everything after it hangs on.
LEMMA Extended ==
  ASSUME NEW s \in Seq(Nodes), NEW x \in Nodes, NEW R, NEW G, ~In(s, x)
  PROVE  /\ \A n : In(Append(s, x), n) <=> In(s, n) \/ n = x
         /\ Once(s) => Once(Append(s, x))
         /\ \A m, n : Before(s, m, n) => Before(Append(s, x), m, n)
         /\ \A m : In(s, m) => Before(Append(s, x), m, x)
         /\ \A p, i \in DOMAIN s : Inside(G, s, p, i) => Inside(G, Append(s, x), p, i)
         /\ \A p, q \in DOMAIN s : p <= q /\ <<s[q], x>> \in G =>
              Inside(G, Append(s, x), p, Len(s) + 1)
         /\ AfterParents(R, G, s) /\ (x \in R \/ \E m : In(s, m) /\ <<m, x>> \in G) =>
              AfterParents(R, G, Append(s, x))
         /\ Nested(G, s) /\ (\A p \in DOMAIN s : <<s[p], x>> \in G =>
                               \A i \in p + 1 .. Len(s) : Inside(G, s, p, i)) =>
              Nested(G, Append(s, x))
<1> DEFINE r == Append(s, x)
           k == Len(s) + 1
<1>1. /\ Len(s) \in Nat /\ DOMAIN s = 1 .. Len(s) /\ DOMAIN r = 1 .. k /\ r[k] = x
      /\ \A i \in DOMAIN s : r[i] = s[i] /\ i \in DOMAIN r /\ i < k /\ i \in Nat
      /\ k \in DOMAIN r /\ k \in Nat
      /\ \A i \in DOMAIN r : i \in Nat /\ (i \in DOMAIN s \/ i = k)
  OBVIOUS
<1>2. k \notin DOMAIN s /\ k = Len(s) + 1
  BY <1>1
<1> HIDE DEF r, k
<1>3. \A i \in DOMAIN s : s[i] # x
  BY DEF In
<1>4. \A n : In(r, n) <=> In(s, n) \/ n = x
  BY <1>1 DEF In
<1>5. Once(s) => Once(r)
  BY <1>1, <1>2, <1>3 DEF Once
<1>6. \A m, n : Before(s, m, n) => Before(r, m, n)
  BY <1>1 DEF Before
<1>7. \A m : In(s, m) => Before(r, m, x)
  BY <1>1 DEF In, Before
<1>8. ASSUME NEW p \in DOMAIN s, NEW i \in DOMAIN s, Inside(G, s, p, i) PROVE Inside(G, r, p, i)
  <2>1. PICK q \in p .. i - 1 : <<s[q], s[i]>> \in G
    BY <1>8 DEF Inside
  <2>2. q \in DOMAIN s
    BY <1>1, <2>1
  <2> QED
    BY <1>1, <2>1, <2>2 DEF Inside
<1>9. ASSUME NEW p \in DOMAIN s, NEW q \in DOMAIN s, p <= q, <<s[q], x>> \in G
      PROVE  Inside(G, r, p, k)
  <2>1. q \in p .. k - 1
    BY <1>1, <1>2, <1>9
  <2> QED
    BY <1>1, <1>9, <2>1 DEF Inside
<1>10. ASSUME AfterParents(R, G, s), x \in R \/ \E m : In(s, m) /\ <<m, x>> \in G
       PROVE  AfterParents(R, G, r)
  <2> SUFFICES ASSUME NEW j \in DOMAIN r, r[j] \notin R
               PROVE  \E i \in 1 .. j - 1 : <<r[i], r[j]>> \in G
    BY DEF AfterParents
  <2>1. CASE j = k
    <3>1. PICK i \in DOMAIN s : <<s[i], x>> \in G
      BY <1>1, <1>10, <2>1 DEF In
    <3>2. i \in 1 .. j - 1
      BY <1>1, <1>2, <2>1
    <3> QED
      BY <1>1, <2>1, <3>1, <3>2
  <2>2. CASE j # k
    <3>1. j \in DOMAIN s /\ r[j] = s[j]
      BY <1>1, <2>2
    <3>2. PICK i \in 1 .. j - 1 : <<s[i], s[j]>> \in G
      BY <1>10, <3>1 DEF AfterParents
    <3>3. i \in DOMAIN s
      BY <1>1, <3>1, <3>2
    <3> QED
      BY <1>1, <3>1, <3>2, <3>3
  <2> QED
    BY <2>1, <2>2
<1>11. ASSUME Nested(G, s),
              \A p \in DOMAIN s : <<s[p], x>> \in G => \A i \in p + 1 .. Len(s) : Inside(G, s, p, i)
       PROVE  Nested(G, r)
  <2> SUFFICES ASSUME NEW p \in DOMAIN r, NEW i \in DOMAIN r, NEW j \in DOMAIN r,
                      p < i, i < j, <<r[p], r[j]>> \in G
               PROVE  Inside(G, r, p, i)
    BY DEF Nested
  <2>1. p \in DOMAIN s /\ i \in DOMAIN s /\ r[p] = s[p] /\ r[i] = s[i]
    BY <1>1, <1>2
  <2>2. Inside(G, s, p, i)
    <3>1. CASE j = k
      <4>1. <<s[p], x>> \in G
        BY <1>1, <2>1, <3>1
      <4>2. i \in p + 1 .. Len(s)
        BY <1>1, <2>1
      <4> QED
        BY <1>11, <2>1, <4>1, <4>2
    <3>2. CASE j # k
      <4>1. j \in DOMAIN s /\ r[j] = s[j]
        BY <1>1, <3>2
      <4> QED
        BY <1>11, <2>1, <4>1 DEF Nested
    <3> QED
      BY <3>1, <3>2
  <2> QED
    BY <1>8, <2>1, <2>2
<1> QED
  BY <1>4, <1>5, <1>6, <1>7, <1>8, <1>9, <1>10, <1>11, <1>2 DEF r

\* What is known while trees are taken apart.
LEMMA Taking ==
  ASSUME TreeInv, ListsInv, T!UniqueIds, phase = "flatten"
  PROVE  /\ SourceListed /\ Standing /\ Felled /\ Felling
         /\ Source \in Seq(Nodes) /\ Once(Source) /\ \A n \in T!Reached : In(Source, n)
         /\ \A m : ~Before(Source, m, m)
         /\ \A m, n, l : Before(Source, m, n) /\ Before(Source, n, l) => Before(Source, m, l)
<1>1. SourceListed /\ Standing /\ Felled /\ Felling
  BY DEF ListsInv
<1> QED
  BY <1>1, SourceHolds, BeforeOrders DEF TreeInv

\* A node that nothing is left to be done for but to put it out.
Due(x, calls) ==
  /\ x \in T!Reached /\ ~In(out, x)
  /\ Sorted(Source, todo') /\ \A n \in Nodes : In(todo', n) => In(todo, n) /\ n # x
  /\ \A n \in Nodes : In(todo, n) => n = x \/ In(todo', n)
  /\ DOMAIN calls = DOMAIN stack
  /\ \A i \in DOMAIN stack :
       /\ calls[i].node = stack[i].node /\ Sorted(Source, calls[i].rest)
       /\ \A t \in Nodes : In(calls[i].rest, t) => In(stack[i].rest, t) /\ t # x
       /\ \A t \in Nodes : In(stack[i].rest, t) => t = x \/ In(calls[i].rest, t)
  /\ \/ x \in Rooted /\ stack = <<>>
     \/ stack # <<>> /\ <<stack[Len(stack)].node, x>> \in Edges
  /\ first # <<>> => Len(out) + 1 \in DOMAIN first /\ first[Len(out) + 1] = x

\* Then all holds with it out and its children on the stack.
LEMMA TakenLists ==
  ASSUME TreeInv, ListsInv, T!UniqueIds, phase = "flatten", phase' # "overflow",
         NEW x \in Nodes, NEW calls \in Seq(T!Frames), T!TakeApart(x, calls), Due(x, calls),
         UNCHANGED <<nid, pid, first>>
  PROVE  ListsInv'
<1> DEFINE k == Len(stack)
           K == Len(out) + 1
<1>1. /\ out' = Append(out, x) /\ children' = [children EXCEPT ![x] = <<>>]
      /\ T!Push(calls, x, children[x])
  BY DEF T!TakeApart
<1>2. Rooted' = Rooted /\ Edges' = Edges /\ T!Reached' = T!Reached /\ Source' = Source
  BY InputRests DEF Source
<1>3. /\ out \in Seq(Nodes) /\ children \in [Nodes -> Seq(Nodes)] /\ children[x] \in Seq(Nodes)
      /\ stack \in Seq(T!Frames) /\ DOMAIN stack = 1 .. k /\ k \in Nat
      /\ Len(first) \in Nat /\ DOMAIN first = 1 .. Len(first)
  BY DEF TreeInv, TreeTypes
<1>4. /\ Len(out) \in Nat /\ DOMAIN out = 1 .. Len(out) /\ DOMAIN out' = 1 .. K /\ Len(out') = K
      /\ out'[K] = x /\ \A i \in DOMAIN out : out'[i] = out[i]
  BY <1>1, <1>3
<1>5. /\ children'[x] = <<>> /\ \A m \in Nodes : m # x => children'[m] = children[m]
  BY <1>1, <1>3
<1>6. /\ phase' = phase /\ DOMAIN stack' = 1 .. k + 1
      /\ stack'[k + 1].node = x /\ stack'[k + 1].rest = children[x]
      /\ \A i \in DOMAIN stack : stack'[i] = calls[i]
  <2>1. Len(calls) = k
    BY <1>3 DEF Due
  <2> QED
    BY <1>1, <1>3, <2>1, Pushed
<1>7. /\ k + 1 \in DOMAIN stack' /\ \A i \in DOMAIN stack : i \in DOMAIN stack' /\ i < k + 1
      /\ \A i \in DOMAIN stack' : i \in DOMAIN stack \/ i = k + 1
  BY <1>3, <1>6
<1>8. /\ \A n : In(out', n) <=> In(out, n) \/ n = x
      /\ Once(out) => Once(out')
      /\ \A m, n : Before(out, m, n) => Before(out', m, n)
      /\ \A m : In(out, m) => Before(out', m, x)
      /\ \A p, i \in DOMAIN out : Inside(Edges, out, p, i) => Inside(Edges, out', p, i)
      /\ \A p, q \in DOMAIN out : p <= q /\ <<out[q], x>> \in Edges => Inside(Edges, out', p, K)
      /\ AfterParents(Rooted, Edges, out) /\ (x \in Rooted \/ \E m : In(out, m) /\ <<m, x>> \in Edges) =>
           AfterParents(Rooted, Edges, out')
      /\ Nested(Edges, out) /\ (\A p \in DOMAIN out : <<out[p], x>> \in Edges =>
                                  \A i \in p + 1 .. Len(out) : Inside(Edges, out, p, i)) =>
           Nested(Edges, out')
  <2>1. ~In(out, x)
    BY DEF Due
  <2> QED
    BY <1>1, <1>3, <2>1, Extended
<1>9. Standing /\ Felled /\ Felling
  BY Taking
<1>10. /\ \A n \in Nodes : In(todo, n) => n \in Rooted /\ ~In(out, n)
       /\ \A n \in Nodes : Sorted(Source, children[n]) /\ (In(out, n) => children[n] = <<>>)
       /\ \A n, t \in Nodes : In(children[n], t) => <<n, t>> \in Edges
       /\ \A n \in Nodes : n \in T!Reached =>
            \/ In(out, n) \/ In(todo, n)
            \/ \E m \in Nodes : In(children[m], n)
            \/ \E i \in DOMAIN stack : In(stack[i].rest, n)
  BY <1>9 DEF Standing
<1>11. /\ Once(out) /\ AfterParents(Rooted, Edges, out) /\ Nested(Edges, out)
       /\ \A n \in Nodes : In(out, n) => n \in T!Reached
       /\ first # <<>> => Len(out) <= Len(first) /\ \A i \in DOMAIN out : out[i] = first[i]
  BY <1>9 DEF Felled
<1>12. /\ \A i \in DOMAIN stack :
            /\ In(out, stack[i].node) /\ Sorted(Source, stack[i].rest)
            /\ \A t \in Nodes : In(stack[i].rest, t) => <<stack[i].node, t>> \in Edges /\ ~In(out, t)
            /\ \A p \in DOMAIN out : out[p] = stack[i].node =>
                 \A l \in p + 1 .. Len(out) : Inside(Edges, out, p, l)
       /\ \A i, j \in DOMAIN stack : i < j => Before(out, stack[i].node, stack[j].node)
  BY <1>9 DEF Felling
<1>13. stack # <<>> => k \in DOMAIN stack /\ In(out, stack[k].node) /\ <<stack[k].node, x>> \in Edges
  <2> SUFFICES ASSUME stack # <<>>
               PROVE  k \in DOMAIN stack /\ In(out, stack[k].node) /\ <<stack[k].node, x>> \in Edges
    OBVIOUS
  <2>1. k \in DOMAIN stack
    BY <1>3
  <2> QED
    BY <1>12, <2>1 DEF Due
<1> HIDE DEF k, K
<1>14. Standing'
  <2> SUFFICES
    /\ Sorted(Source, todo')
    /\ \A n \in Nodes : In(todo', n) => n \in Rooted /\ ~In(out', n)
    /\ \A n \in Nodes : Sorted(Source, children'[n]) /\ (In(out', n) => children'[n] = <<>>)
    /\ \A n, t \in Nodes : In(children'[n], t) => <<n, t>> \in Edges
    /\ \A n \in Nodes : n \in T!Reached =>
         \/ In(out', n) \/ In(todo', n)
         \/ \E m \in Nodes : In(children'[m], n)
         \/ \E i \in DOMAIN stack' : In(stack'[i].rest, n)
    BY <1>2 DEF Standing
  <2>1. Sorted(Source, todo') /\ \A n \in Nodes : In(todo', n) => n \in Rooted /\ ~In(out', n)
    BY <1>8, <1>10 DEF Due
  <2>2. \A n \in Nodes : Sorted(Source, children'[n]) /\ (In(out', n) => children'[n] = <<>>)
    BY <1>5, <1>8, <1>10, NoneIn
  <2>3. \A n, t \in Nodes : In(children'[n], t) => <<n, t>> \in Edges
    BY <1>5, <1>10, NoneIn
  <2>4. ASSUME NEW n \in Nodes, n \in T!Reached, ~In(out', n), ~In(todo', n),
               \A m \in Nodes : ~In(children'[m], n)
        PROVE  \E i \in DOMAIN stack' : In(stack'[i].rest, n)
    <3>1. ~In(out, n) /\ n # x
      BY <1>8, <2>4
    <3>2. ~In(todo, n)
      BY <2>4, <3>1 DEF Due
    <3>3. \/ In(children[x], n)
          \/ \E i \in DOMAIN stack : In(stack[i].rest, n)
      BY <1>5, <1>10, <2>4, <3>1, <3>2
    <3>4. \A i \in DOMAIN stack : In(stack[i].rest, n) => In(stack'[i].rest, n)
      BY <1>6, <3>1 DEF Due
    <3> QED
      BY <1>6, <1>7, <3>3, <3>4
  <2> QED
    BY <2>1, <2>2, <2>3, <2>4
<1>15. Felled'
  <2> SUFFICES
    /\ Once(out') /\ AfterParents(Rooted, Edges, out') /\ Nested(Edges, out')
    /\ \A n \in Nodes : In(out', n) => n \in T!Reached
    /\ first # <<>> => Len(out') <= Len(first) /\ \A i \in DOMAIN out' : out'[i] = first[i]
    BY <1>2 DEF Felled
  <2>1. x \in Rooted \/ \E m : In(out, m) /\ <<m, x>> \in Edges
    BY <1>13 DEF Due
  <2>2. ASSUME NEW p \in DOMAIN out, <<out[p], x>> \in Edges
        PROVE  \A i \in p + 1 .. Len(out) : Inside(Edges, out, p, i)
    <3>1. x \notin Rooted
      BY <2>2, EdgeNodes
    <3>2. stack # <<>>
      BY <3>1 DEF Due
    <3>3. out[p] = stack[k].node
      BY <1>13, <2>2, <3>2, OneParent
    <3> QED
      BY <1>12, <1>13, <3>2, <3>3
  <2>3. \A n \in Nodes : In(out', n) => n \in T!Reached
    BY <1>8, <1>11 DEF Due
  <2>4. ASSUME first # <<>> PROVE Len(out') <= Len(first) /\ \A i \in DOMAIN out' : out'[i] = first[i]
    <3>1. K \in DOMAIN first /\ first[K] = x
      BY <2>4 DEF Due, K
    <3>2. Len(out') <= Len(first)
      BY <1>3, <1>4, <3>1
    <3>3. \A i \in DOMAIN out' : i \in DOMAIN out \/ i = K
      BY <1>4 DEF K
    <3> QED
      BY <1>4, <1>11, <2>4, <3>1, <3>2, <3>3
  <2> QED
    BY <1>8, <1>11, <2>1, <2>2, <2>3, <2>4
<1>16. Felling'
  <2> SUFFICES
        /\ \A i \in DOMAIN stack' :
             /\ In(out', stack'[i].node) /\ Sorted(Source, stack'[i].rest)
             /\ \A t \in Nodes : In(stack'[i].rest, t) => <<stack'[i].node, t>> \in Edges /\ ~In(out', t)
             /\ \A p \in DOMAIN out' : out'[p] = stack'[i].node =>
                  \A l \in p + 1 .. Len(out') : Inside(Edges, out', p, l)
        /\ \A i, j \in DOMAIN stack' : i < j => Before(out', stack'[i].node, stack'[j].node)
    BY <1>2 DEF Felling
  <2>1. \A i \in DOMAIN stack :
          /\ stack'[i].node = stack[i].node /\ Sorted(Source, stack'[i].rest)
          /\ \A t \in Nodes : In(stack'[i].rest, t) => In(stack[i].rest, t) /\ t # x
    BY <1>6 DEF Due
  <2>2. ~In(out, x)
    BY DEF Due
  <2>3. ASSUME NEW i \in DOMAIN stack, NEW p \in DOMAIN out', out'[p] = stack[i].node,
               NEW l \in p + 1 .. Len(out')
        PROVE  Inside(Edges, out', p, l)
    <3>1. p \in DOMAIN out /\ out[p] = stack[i].node
      <4>1. p # K
        BY <1>4, <1>12, <2>2, <2>3
      <4> QED
        BY <1>4, <2>3, <4>1 DEF K
    <3>2. CASE l # K
      <4>1. l \in p + 1 .. Len(out) /\ l \in DOMAIN out
        BY <1>4, <3>1, <3>2 DEF K
      <4> QED
        BY <1>8, <1>12, <3>1, <4>1
    <3>3. CASE l = K
      <4>1. stack # <<>> /\ i <= k
        BY <1>3
      <4>2. \E q \in DOMAIN out : p <= q /\ out[q] = stack[k].node
        <5>1. CASE i = k
          BY <1>4, <3>1, <5>1
        <5>2. CASE i # k
          <6>1. i < k /\ k \in DOMAIN stack
            BY <1>3, <1>13, <4>1, <5>2
          <6>2. PICK a \in DOMAIN out, b \in DOMAIN out :
                  a < b /\ out[a] = stack[i].node /\ out[b] = stack[k].node
            BY <1>12, <6>1 DEF Before
          <6>3. a = p
            BY <1>11, <3>1, <6>2 DEF Once
          <6> QED
            BY <1>4, <6>2, <6>3
        <5> QED
          BY <5>1, <5>2
      <4> QED
        BY <1>8, <1>13, <3>1, <3>3, <4>1, <4>2
    <3> QED
      BY <3>2, <3>3
  <2>4. \A t \in Nodes : In(children[x], t) => <<x, t>> \in Edges /\ ~In(out', t)
    <3> SUFFICES ASSUME NEW t \in Nodes, In(children[x], t), In(out', t) PROVE FALSE
      BY <1>10
    <3>1. <<x, t>> \in Edges /\ t \notin Rooted
      BY <1>10, EdgeNodes
    <3>2. CASE In(out, t)
      <4>1. PICK j \in DOMAIN out : out[j] = t
        BY <3>2 DEF In
      <4>2. PICK i \in 1 .. j - 1 : <<out[i], t>> \in Edges
        BY <1>11, <3>1, <4>1 DEF AfterParents
      <4>3. i \in DOMAIN out
        BY <1>4, <4>2
      <4>4. out[i] = x
        BY <3>1, <4>2, OneParent
      <4> QED
        BY <2>2, <4>3, <4>4 DEF In
    <3>3. CASE t = x
      <4>1. stack # <<>>
        BY <3>1, <3>3 DEF Due
      <4>2. stack[k].node = x
        BY <1>13, <3>1, <3>3, <4>1, OneParent
      <4> QED
        BY <1>13, <2>2, <4>1, <4>2
    <3> QED
      BY <1>8, <3>2, <3>3
  <2>5. ASSUME NEW i \in DOMAIN stack'
        PROVE  /\ In(out', stack'[i].node) /\ Sorted(Source, stack'[i].rest)
               /\ \A t \in Nodes : In(stack'[i].rest, t) => <<stack'[i].node, t>> \in Edges /\ ~In(out', t)
               /\ \A p \in DOMAIN out' : out'[p] = stack'[i].node =>
                    \A l \in p + 1 .. Len(out') : Inside(Edges, out', p, l)
    <3>1. CASE i = k + 1
      <4>1. stack'[i].node = x /\ stack'[i].rest = children[x] /\ Sorted(Source, children[x])
        BY <1>6, <1>10, <3>1
      <4>2. ASSUME NEW p \in DOMAIN out', out'[p] = x PROVE p + 1 .. Len(out') = {}
        <5>1. p = K
          <6>1. p \in DOMAIN out => out[p] = x
            BY <1>4, <4>2
          <6>2. p \notin DOMAIN out
            BY <2>2, <6>1 DEF In
          <6> QED
            BY <1>4, <6>2 DEF K
        <5> QED
          BY <1>4, <5>1
      <4> QED
        BY <1>8, <2>4, <4>1, <4>2
    <3>2. CASE i # k + 1
      <4>1. i \in DOMAIN stack
        BY <1>7, <3>2
      <4>2. \A t \in Nodes : In(stack'[i].rest, t) => <<stack'[i].node, t>> \in Edges /\ ~In(out', t)
        BY <1>8, <1>12, <2>1, <4>1
      <4>3. \A p \in DOMAIN out' : out'[p] = stack'[i].node =>
              \A l \in p + 1 .. Len(out') : Inside(Edges, out', p, l)
        BY <2>1, <2>3, <4>1
      <4> QED
        BY <1>8, <1>12, <2>1, <4>1, <4>2, <4>3
    <3> QED
      BY <3>1, <3>2
  <2>6. ASSUME NEW i \in DOMAIN stack', NEW j \in DOMAIN stack', i < j
        PROVE  Before(out', stack'[i].node, stack'[j].node)
    <3>1. i \in DOMAIN stack
      BY <1>3, <1>6, <1>7, <2>6
    <3>2. CASE j = k + 1
      BY <1>6, <1>8, <1>12, <2>1, <3>1, <3>2
    <3>3. CASE j # k + 1
      BY <1>7, <1>8, <1>12, <2>1, <2>6, <3>1, <3>3
    <3> QED
      BY <3>2, <3>3
  <2> QED
    BY <2>5, <2>6
<1>17. SourceListed'
  BY <1>2, Taking DEF SourceListed
<1> QED
  BY <1>6, <1>14, <1>15, <1>16, <1>17 DEF ListsInv, Sifting, Sifted, Grown, Growing, Ended

\* In the second round the next node to come out is the next one of the first list:
\* were it a later one, that next one would wait with it in one list, or hang on a
\* node that comes before its parent.
LEMMA SameOrder ==
  ASSUME TreeInv, ListsInv, T!UniqueIds, phase = "flatten", first # <<>>,
         NEW x \in T!Reached, ~In(out, x),
         \/ stack = <<>> /\ \A y \in Nodes : In(todo, y) => y = x \/ Before(Source, x, y)
         \/ /\ stack # <<>> /\ In(stack[Len(stack)].rest, x)
            /\ \A y \in Nodes : In(stack[Len(stack)].rest, y) => y = x \/ Before(Source, x, y)
  PROVE  Len(out) + 1 \in DOMAIN first /\ first[Len(out) + 1] = x
<1> DEFINE k == Len(stack)
           K == Len(out) + 1
           y == first[K]
<1>1. /\ first \in Seq(Nodes) /\ DOMAIN first = 1 .. Len(first) /\ Len(first) \in Nat
      /\ Len(out) \in Nat /\ DOMAIN out = 1 .. Len(out) /\ Source = first
      /\ DOMAIN stack = 1 .. k /\ k \in Nat
  <2>1. stack \in Seq(T!Frames) /\ out \in Seq(Nodes) /\ first \in Seq(Nodes)
    BY DEF TreeInv, TreeTypes
  <2> QED
    BY <2>1 DEF Source
<1>2. /\ Once(first) /\ AfterParents(Rooted, Edges, first) /\ Nested(Edges, first)
      /\ \A n \in Nodes : n \in T!Reached <=> In(first, n)
  BY Taking DEF SourceListed, Listed
<1>3. Standing /\ Felled /\ Felling
  BY Taking
<1>4. Len(out) <= Len(first) /\ \A i \in DOMAIN out : out[i] = first[i]
  BY <1>3 DEF Felled
<1>5. PICK q \in DOMAIN first : first[q] = x
  <2>1. x \in Nodes
    BY ReachedHangs
  <2> QED
    BY <1>2, <2>1 DEF In
<1>6. q \notin DOMAIN out
  BY <1>4, <1>5 DEF In
<1>7. K \in DOMAIN first /\ K <= q
  BY <1>1, <1>5, <1>6
<1> SUFFICES ASSUME q # K PROVE FALSE
  BY <1>5, <1>7
<1>8. K < q
  BY <1>1, <1>7
<1>9. /\ y \in Nodes /\ y \in T!Reached
  BY <1>1, <1>2, <1>7 DEF In
<1> HIDE DEF k, y
<1>10. ~In(out, y)
  <2> SUFFICES ASSUME NEW i \in DOMAIN out, out[i] = y PROVE FALSE
    BY DEF In
  <2>1. first[i] = first[K] /\ i \in DOMAIN first /\ i # K
    BY <1>1, <1>4, <1>7 DEF y
  <2> QED
    BY <1>2, <1>7, <2>1 DEF Once
<1>11. y # x /\ ~Before(Source, x, y)
  <2>1. y # x
    BY <1>2, <1>5, <1>7 DEF Once, y
  <2>2. ASSUME Before(Source, x, y) PROVE FALSE
    <3>1. PICK a \in DOMAIN first, b \in DOMAIN first : a < b /\ first[a] = x /\ first[b] = y
      BY <1>1, <2>2 DEF Before
    <3>2. a = q /\ b = K
      BY <1>2, <1>5, <1>7, <3>1 DEF Once, y
    <3> QED
      BY <1>1, <1>8, <3>1, <3>2
  <2> QED
    BY <2>1, <2>2
<1>12. y \in Rooted \/ \E p \in DOMAIN out : <<out[p], y>> \in Edges
  <2> SUFFICES ASSUME y \notin Rooted PROVE \E p \in DOMAIN out : <<out[p], y>> \in Edges
    OBVIOUS
  <2>1. PICK p \in 1 .. K - 1 : <<first[p], y>> \in Edges
    BY <1>2, <1>7 DEF AfterParents, y
  <2>2. p \in DOMAIN out
    BY <1>1, <2>1
  <2> QED
    BY <1>4, <2>1, <2>2
<1>13. \A m \in Nodes : ~In(children[m], y)
  <2> SUFFICES ASSUME NEW m \in Nodes, In(children[m], y) PROVE FALSE
    OBVIOUS
  <2>1. <<m, y>> \in Edges /\ y \notin Rooted
    BY <1>3, <1>9, EdgeNodes DEF Standing
  <2>2. PICK p \in DOMAIN out : <<out[p], y>> \in Edges
    BY <1>12, <2>1
  <2>3. out[p] = m
    BY <2>1, <2>2, OneParent
  <2>4. children[m] = <<>>
    BY <1>3, <2>3 DEF Standing, In
  <2> QED
    BY <2>4, NoneIn
<1>14. In(todo, y) \/ \E i \in DOMAIN stack : In(stack[i].rest, y)
  BY <1>3, <1>9, <1>10, <1>13 DEF Standing
<1>15. CASE stack = <<>> /\ \A z \in Nodes : In(todo, z) => z = x \/ Before(Source, x, z)
  <2>1. DOMAIN stack = {}
    BY <1>15
  <2> QED
    BY <1>9, <1>11, <1>14, <1>15, <2>1
<1>16. CASE /\ stack # <<>> /\ In(stack[Len(stack)].rest, x)
            /\ \A z \in Nodes : In(stack[Len(stack)].rest, z) => z = x \/ Before(Source, x, z)
  <2>1. k \in DOMAIN stack /\ x \in Nodes
    BY <1>1, <1>16, ReachedHangs
  <2>2. In(out, stack[k].node) /\ <<stack[k].node, x>> \in Edges
    BY <1>3, <1>16, <2>1 DEF Felling, k
  <2>3. PICK p \in DOMAIN out : out[p] = stack[k].node
    BY <2>2 DEF In
  <2>4. p \in DOMAIN first /\ p < K /\ <<first[p], first[q]>> \in Edges
    <3>1. p \in DOMAIN first /\ p < K /\ first[p] = out[p]
      BY <1>1, <1>4
    <3>2. first[p] = stack[k].node
      BY <2>3, <3>1
    <3> QED
      BY <1>5, <2>2, <3>1, <3>2
  <2>5. PICK r \in p .. K - 1 : <<first[r], y>> \in Edges
    BY <1>2, <1>7, <1>8, <2>4 DEF Nested, Inside, y
  <2>6. r \in DOMAIN out /\ p <= r
    BY <1>1, <2>5
  <2>7. PICK i \in DOMAIN stack : In(stack[i].rest, y)
    BY <1>3, <1>9, <1>14, <2>5, EdgeNodes DEF Standing
  <2>8. stack[i].node = out[r]
    <3>1. <<stack[i].node, y>> \in Edges
      BY <1>3, <1>9, <2>7 DEF Felling
    <3> QED
      BY <1>4, <2>5, <2>6, <3>1, OneParent
  <2>9. i # k
    BY <1>9, <1>11, <1>16, <2>7 DEF k
  <2>10. i < k
    BY <1>1, <2>9
  <2>11. PICK a \in DOMAIN out, b \in DOMAIN out :
           a < b /\ out[a] = stack[i].node /\ out[b] = stack[k].node
    BY <1>3, <2>1, <2>10 DEF Felling, Before
  <2>12. a = r /\ b = p
    BY <1>3, <2>3, <2>6, <2>8, <2>11 DEF Felled, Once
  <2> QED
    BY <1>1, <2>6, <2>11, <2>12
<1> QED
  BY <1>15, <1>16

\* The next root, and the next child of the innermost call, are such nodes.
LEMMA FlattenRootLists ==
  ASSUME TreeInv, ListsInv, T!UniqueIds, T!FlattenRoot, phase' # "overflow"
  PROVE  ListsInv'
<1> DEFINE x == Head(todo)
<1>1. /\ phase = "flatten" /\ stack = <<>> /\ todo # <<>>
      /\ T!TakeApart(x, stack) /\ todo' = Tail(todo) /\ UNCHANGED <<nid, pid, first>>
  BY DEF T!FlattenRoot, T!input
<1>2. todo \in Seq(Nodes) /\ x \in Nodes /\ stack \in Seq(T!Frames)
  BY <1>1, TakeFirst DEF TreeInv, TreeTypes
<1>3. /\ Sorted(Source, todo)
      /\ \A n \in Nodes : In(todo, n) => n \in Rooted /\ ~In(out, n)
  BY <1>1, Taking DEF Standing
<1>4. /\ \A n : In(todo, n) <=> n = x \/ In(todo', n)
      /\ Sorted(Source, todo') /\ \A n : In(todo', n) => Before(Source, x, n)
  BY <1>1, <1>2, <1>3, FirstIn
<1> HIDE DEF x
<1>5. x \in Rooted /\ ~In(out, x) /\ x \in T!Reached /\ ~In(todo', x)
  <2>1. x \in Rooted /\ ~In(out, x)
    BY <1>2, <1>3, <1>4
  <2>2. ~In(todo', x)
    BY <1>1, <1>4, Taking
  <2> QED
    BY <2>1, <2>2, ReachedHangs
<1>6. first # <<>> => Len(out) + 1 \in DOMAIN first /\ first[Len(out) + 1] = x
  BY <1>1, <1>4, <1>5, SameOrder
<1>7. Due(x, stack)
  <2>1. DOMAIN stack = {}
    BY <1>1
  <2> QED
    BY <1>1, <1>4, <1>5, <1>6, <2>1 DEF Due
<1> QED
  BY <1>1, <1>2, <1>7, TakenLists

LEMMA FlattenChildLists ==
  ASSUME TreeInv, ListsInv, T!UniqueIds, T!FlattenChild, phase' # "overflow"
  PROVE  ListsInv'
<1> DEFINE k == Len(stack)
           rest == stack[k].rest
           x == Head(rest)
           r == Tail(rest)
<1>1. /\ phase = "flatten" /\ stack # <<>> /\ T!Top.rest # <<>>
      /\ T!TakeApart(Head(T!Top.rest), T!Stepped) /\ UNCHANGED <<nid, pid, first, todo>>
  BY DEF T!FlattenChild, T!input
<1>2. /\ k \in DOMAIN stack /\ T!Top.rest = rest /\ rest \in Seq(Nodes) /\ rest # <<>> /\ TreeTypes
      /\ x \in Nodes
  BY <1>1, TopOfStack, TakeFirst DEF TreeInv
<1>3. /\ T!Stepped \in Seq(T!Frames) /\ DOMAIN T!Stepped = DOMAIN stack
      /\ \A i \in DOMAIN stack : T!Stepped[i].node = stack[i].node
      /\ T!Stepped[k].rest = r
      /\ \A i \in DOMAIN stack : i # k => T!Stepped[i].rest = stack[i].rest
  BY <1>1, <1>2, SteppedStack
<1>4. /\ \A i \in DOMAIN stack :
           /\ In(out, stack[i].node) /\ Sorted(Source, stack[i].rest)
           /\ \A t \in Nodes : In(stack[i].rest, t) => <<stack[i].node, t>> \in Edges /\ ~In(out, t)
      /\ \A i, j \in DOMAIN stack : i < j => Before(out, stack[i].node, stack[j].node)
  BY <1>1, Taking DEF Felling
<1>5. /\ \A n : In(rest, n) <=> n = x \/ In(r, n)
      /\ Sorted(Source, r) /\ \A n : In(r, n) => Before(Source, x, n)
  BY <1>2, <1>4, FirstIn
<1> HIDE DEF x, r
<1>6. <<stack[k].node, x>> \in Edges /\ ~In(out, x) /\ ~In(r, x)
  BY <1>1, <1>2, <1>4, <1>5, Taking
<1>7. x \in T!Reached
  <2>1. stack[k].node \in Nodes /\ In(out, stack[k].node)
    BY <1>2, <1>4, <1>6, EdgeNodes
  <2>2. stack[k].node \in T!Reached
    BY <1>1, <2>1, Taking DEF Felled
  <2> QED
    BY <1>6, <2>2, ReachedHangs
<1>8. first # <<>> => Len(out) + 1 \in DOMAIN first /\ first[Len(out) + 1] = x
  BY <1>1, <1>5, <1>6, <1>7, SameOrder
<1>9. \A i \in DOMAIN stack : i # k => ~In(stack[i].rest, x)
  <2> SUFFICES ASSUME NEW i \in DOMAIN stack, i # k, In(stack[i].rest, x) PROVE FALSE
    OBVIOUS
  <2>1. stack[i].node = stack[k].node
    BY <1>2, <1>4, <1>6, OneParent
  <2>2. k \in Nat /\ DOMAIN stack = 1 .. k /\ out \in Seq(Nodes)
    <3>1. stack \in Seq(T!Frames) /\ out \in Seq(Nodes)
      BY <1>2 DEF TreeTypes
    <3> QED
      BY <3>1
  <2>3. Before(out, stack[i].node, stack[k].node)
    BY <1>2, <1>4, <2>2
  <2>4. Once(out)
    BY <1>1, Taking DEF Felled
  <2> QED
    BY <2>1, <2>2, <2>3, <2>4, BeforeOrders
<1>10. Due(x, T!Stepped)
  <2>1. /\ Sorted(Source, todo') /\ \A n \in Nodes : In(todo', n) => In(todo, n) /\ n # x
        /\ \A n \in Nodes : In(todo, n) => n = x \/ In(todo', n)
    BY <1>1, <1>6, Taking, EdgeNodes DEF Standing
  <2>2. ASSUME NEW i \in DOMAIN stack
        PROVE  /\ T!Stepped[i].node = stack[i].node /\ Sorted(Source, T!Stepped[i].rest)
               /\ \A t \in Nodes : In(T!Stepped[i].rest, t) => In(stack[i].rest, t) /\ t # x
               /\ \A t \in Nodes : In(stack[i].rest, t) => t = x \/ In(T!Stepped[i].rest, t)
    <3>1. CASE i = k
      BY <1>3, <1>5, <1>6, <3>1
    <3>2. CASE i # k
      BY <1>3, <1>4, <1>9, <3>2
    <3> QED
      BY <3>1, <3>2
  <2> QED
    BY <1>1, <1>3, <1>6, <1>7, <1>8, <2>1, <2>2 DEF Due
<1>11. T!TakeApart(x, T!Stepped)
  BY <1>1, <1>2 DEF x
<1> QED
  BY <1>1, <1>2, <1>3, <1>10, <1>11, TakenLists

\* What came out is the list of the second round, or the result.
LEMMA FlattenedLists ==
  ASSUME TreeInv, ListsInv, T!UniqueIds, T!Flattened
  PROVE  ListsInv'
<1>1. /\ phase = "flatten" /\ stack = <<>> /\ todo = <<>>
      /\ \/ /\ first = <<>> /\ out # <<>>
            /\ phase' = "call" /\ list' = out /\ first' = out /\ roots' = <<>> /\ out' = <<>>
         \/ /\ ~(first = <<>> /\ out # <<>>)
            /\ phase' = "done" /\ UNCHANGED <<list, first, roots, out>>
      /\ UNCHANGED <<nid, pid, children, todo, stack>>
  BY DEF T!Flattened, T!input
<1>2. Rooted' = Rooted /\ Edges' = Edges /\ T!Reached' = T!Reached
  BY <1>1, InputRests
<1>3. Standing /\ Felled
  BY <1>1, Taking
<1>4. Listed(Rooted, Edges, T!Reached, out)
  <2>1. DOMAIN stack = {}
    BY <1>1
  <2>2. \A n, m \in Nodes : ~In(todo, n) /\ ~In(children[m], n)
    BY <1>1, AllTaken, NoneIn
  <2>3. \A n \in Nodes : n \in T!Reached => In(out, n)
    BY <1>1, <1>3, <2>1, <2>2 DEF Standing
  <2> QED
    BY <1>1, <1>3, <2>3 DEF Felled, Listed
<1>5. CASE first = <<>> /\ out # <<>>
  <2>1. phase' = "call" /\ list' = out /\ first' = out /\ roots' = <<>> /\ out' = <<>> /\ todo' = <<>>
    BY <1>1, <1>5
  <2>2. Source' = out
    BY <1>5, <2>1 DEF Source
  <2>3. SourceListed'
    BY <1>2, <1>4, <2>1 DEF SourceListed
  <2>4. Sorted(out, out)
    BY DEF Sorted, Before
  <2>5. Sifting'
    BY <2>1, <2>2, <2>4, NoneIn DEF Sifting
  <2> QED
    BY <2>1, <2>3, <2>5 DEF ListsInv, Sifted, Grown, Growing, Standing, Felled, Felling, Ended
<1>6. CASE ~(first = <<>> /\ out # <<>>)
  <2>1. phase' = "done" /\ first' = first /\ out' = out
    BY <1>1, <1>6
  <2>2. out = first
    <3>1. CASE first = <<>>
      BY <1>6, <3>1
    <3>2. CASE first # <<>>
      <4>1. out \in Seq(Nodes) /\ first \in Seq(Nodes)
        BY DEF TreeInv, TreeTypes
      <4>2. Len(out) <= Len(first) /\ \A i \in DOMAIN out : out[i] = first[i]
        BY <1>1, <1>3, <3>2 DEF Felled
      <4>3. Once(first) /\ \A n \in Nodes : In(first, n) => In(out, n)
        BY <1>1, <1>4, <3>2, Taking DEF SourceListed, Listed
      <4>4. Len(out) = Len(first)
        <5> SUFFICES ASSUME Len(out) # Len(first) PROVE FALSE
          OBVIOUS
        <5>1. Len(first) \in DOMAIN first /\ first[Len(first)] \in Nodes
          BY <4>1, <4>2
        <5>2. PICK i \in DOMAIN out : out[i] = first[Len(first)]
          BY <4>3, <5>1 DEF In
        <5>3. i \in DOMAIN first /\ i # Len(first)
          BY <4>1, <4>2, <5>2
        <5> QED
          BY <4>2, <4>3, <5>1, <5>2, <5>3 DEF Once
      <4> QED
        BY <4>1, <4>2, <4>4
    <3> QED
      BY <3>1, <3>2
  <2>3. Ended'
    BY <1>2, <1>4, <2>1, <2>2 DEF Ended
  <2>4. SourceListed'
    BY <1>1, <1>2, <2>1, Taking DEF SourceListed
  <2> QED
    BY <2>1, <2>3, <2>4 DEF ListsInv, Sifting, Sifted, Grown, Growing, Standing, Felled, Felling
<1> QED
  BY <1>5, <1>6

LEMMA ListsStep == TreeInv /\ ListsInv /\ [T!Next]_treeVars => ListsInv'
<1> SUFFICES ASSUME TreeInv, ListsInv, [T!Next]_treeVars PROVE ListsInv'
  OBVIOUS
<1>1. CASE UNCHANGED treeVars
  <2>1. UNCHANGED <<nid, pid, children, list, roots, todo, stack, out, first, phase>>
    BY <1>1 DEF treeVars
  <2>2. /\ Rooted' = Rooted /\ Edges' = Edges /\ T!Reached' = T!Reached
        /\ T!UniqueIds' <=> T!UniqueIds
    BY <2>1, InputRests
  <2>3. Source' = Source
    BY <2>1 DEF Source
  <2>4. SourceListed' <=> SourceListed
    BY <2>1, <2>2 DEF SourceListed
  <2>5. (Sifting' <=> Sifting) /\ (Sifted' <=> Sifted)
    BY <2>1, <2>2, <2>3 DEF Sifting, Sifted
  <2>6. (Grown' <=> Grown) /\ (Growing' <=> Growing)
    BY <2>1, <2>2, <2>3 DEF Grown, Growing
  <2>7. (Standing' <=> Standing) /\ (Felled' <=> Felled)
    BY <2>1, <2>2, <2>3 DEF Standing, Felled
  <2>8. (Felling' <=> Felling) /\ (Ended' <=> Ended)
    BY <2>1, <2>2, <2>3 DEF Felling, Ended
  <2> QED
    BY <2>1, <2>2, <2>4, <2>5, <2>6, <2>7, <2>8 DEF ListsInv
<1>2. CASE T!Next
  <2>1. UNCHANGED <<nid, pid>>
    BY <1>2 DEF T!Next, T!Build, T!Flatten, T!Sift, T!Split, T!Root, T!Visit, T!Built,
                T!FlattenRoot, T!FlattenChild, T!Flattened, T!Return, T!input
  <2> SUFFICES ASSUME T!UniqueIds, phase' # "overflow" PROVE ListsInv'
    BY <2>1, InputRests DEF ListsInv
  <2> QED
    BY <1>2, SiftLists, SplitLists, RootLists, VisitLists, BuiltLists, ReturnLists,
       FlattenRootLists, FlattenChildLists, FlattenedLists DEF T!Next, T!Build, T!Flatten
<1> QED
  BY <1>1, <1>2

\* What a list is that comes out, in the words of TreeBuild.
LEMMA ListsRight == TreeInv /\ ListsInv => T!RoundTrip
<1> SUFFICES ASSUME TreeInv, ListsInv, phase = "done", T!UniqueIds
             PROVE  /\ T!ToSet(out) = T!Reached /\ Len(out) = Cardinality(T!Reached)
                    /\ \A i \in DOMAIN out :
                         T!IsRoot(out[i]) \/ \E j \in 1 .. i - 1 : nid[out[j]] = pid[out[i]]
                    /\ out = first
  BY DEF T!RoundTrip, T!Cardinality, T!IsFiniteSet, Cardinality, IsFiniteSet
<1>1. out = first /\ Once(out) /\ AfterParents(Rooted, Edges, out)
      /\ \A n \in Nodes : n \in T!Reached <=> In(out, n)
  BY DEF ListsInv, Ended, Listed
<1>2. out \in Seq(Nodes) /\ Len(out) \in Nat /\ DOMAIN out = 1 .. Len(out)
      /\ \A i \in DOMAIN out : out[i] \in Nodes
  BY DEF TreeInv, TreeTypes
<1>3. T!ToSet(out) = T!Reached
  <2>1. T!Reached \subseteq Nodes
    BY ReachedHangs
  <2> QED
    BY <1>1, <1>2, <2>1 DEF T!ToSet, In
<1>4. Len(out) = Cardinality(T!Reached)
  <2>1. out \in [1 .. Len(out) -> T!Reached]
    BY <1>1, <1>2 DEF In
  <2>2. out \in Bijection(1 .. Len(out), T!Reached)
    <3>1. \A a, b \in 1 .. Len(out) : out[a] = out[b] => a = b
      BY <1>1, <1>2 DEF Once
    <3>2. \A n \in T!Reached : \E a \in 1 .. Len(out) : out[a] = n
      BY <1>1, <1>2, ReachedHangs DEF In
    <3> QED
      BY <2>1, <3>1, <3>2 DEF Bijection, Injection, Surjection, IsInjective
  <2>3. ExistsBijection(1 .. Len(out), T!Reached)
    BY <2>2 DEF ExistsBijection
  <2> QED
    BY <1>2, <2>3, FS_CountingElements
<1>5. ASSUME NEW i \in DOMAIN out, ~T!IsRoot(out[i])
      PROVE  \E j \in 1 .. i - 1 : nid[out[j]] = pid[out[i]]
  <2>1. out[i] \notin Rooted
    BY <1>5 DEF Rooted
  <2>2. PICK j \in 1 .. i - 1 : <<out[j], out[i]>> \in Edges
    BY <1>1, <1>5, <2>1 DEF AfterParents
  <2>3. nid[out[j]] = pid[out[i]]
    BY <2>2 DEF Edges
  <2> QED
    BY <2>3
<1> QED
  BY <1>1, <1>3, <1>4, <1>5

(***************************************************************************)
(* The pages together: a scene moves by its own steps, the others rest.    *)
(***************************************************************************)

PagesInv == PagerInv /\ DialogInv /\ PlaceInv /\ IndexInv /\ TreeInv /\ ListsInv

LEMMA ScenesMove ==
  ASSUME [Next]_vars
  PROVE  [P!Next]_pagerVars /\ [D!Next]_dialogVars /\ [E!Next]_esVars /\ [T!Next]_treeVars
BY DEF Next, vars, pagerVars, dialogVars, esVars, treeVars

LEMMA PagesInit == Init => PagesInv
BY PagerInit, DialogInit, PlaceInit, IndexInit, TreeInit, ListsInit DEF Init, PagesInv

LEMMA PagesStep == PagesInv /\ [Next]_vars => PagesInv'
<1> SUFFICES ASSUME PagesInv, [Next]_vars PROVE PagesInv'
  OBVIOUS
<1>1. [P!Next]_pagerVars /\ [D!Next]_dialogVars /\ [E!Next]_esVars /\ [T!Next]_treeVars
  BY ScenesMove
<1> QED
  BY <1>1, PagerStep, DialogStep, PlaceStep, IndexStep, TreeStep, ListsStep DEF PagesInv

\* The types, and what is said with them.
LEMMA DialogTypes == DialogInv /\ PlaceInv => D!TypeOK
BY DEF D!TypeOK, D!WidgetTypeOK, DialogInv, PlaceInv, DialogFlags, DialogCounts,
       DialogFates, TrapFollowsDialog, LastQuestion, BoundOnce

\* The page numbers drawn are pages of the list and hold the current one, the links
\* stay inside the list and the pages hold it, for every list length, window and
\* page length, after any clicks (page.js:8, :60).
THEOREM PagesShowList == Spec => []PagerShowsList
<1>1. Init => PagesInv
  BY PagesInit
<1>2. PagesInv /\ [Next]_vars => PagesInv'
  BY PagesStep
<1>3. PagesInv => PagerShowsList
  BY PagerShows DEF PagesInv, PagerShowsList
<1> QED
  BY <1>1, <1>2, <1>3, PTL DEF Spec

\* Questions, focus and mouse agree with the screen after any number of questions,
\* asked at any time: the button calls the function of the question shown, which is
\* the last one asked and goes unanswered only when a later one takes its place
\* (common.js:8, :20), the focus stays in the dialog and at most one drag is followed.
THEOREM AnswersAgree == Spec => []DialogAgrees
<1>1. Init => PagesInv
  BY PagesInit
<1>2. PagesInv /\ [Next]_vars => PagesInv'
  BY PagesStep
<1>3. PagesInv => DialogAgrees
  BY DEF PagesInv, DialogInv, DialogAgrees, D!DialogAgrees
<1> QED
  BY <1>1, <1>2, <1>3, PTL DEF Spec

\* A question is shown inside the window until the dialog is dragged and from then on
\* where the last drag left it, whatever the window became (jquery-ui.js:12215 against
\* 12326); the dialog stays there between questions.
THEOREM PlaceFollowsDrag == Spec => DialogInPlace
<1>1. Init => PagesInv
  BY PagesInit
<1>2. PagesInv /\ [Next]_vars => PagesInv'
  BY PagesStep
<1>3. PagesInv => D!PlaceKept
  BY DEF PagesInv, PlaceInv
<1>4. PagesInv /\ [Next]_vars =>
        [questions' # questions =>
           IF spot = D!Centred
           THEN place' >= 0 /\ (place' + DialogWidth <= win \/ place' = 0)
           ELSE place' = spot]_D!dialogVars
  BY QuestionStep, ScenesMove DEF PagesInv
<1> QED
  BY <1>1, <1>2, <1>3, <1>4, PTL DEF Spec, DialogInPlace, D!DialogInPlace, D!OpensInPlace

\* Reading an index page by page while it changes reads nothing twice, misses only
\* what the sort value or the count explains, and fails only after a deletion, for
\* any number of documents, sort values and page size (EsController, EsStatServiceImpl).
THEOREM ReadersExplained == Spec => []PagingExplained
<1>1. Init => PagesInv
  BY PagesInit
<1>2. PagesInv /\ [Next]_vars => PagesInv'
  BY PagesStep
<1>3. PagesInv => PagingExplained
  BY IndexExplains DEF PagesInv, PagingExplained
<1> QED
  BY <1>1, <1>2, <1>3, PTL DEF Spec

\* Every variable of the four scripts has its type: the lists taken apart leave no
\* children behind for the next call of toTree, and the pages of the first reader
\* are never more than the documents of the start need.
THEOREM PagesTyped == Spec => []TypeOK
<1>1. Init => PagesInv
  BY PagesInit
<1>2. PagesInv /\ [Next]_vars => PagesInv'
  BY PagesStep
<1>3. PagesInv => TypeOK
  <2> SUFFICES ASSUME PagesInv PROVE TypeOK
    OBVIOUS
  <2>1. P!TypeOK /\ D!TypeOK /\ E!TypeOK
    BY PagerShows, DialogTypes, IndexExplains DEF PagesInv
  <2>2. T!TypeOK
    BY DEF PagesInv, TreeInv, TreeTypes, NoneLeft, T!TypeOK
  <2> QED
    BY <2>1, <2>2 DEF TypeOK
<1> QED
  BY <1>1, <1>2, <1>3, PTL DEF Spec

\* Whatever the ids of any number of nodes, listToTree gives none of them two
\* children with one id (TreeUtil.addTreeNode).
THEOREM SiblingsApart == Spec => []T!SiblingsDistinct
<1>1. Init => PagesInv
  BY PagesInit
<1>2. PagesInv /\ [Next]_vars => PagesInv'
  BY PagesStep
<1>3. PagesInv => T!SiblingsDistinct
  BY DEF PagesInv, TreeInv
<1> QED
  BY <1>1, <1>2, <1>3, PTL DEF Spec

\* With unique ids, however many nodes there are and however their parents are
\* given: what treeToList gives back is every node tied to a root, once, after its
\* parent, and making trees of it again and taking them apart again gives the very
\* same list (TreeUtil.java:24, :35, :111).
THEOREM TreesRoundTrip == Spec => []T!RoundTrip
<1>1. Init => PagesInv
  BY PagesInit
<1>2. PagesInv /\ [Next]_vars => PagesInv'
  BY PagesStep
<1>3. PagesInv => T!RoundTrip
  BY ListsRight DEF PagesInv
<1> QED
  BY <1>1, <1>2, <1>3, PTL DEF Spec
=============================================================================
