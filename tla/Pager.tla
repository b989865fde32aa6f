--------------------------------- MODULE Pager ---------------------------------
(***************************************************************************)
(* page.js: the jQuery plug-in that draws the page numbers under a list.   *)
(* Its settings are in one global object, page, which initPage overwrites  *)
(* with the attributes of its own element; every element draws with what   *)
(* the object holds at that moment.  A click calls the page's function and *)
(* then draws again, with the number of entries kept in the closure.       *)
(***************************************************************************)
EXTENDS Integers, FiniteSets, FiniteSetsExt

CONSTANTS
  Elements,  \* elements that show a pager
  MaxItems,  \* values of the attribute maxshowpageitem
  PerPage,   \* values of the attribute pagelistcount
  Counts,    \* list lengths given to initPage
  Currents   \* current pages given to initPage

VARIABLES
  attrs,     \* the attributes of each element, 0 for none
  page,      \* the global object: maxshowpageitem and pagelistcount
  drawn,     \* what each element shows; pageCount 0 before initPage
  closure,   \* the list length its click handlers hold
  inited,    \* history: elements initPage was called for; while it is one,
  asked,     \* history: the list length last given to initPage,
  fits,      \* history: was its current page one of the pages?
  reasked    \* history: did the function of a click give another length?

pagerVars == <<attrs, page, drawn, closure, inited, asked, fits, reasked>>

\* What is drawn: the pages low .. low + num - 1 and four links.
Drawing == [pageCount : Nat, current : Nat, low : Int, num : Nat]
Settings == [max : MaxItems \cup {5}, per : PerPage \cup {10}]

TypeOK ==
  /\ attrs \in [Elements -> [max : MaxItems \cup {0}, per : PerPage \cup {0}]]
  /\ page \in Settings
  /\ drawn \in [Elements -> Drawing]
  /\ closure \in [Elements -> Counts \cup {0}]
  /\ inited \subseteq Elements /\ asked \in Counts \cup {0}
  /\ fits \in BOOLEAN /\ reasked \in BOOLEAN
  /\ \A e \in Elements :
       IF e \in inited THEN drawn[e].current > 0 ELSE drawn[e].pageCount = 0

Init ==
  /\ attrs \in [Elements -> [max : MaxItems \cup {0}, per : PerPage \cup {0}]]
  /\ page = [max |-> 5, per |-> 10]
  /\ drawn = [e \in Elements |-> [pageCount |-> 0, current |-> 0, low |-> 0, num |-> 0]]
  /\ closure = [e \in Elements |-> 0]
  /\ inited = {} /\ asked = 0 /\ fits = FALSE /\ reasked = FALSE

\* initWithUl
PageCount(count, per) ==
  IF count <= 0 THEN 1
  ELSE IF count % per > 0 THEN count \div per + 1 ELSE count \div per

\* Variant: the first page is not limited to 1.
LowUnlimited(max, pageCount, current) ==
  LET half == max \div 2
  IN  IF current - half <= 0 THEN 1
      ELSE IF current + half <= pageCount THEN current - half
      ELSE pageCount - max + 1

\* getPageListModel: the first page number shown.
Low(max, pageCount, current) ==
  LET half == max \div 2
  IN  IF current - half <= 0 THEN 1
      ELSE IF current + half <= pageCount THEN current - half
      ELSE Max({1, pageCount - max + 1})

\* setPageListCount with the settings s: the drawing, and the handlers.
Draw(s, e, count, current) ==
  LET pages == PageCount(count, s.per)
  IN  /\ drawn' = [drawn EXCEPT ![e] =
           [pageCount |-> pages, current |-> current,
            low |-> Low(s.max, pages, current), num |-> Min({s.max, pages})]]
      /\ closure' = [closure EXCEPT ![e] = count]

\* The settings after initPage has looked at the attributes of e.
Overwritten(e) ==
  [max |-> IF attrs[e].max > 0 THEN attrs[e].max ELSE page.max,
   per |-> IF attrs[e].per > 0 THEN attrs[e].per ELSE page.per]

\* The history is kept while one element is initialised.
Remember(e, listCount, fit) ==
  /\ inited' = inited \cup {e}
  /\ asked' = IF inited' = {e} THEN listCount ELSE 0
  /\ fits' = (inited' = {e} /\ fit)
  /\ reasked' = FALSE

\* $(..).initPage(listCount, currentPage, fun)
InitPage(e) ==
  \E listCount \in Counts, currentPage \in Currents :
    LET settings == Overwritten(e)
        current == Max({1, currentPage})
    IN  /\ page' = settings
        /\ Draw(settings, e, listCount, current)
        /\ Remember(e, listCount, current <= drawn'[e].pageCount)
        /\ UNCHANGED attrs

Window(e) == drawn[e].low .. drawn[e].low + drawn[e].num - 1

\* The pages of the items of class pageItem; the others have no handler.
Clickable(e) ==
  LET d == drawn[e]
  IN  (Window(e) \ {d.current})
      \cup (IF d.current - 1 <= 0 THEN {} ELSE {1, d.current - 1})
      \cup (IF d.current + 1 > d.pageCount THEN {} ELSE {d.current + 1, d.pageCount})

\* The handler of initPageEvent.  The page's function may load the list again
\* and call initPage with its new length; the old length is drawn over it.
Click(e) ==
  /\ e \in inited
  /\ \E p \in Clickable(e) :
       \/ /\ Draw(page, e, closure[e], p)
          /\ UNCHANGED <<page, asked, fits, reasked>>
       \/ /\ \E listCount \in Counts :
               /\ asked' = IF inited = {e} THEN listCount ELSE 0
               /\ reasked' = (inited = {e} /\ (reasked \/ listCount # closure[e]))
          /\ page' = Overwritten(e)
          /\ Draw(page', e, closure[e], p)
          /\ UNCHANGED fits
  /\ UNCHANGED <<attrs, inited>>

Next == \E e \in Elements : InitPage(e) \/ Click(e)

Spec == Init /\ [][Next]_pagerVars

-----------------------------------------------------------------------------
(* Properties.                                                             *)

\* The page numbers shown are pages of the list, and the current page is among
\* them when it exists, at both ends, for even and odd numbers of items and for
\* lists shorter than the window.
WindowHoldsCurrent ==
  \A e \in inited : LET d == drawn[e]
    IN  d.current <= d.pageCount =>
          Window(e) \subseteq 1 .. d.pageCount /\ d.current \in Window(e)

\* Clicking stays inside the list: with one pager on the page, begun inside its
\* list, the current page always exists and so does every page one can click.
\* A second pager with other attributes breaks it (page.js:8).
LinksExist ==
  \A e \in Elements : inited = {e} /\ fits =>
    drawn[e].current <= drawn[e].pageCount /\ Clickable(e) \subseteq 1 .. drawn[e].pageCount

Own(e) == IF attrs[e].per > 0 THEN attrs[e].per ELSE 10

\* With one pager on the page the number of pages is the least that holds the
\* list last given to initPage, unless that was given by the function of a
\* click: the old length of the closure is then drawn over it (page.js:60).
PagesHoldList ==
  \A e \in Elements : inited = {e} /\ ~reasked =>
    LET n == drawn[e].pageCount
    IN  n * Own(e) >= asked /\ (n > 1 => (n - 1) * Own(e) < asked)

\* What the pager shows belongs to the list, for the reader's page and links.
PagerShowsList == WindowHoldsCurrent /\ LinksExist /\ PagesHoldList
=============================================================================
