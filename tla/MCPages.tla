-------------------------------- MODULE MCPages --------------------------------
(***************************************************************************)
(* What the pages show: the pager and the dialog of the browser, the pages *)
(* read from Elasticsearch and the trees built from lists.  The four share *)
(* no state; Init chooses which one runs (the scene), the others stay in   *)
(* an initial state.                                                       *)
(***************************************************************************)
EXTENDS Integers, Sequences, FiniteSets

CONSTANTS
  Elements, MaxItems, PerPage, Counts, Currents,
  DialogWidth, Widths, MousePlaces, Grabs, MaxQuestions,
  Docs, Times, PageSize,
  Nodes, Ids, MaxDepth

\* Dialog, windows and mouse are measured in whole numbers.
ASSUME DialogNumbers ==
  /\ MaxQuestions \in Nat /\ DialogWidth \in Nat
  /\ Widths \subseteq Nat /\ MousePlaces \subseteq Nat /\ Grabs \subseteq Nat

\* Centring gives a whole number: windows and dialog differ by an even width.
ASSUME DialogCentred == \A w \in Widths : (w - DialogWidth) % 2 = 0

\* Lists have a length, and pages and windows of page numbers hold something.
ASSUME PagerNumbers ==
  /\ MaxItems \subseteq Nat \ {0} /\ PerPage \subseteq Nat \ {0}
  /\ Counts \subseteq Nat /\ Currents \subseteq Int

\* An index holds finitely many documents, their sort values are numbers from 0.
ASSUME IndexNumbers ==
  /\ IsFiniteSet(Docs) /\ Docs \subseteq Nat /\ Times \subseteq Nat
  /\ PageSize \in Nat \ {0}

\* The nodes of a list are numbered from 1.
ASSUME TreeNodes == IsFiniteSet(Nodes) /\ Nodes = 1 .. Cardinality(Nodes)

VARIABLES
  scene,
  attrs, page, drawn, closure, inited, asked, fits, reasked,
  isOpen, overlays, trap, opening, tracked, opener, focus, slipped, win, place,
  spot, pressed, handled, bound, moved, started, ignoring, grab, downAt, reach,
  dragged, astray, text, buttons, questions, fate,
  reader, time, index, gone, step, pages, after, got, again, atStart, cuts,
  algorithm, nid, pid, children, list, roots, todo, stack, out, first, phase

P == INSTANCE Pager
D == INSTANCE ConfirmDialog
E == INSTANCE EsPaging
T == INSTANCE TreeBuild

pagerVars == <<attrs, page, drawn, closure, inited, asked, fits, reasked>>
dialogVars ==
  <<isOpen, overlays, trap, opening, tracked, opener, focus, slipped, win, place,
    spot, pressed, handled, bound, moved, started, ignoring, grab, downAt, reach,
    dragged, astray, text, buttons, questions, fate>>
esVars == <<reader, time, index, gone, step, pages, after, got, again, atStart, cuts>>
treeVars == <<algorithm, nid, pid, children, list, roots, todo, stack, out, first, phase>>
vars == <<scene, pagerVars, dialogVars, esVars, treeVars>>

PagerRests == attrs = [e \in Elements |-> [max |-> 0, per |-> 0]]
EsRests ==
  /\ index = {} /\ reader = "count"
  /\ time = [d \in Docs |-> CHOOSE t \in Times : TRUE]
TreeRests ==
  /\ algorithm = "toTree"
  /\ nid = [n \in Nodes |-> n] /\ pid = [n \in Nodes |-> 0]

Init ==
  /\ \/ scene = "pager" /\ EsRests /\ TreeRests
     \/ scene = "dialog" /\ PagerRests /\ EsRests /\ TreeRests
     \/ scene = "paging" /\ PagerRests /\ TreeRests
     \/ scene = "tree" /\ PagerRests /\ EsRests
  /\ P!Init /\ D!Init /\ E!Init /\ T!Init

Next ==
  \/ scene = "pager" /\ P!Next /\ UNCHANGED <<scene, dialogVars, esVars, treeVars>>
  \/ scene = "dialog" /\ D!Next /\ UNCHANGED <<scene, pagerVars, esVars, treeVars>>
  \/ scene = "paging" /\ E!Next /\ UNCHANGED <<scene, pagerVars, dialogVars, treeVars>>
  \/ scene = "tree" /\ T!Next /\ UNCHANGED <<scene, pagerVars, dialogVars, esVars>>

Spec == Init /\ [][Next]_vars /\ WF_vars(scene = "tree" /\ T!Next /\ UNCHANGED <<scene, pagerVars, dialogVars, esVars>>)

-----------------------------------------------------------------------------
\* Every variable has its type, and what is said with it there.
TypeOK == P!TypeOK /\ D!TypeOK /\ E!TypeOK /\ T!TypeOK

\* The property of Pager.
PagerShowsList == P!PagerShowsList

\* The properties of ConfirmDialog.
DialogAgrees == D!DialogAgrees
DialogInPlace == D!DialogInPlace

\* The property of EsPaging.
PagingExplained == E!PagingExplained

\* The property of TreeBuild; a tree is finished only where one is built.
TreesRight ==
  /\ [](T!RoundTrip /\ T!SiblingsDistinct)
  /\ scene = "tree" => T!Terminates
=============================================================================
