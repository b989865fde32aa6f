------------------------------- MODULE TreeBuild -------------------------------
(***************************************************************************)
(* TreeUtil: listToTree or toTree makes trees out of a list of nodes that  *)
(* name their parents, treeToList takes the trees apart again, and the     *)
(* list so obtained is made into trees and taken apart a second time.      *)
(* Nodes are objects, mutated in place; ids need not be unique.  The       *)
(* recursion of the code is an explicit stack, of the loops in progress.   *)
(***************************************************************************)
EXTENDS Naturals, Sequences, FiniteSets, SequencesExt

CONSTANTS
  Nodes,     \* the node objects, 1 .. n, in the order of the list
  Ids,       \* ids; 0 is the empty parent id
  MaxDepth   \* bound: deeper recursion is a StackOverflowError

VARIABLES
  algorithm, \* "listToTree" or "toTree"
  nid, pid,  \* the fields id and pid of each node
  children,  \* the field children, <<>> for null
  list,      \* the list given to the call, without the roots once it runs
  roots,     \* the roots
  todo,      \* the inner nodes met among the roots, then the roots to be handled
  stack,     \* the calls in progress, innermost last
  out,       \* the list treeToList fills
  first,     \* the list of the first round
  phase      \* "call", "build", "flatten", "done" or "overflow"

treeVars == <<algorithm, nid, pid, children, list, roots, todo, stack, out, first, phase>>
input == <<algorithm, nid, pid>>

Frames == [node : Nodes, rest : Seq(Nodes)]

TypeOK ==
  /\ algorithm \in {"listToTree", "toTree"}
  /\ nid \in [Nodes -> Ids] /\ pid \in [Nodes -> Ids \cup {0}]
  /\ children \in [Nodes -> Seq(Nodes)]
  /\ list \in Seq(Nodes) /\ roots \in Seq(Nodes) /\ todo \in Seq(Nodes)
  /\ stack \in Seq(Frames) /\ out \in Seq(Nodes) /\ first \in Seq(Nodes)
  /\ phase \in {"call", "build", "flatten", "done", "overflow"}
  /\ phase = "call" => \A n \in Nodes : children[n] = <<>>

Init ==
  /\ algorithm \in {"listToTree", "toTree"}
  /\ nid \in [Nodes -> Ids] /\ pid \in [Nodes -> Ids \cup {0}]
  /\ children = [n \in Nodes |-> <<>>]
  /\ list = [n \in Nodes |-> n]
  /\ roots = <<>> /\ todo = <<>> /\ stack = <<>> /\ out = <<>> /\ first = <<>>
  /\ phase = "call"

IsRoot(n) == pid[n] = 0

\* The first loop looks at one node of the caller's list after the other.
Sift ==
  /\ phase = "call" /\ list # <<>>
  /\ list' = Tail(list)
  /\ IF IsRoot(Head(list))
     THEN roots' = Append(roots, Head(list)) /\ UNCHANGED todo
     ELSE todo' = Append(todo, Head(list)) /\ UNCHANGED roots
  /\ UNCHANGED <<input, children, stack, out, first, phase>>

\* Then the roots are taken out of it.
Split ==
  /\ phase = "call" /\ list = <<>>
  /\ list' = todo /\ todo' = roots
  /\ phase' = "build"
  /\ UNCHANGED <<input, children, roots, stack, out, first>>

\* A call of addTreeNode, addChildren or treeToList for n.
Push(calls, n, rest) ==
  IF Len(calls) = MaxDepth
  THEN phase' = "overflow" /\ stack' = calls
  ELSE stack' = Append(calls, [node |-> n, rest |-> rest]) /\ UNCHANGED phase

Top == stack[Len(stack)]
Stepped == [stack EXCEPT ![Len(stack)].rest = Tail(@)]

Root ==
  /\ phase = "build" /\ stack = <<>> /\ todo # <<>>
  /\ Push(stack, Head(todo), list)
  /\ todo' = Tail(todo)
  /\ UNCHANGED <<input, children, list, roots, out, first>>

\* listToTree does not add a second child with the same id.
HasChild(n, t) == \E i \in DOMAIN children[n] : nid[children[n][i]] = nid[t]

Adopts(n, t) == nid[n] = pid[t] /\ (algorithm = "listToTree" => ~HasChild(n, t))

\* Variant: the subtree of a new child is left to a later root.
VisitNoRecursion ==
  /\ phase = "build" /\ stack # <<>> /\ Top.rest # <<>>
  /\ children' = IF Adopts(Top.node, Head(Top.rest))
                 THEN [children EXCEPT ![Top.node] = Append(@, Head(Top.rest))]
                 ELSE children
  /\ stack' = Stepped
  /\ UNCHANGED <<input, list, roots, todo, out, first, phase>>

\* One turn of the loop: a child is added and its own children are looked for.
Visit ==
  /\ phase = "build" /\ stack # <<>> /\ Top.rest # <<>>
  /\ LET n == Top.node
         t == Head(Top.rest)
     IN  IF Adopts(n, t)
         THEN children' = [children EXCEPT ![n] = Append(@, t)] /\ Push(Stepped, t, list)
         ELSE stack' = Stepped /\ UNCHANGED <<children, phase>>
  /\ UNCHANGED <<input, list, roots, todo, out, first>>

Return ==
  /\ stack # <<>> /\ Top.rest = <<>> /\ phase \in {"build", "flatten"}
  /\ stack' = Front(stack)
  /\ UNCHANGED <<input, children, list, roots, todo, out, first, phase>>

Built ==
  /\ phase = "build" /\ stack = <<>> /\ todo = <<>>
  /\ phase' = "flatten" /\ todo' = roots
  /\ UNCHANGED <<input, children, list, roots, stack, out, first>>

\* Variant: the field children is kept.
TakeApartKeeps(n, calls) ==
  /\ out' = Append(out, n)
  /\ UNCHANGED children
  /\ Push(calls, n, children[n])

\* treeToList of n: the children are remembered, cleared and then visited.
TakeApart(n, calls) ==
  /\ out' = Append(out, n)
  /\ children' = [children EXCEPT ![n] = <<>>]
  /\ Push(calls, n, children[n])

FlattenRoot ==
  /\ phase = "flatten" /\ stack = <<>> /\ todo # <<>>
  /\ TakeApart(Head(todo), stack)
  /\ todo' = Tail(todo)
  /\ UNCHANGED <<input, list, roots, first>>

FlattenChild ==
  /\ phase = "flatten" /\ stack # <<>> /\ Top.rest # <<>>
  /\ TakeApart(Head(Top.rest), Stepped)
  /\ UNCHANGED <<input, list, roots, todo, first>>

\* All trees are taken apart: the second round begins with the list, or ends.
Flattened ==
  /\ phase = "flatten" /\ stack = <<>> /\ todo = <<>>
  /\ IF first = <<>> /\ out # <<>>
     THEN phase' = "call" /\ list' = out /\ first' = out /\ roots' = <<>> /\ out' = <<>>
     ELSE phase' = "done" /\ UNCHANGED <<list, first, roots, out>>
  /\ UNCHANGED <<input, children, todo, stack>>

Build == Sift \/ Split \/ Root \/ Visit \/ Built
Flatten == FlattenRoot \/ FlattenChild \/ Flattened

Next == Build \/ Flatten \/ Return

Spec == Init /\ [][Next]_treeVars

Fairness == WF_treeVars(Next)

-----------------------------------------------------------------------------
(* Properties.                                                             *)

UniqueIds == \A m, n \in Nodes : m # n => nid[m] # nid[n]

\* The nodes that some chain of parents ties to a root: the least set that holds
\* the roots and, with a node, the nodes it is the parent of.
Hangs(S) == \A n \in Nodes : IsRoot(n) \/ (\E m \in S : nid[m] = pid[n]) => n \in S
Reached == {n \in Nodes : \A S \in SUBSET Nodes : Hangs(S) => n \in S}

\* With unique ids the list that comes out holds every node that hangs on a
\* root, once, after its parent; nodes whose chain of parents does not end in a
\* root are silently left out, and the second round changes nothing.
RoundTrip ==
  phase = "done" /\ UniqueIds =>
    /\ ToSet(out) = Reached /\ Len(out) = Cardinality(Reached)
    /\ \A i \in DOMAIN out :
         IsRoot(out[i]) \/ \E j \in 1 .. i - 1 : nid[out[j]] = pid[out[i]]
    /\ out = first

\* Whatever the ids, listToTree gives no node two children with one id.
SiblingsDistinct ==
  algorithm = "listToTree" =>
    \A n \in Nodes : \A i, j \in DOMAIN children[n] :
      i # j => nid[children[n][i]] # nid[children[n][j]]

\* The recursion ends: that of listToTree and of treeToList always, that of
\* toTree when ids are unique.
Terminates == algorithm = "listToTree" \/ UniqueIds => <>(phase = "done")

\* The three of them, for every list of nodes.
TreesRight == [](RoundTrip /\ SiblingsDistinct) /\ Terminates
=============================================================================
