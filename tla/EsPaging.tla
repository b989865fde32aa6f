------------------------------- MODULE EsPaging -------------------------------
(***************************************************************************)
(* Reading an Elasticsearch index page by page with search_after, while    *)
(* documents are indexed and deleted:                                      *)
(*   count   EsController.searchEsPage sorts by _id and reads as many      *)
(*           pages as an earlier count says                                *)
(*   follow  EsStatServiceImpl sorts by startTime; its caller passes the   *)
(*           sort value of the last hit back until the answer is null      *)
(* An index search sees the documents of that moment.                      *)
(***************************************************************************)
EXTENDS Integers, FiniteSets, FiniteSetsExt

CONSTANTS
  Docs,      \* documents, numbers in the order of their _id
  Times,     \* values of startTime
  PageSize

VARIABLES
  reader,    \* "count" or "follow"
  time,      \* the startTime of each document
  index,     \* the documents in the index
  gone,      \* the documents deleted
  step,      \* "begin", "read", "done" or "failed"
  pages,     \* reader count: the pages still to be read
  after,     \* the sort value to search after, or -1
  got,       \* the documents read
  again,     \* history: documents read once more
  atStart,   \* history: the documents in the index when reading began
  cuts       \* history: the sort values of the last hits

esVars == <<reader, time, index, gone, step, pages, after, got, again, atStart, cuts>>

Key(d) == IF reader = "count" THEN d ELSE time[d]

\* More pages are never needed for the documents there are.
TypeOK ==
  /\ reader \in {"count", "follow"} /\ time \in [Docs -> Times]
  /\ index \subseteq Docs /\ gone \subseteq Docs \ index
  /\ step \in {"begin", "read", "done", "failed"}
  /\ pages \in 0 .. Cardinality(Docs) /\ after \in Docs \cup Times \cup {-1}
  /\ got \subseteq Docs /\ again \subseteq got
  /\ atStart \subseteq Docs /\ cuts \subseteq Docs \cup Times
  /\ pages * PageSize < Cardinality(atStart) + PageSize

\* The first reader does not look at startTime.
Init ==
  /\ reader \in {"count", "follow"} /\ time \in [Docs -> Times]
  /\ reader = "count" => \A d, e \in Docs : time[d] = time[e]
  /\ index \in SUBSET Docs /\ gone = {}
  /\ step = "begin" /\ pages = 0 /\ after = -1
  /\ got = {} /\ again = {} /\ atStart = {} /\ cuts = {}

\* Other clients of the index.
Index(d) ==
  /\ d \notin index \cup gone
  /\ index' = index \cup {d}
  /\ UNCHANGED <<reader, time, gone, step, pages, after, got, again, atStart, cuts>>

Delete(d) ==
  /\ d \in index
  /\ index' = index \ {d} /\ gone' = gone \cup {d}
  /\ UNCHANGED <<reader, time, step, pages, after, got, again, atStart, cuts>>

Pages(cnt) == IF cnt % PageSize = 0 THEN cnt \div PageSize ELSE cnt \div PageSize + 1

\* The count of the first reader; the second has nothing to prepare.
Begin ==
  /\ step = "begin"
  /\ pages' = IF reader = "count" THEN Pages(Cardinality(index)) ELSE 0
  /\ atStart' = index
  /\ step' = "read"
  /\ UNCHANGED <<reader, time, index, gone, after, got, again, cuts>>

\* Variant: the page begins with the last hit of the one before.
MatchesInclusive == {d \in index : Key(d) >= after}

Matches == {d \in index : Key(d) > after}

\* The first PageSize matches; documents with equal values come in any order.
Hits == {h \in SUBSET Matches :
           /\ Cardinality(h) = Min({PageSize, Cardinality(Matches)})
           /\ \A d \in h, e \in Matches \ h : Key(d) <= Key(e)}

Collect(h) ==
  /\ got' = got \cup h
  /\ again' = again \cup (got \cap h)

\* hits[length - 1].getSortValues()
Followed(h) == Max({Key(d) : d \in h})

\* One turn of the loop of searchEsPage: an empty page has no last hit.
ReadPage ==
  /\ reader = "count" /\ step = "read" /\ pages > 0
  /\ \E h \in Hits :
       IF h = {}
       THEN step' = "failed" /\ UNCHANGED <<pages, after, got, again, cuts>>
       ELSE /\ Collect(h)
            /\ after' = Followed(h) /\ cuts' = cuts \cup {Followed(h)}
            /\ pages' = pages - 1
            /\ UNCHANGED step
  /\ UNCHANGED <<reader, time, index, gone, atStart>>

LastPage ==
  /\ reader = "count" /\ step = "read" /\ pages = 0
  /\ step' = "done"
  /\ UNCHANGED <<reader, time, index, gone, pages, after, got, again, atStart, cuts>>

\* searchPageBuilder and dealResponse: an empty page is answered with null.
FollowPage ==
  /\ reader = "follow" /\ step = "read"
  /\ \E h \in Hits :
       IF h = {}
       THEN step' = "done" /\ UNCHANGED <<after, got, again, cuts>>
       ELSE /\ Collect(h)
            /\ after' = Followed(h) /\ cuts' = cuts \cup {Followed(h)}
            /\ UNCHANGED step
  /\ UNCHANGED <<reader, time, index, gone, pages, atStart>>

Next ==
  \/ \E d \in Docs : Index(d) \/ Delete(d)
  \/ Begin \/ ReadPage \/ LastPage \/ FollowPage

Spec == Init /\ [][Next]_esVars

-----------------------------------------------------------------------------
(* Properties.                                                             *)

\* No document is read twice, although pages shift while they are read.
ReadOnce == again = {}

Missed == (atStart \cap index) \ got

\* A document that was there all the time is missed only by the first reader,
\* when as many documents came meanwhile, or by the second, when it has the
\* same startTime as the last hit of a page.
MissesExplained ==
  step = "done" =>
    IF reader = "count"
    THEN Cardinality(Missed) <= Cardinality(got \ atStart)
    ELSE \A d \in Missed : time[d] \in cuts

\* Reading fails, at index -1 of an empty page, only when documents that were
\* counted have been deleted meanwhile.
FailsOnlyIfDeleted == step = "failed" => atStart \cap gone # {}

\* What reading page by page is worth while the index changes.
PagingExplained == ReadOnce /\ MissesExplained /\ FailsOnlyIfDeleted
=============================================================================
