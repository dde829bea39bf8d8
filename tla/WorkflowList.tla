---------------------------- MODULE WorkflowList ----------------------------
(***************************************************************************)
(* Paging through the workflows a user may see (workflowsvc.List): two     *)
(* sources, own and shared, each fetched from the cursor with one row more *)
(* than the page, merged, deduplicated, sorted and cut - while workflows   *)
(* are created, published and deleted between the pages.                   *)
(***************************************************************************)
EXTENDS Integers, Sequences, FiniteSets, SequencesExt

CONSTANTS
    ListIds,         \* lineage ids, in the order of their canonical text
    ListLimits       \* values of limit, 0 is unbounded

ASSUME ListAssumption ==
    ListIds \subseteq Nat \ {0} /\ ListLimits \subseteq Nat

VARIABLES own, shared,   \* lineages with an approved version owned by, shared with the viewer
          paging         \* the client: limit, cursor, pages so far; the lineages visible
                         \* and owned all along; those in the range of a flagged page

listVars == <<own, shared, paging>>

NotPaging == [st |-> "idle", limit |-> 0, cursor |-> 0, got |-> << >>, kept |-> {},
              mine |-> {}, dark |-> {}]

ListInit ==
    /\ own \in SUBSET ListIds /\ shared \in SUBSET ListIds
    /\ paging = NotPaging

(* ListByOwner, ListVisibleShared: ids above the cursor, the first n.      *)
Fetch(source, cursor, n) ==
    LET ids == SetToSortSeq({l \in source : l > cursor}, <)
    IN  SubSeq(ids, 1, IF n > 0 /\ n < Len(ids) THEN n ELSE Len(ids))

\* Mutant: no extra row per source.
MergedTight(limit, cursor, sharedUnavailable) ==
    SetToSortSeq(ToSet(Fetch(own, cursor, limit)) \cup
                 (IF sharedUnavailable THEN {} ELSE ToSet(Fetch(shared, cursor, limit))), <)

(* The merge: own rows win, a lineage appears once.  When the viewer's     *)
(* groups or the shared rows cannot be read, the own rows are all.         *)
Merged(limit, cursor, sharedUnavailable) ==
    LET n == IF limit > 0 THEN limit + 1 ELSE 0
    IN  SetToSortSeq(ToSet(Fetch(own, cursor, n)) \cup
                     (IF sharedUnavailable THEN {} ELSE ToSet(Fetch(shared, cursor, n))), <)

BeginList(limit) ==
    /\ paging.st = "idle"
    /\ paging' = [NotPaging EXCEPT !.st = "paging", !.limit = limit, !.kept = own \cup shared,
                                   !.mine = own]
    /\ UNCHANGED <<own, shared>>

(* One List call: a page, and a cursor if more rows were merged.  A page   *)
(* without the shared half is flagged SharedUnavailable, and its cursor is *)
(* the last own row's: the next page starts behind it.  A call that fails  *)
(* (ListByOwner) is one the client makes again.                            *)
ListPage(sharedUnavailable) ==
    LET m    == Merged(paging.limit, paging.cursor, sharedUnavailable)
        more == paging.limit > 0 /\ Len(m) > paging.limit
        page == IF more THEN SubSeq(m, 1, paging.limit) ELSE m
    IN  /\ paging.st = "paging"
        /\ paging' = [paging EXCEPT !.got = @ \o page,
                                    !.dark = @ \cup {l \in ListIds :
                                        /\ sharedUnavailable /\ l > paging.cursor
                                        /\ more => l <= Last(page)},
                                    !.cursor = IF more THEN Last(page) ELSE @,
                                    !.st = IF more THEN "paging" ELSE "done"]
        /\ UNCHANGED <<own, shared>>

(* Between two pages a workflow is created, published, withdrawn, deleted. *)
ListChange ==
    /\ paging.st = "paging" /\ paging.got # << >>
    /\ \E l \in ListIds :
          \/ own' = (own \ {l}) \cup ({l} \ own) /\ UNCHANGED shared
          \/ shared' = (shared \ {l}) \cup ({l} \ shared) /\ UNCHANGED own
    /\ paging' = [paging EXCEPT !.kept = @ \cap (own' \cup shared'),
                                !.mine = @ \cap own']

ListNext == (\E n \in ListLimits : BeginList(n)) \/ (\E off \in BOOLEAN : ListPage(off)) \/ ListChange

(* Paged to its end, the listing holds every lineage the viewer owned all  *)
(* along, and every one that was visible all along unless it lies within a *)
(* page flagged SharedUnavailable, in ascending order and none twice.      *)
(* Fetching limit + 1 rows from each source is enough for every split of   *)
(* the lineages between the two, and a flagged page hides nothing beyond   *)
(* its own range.                                                          *)
ListIsComplete ==
    paging.st = "done" =>
        /\ paging.mine \subseteq ToSet(paging.got)
        /\ paging.kept \subseteq ToSet(paging.got) \cup paging.dark
        /\ \A i, j \in DOMAIN paging.got : i < j => paging.got[i] < paging.got[j]
=============================================================================
