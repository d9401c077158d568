---------------------------- MODULE WantedPages -----------------------------
(***************************************************************************)
(* How a wanted list is read, page by page, and when what was read counts  *)
(* as the whole of it (fetchWantedCutoffPages, radarr.go).  Each page is a *)
(* request of its own, answered from the list as it then is.               *)
(***************************************************************************)
EXTENDS Integers, FiniteSets, Sequences

CONSTANTS
  PageSize,  \* wantedCutoffPageSize
  MaxPages   \* maxWantedCutoffPages

ASSUME PagesAssumption == PageSize \in Nat \ {0} /\ MaxPages \in Nat \ {0}

\* The n-th page of list.
PageOf(list, n) ==
  {list[i] : i \in {i \in 1 .. Len(list) : (n - 1) * PageSize < i /\ i <= n * PageSize}}

\* A fetch: the pages read, the total the first one gave, the records counted and
\* their ids.  History, for the properties: the ids that were in the list at every
\* request, and whether a record has arrived between two requests.
Fetches(Ids) ==
  [page : Nat, total : Nat, fetched : Nat, ids : SUBSET Ids,
   always : SUBSET Ids, grew : BOOLEAN, status : {"paging", "whole", "failed"}]
NewFetch ==
  [page |-> 0, total |-> 0, fetched |-> 0, ids |-> {}, always |-> {}, grew |-> FALSE,
   status |-> "paging"]

\* Mutant of Paged: an empty page ends the list, whatever its total.
PagedTrusting(f, list) ==
  LET records == PageOf(list, f.page + 1)
      total   == IF f.page = 0 THEN Len(list) ELSE f.total
      fetched == f.fetched + Cardinality(records)
      listed  == {list[i] : i \in 1 .. Len(list)}
  IN  [page |-> f.page + 1, total |-> total, fetched |-> fetched,
       ids |-> f.ids \cup records,
       always |-> IF f.page = 0 THEN listed ELSE f.always \cap listed,
       grew |-> f.page > 0 /\ (f.grew \/ ~(listed \subseteq f.always)),
       status |-> IF records = {} \/ fetched >= total THEN "whole"
                  ELSE IF f.page + 1 < MaxPages THEN "paging" ELSE "failed"]

\* The fetch f after its next page has been read from list.
Paged(f, list) ==
  LET records == PageOf(list, f.page + 1)
      total   == IF f.page = 0 THEN Len(list) ELSE f.total
      fetched == f.fetched + Cardinality(records)
      listed  == {list[i] : i \in 1 .. Len(list)}
  IN  [page |-> f.page + 1, total |-> total, fetched |-> fetched,
       ids |-> f.ids \cup records,
       always |-> IF f.page = 0 THEN listed ELSE f.always \cap listed,
       grew |-> f.page > 0 /\ (f.grew \/ ~(listed \subseteq f.always)),
       status |-> IF records = {} THEN IF fetched = total THEN "whole" ELSE "failed"
                  ELSE IF fetched >= total THEN "whole"
                  ELSE IF f.page + 1 < MaxPages THEN "paging" ELSE "failed"]
=============================================================================
