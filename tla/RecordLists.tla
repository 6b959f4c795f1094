----------------------------- MODULE RecordLists -----------------------------
(***************************************************************************)
(* The lists of the office: site history, upload logs and issues, read in  *)
(* pages from either record store under a filter, while records are added  *)
(* and, on the issue list, created, changed and deleted on the screen.     *)
(*                                                                         *)
(* Every load takes the filter it was started with, waits for nothing and  *)
(* nobody waits for it: what arrives last is what is shown.  A load that   *)
(* fails leaves the rows there are.                                        *)
(*                                                                         *)
(* What is abstracted: a record is a number (newer is larger) and one mark *)
(* (a result, a status, a technician) that a filter asks for; one change   *)
(* is under way at a time, where the screen keeps only the buttons of the  *)
(* issue that is being changed disabled.                                   *)
(***************************************************************************)
EXTENDS DateRange, Calendar

CONSTANTS
    MaxRecords,  \* bound: records that there may be
    RecordMarks, \* what a record may be marked with
    NewMark,     \* the status of a new issue
    PageSize,    \* records per page
    Loads        \* bound: places for the loads under way at once, 1 .. n

ASSUME RecordsAssumption ==
    /\ MaxRecords \in Nat /\ PageSize \in Nat \ {0} /\ Loads \subseteq Nat /\ 1 \in Loads
    /\ NewMark \in RecordMarks /\ None \notin RecordMarks \cup 0 .. MaxRecords

VARIABLES
    listName, \* "history", "logs" or "issues"
    paging,   \* "offset" on the JSON store, "token" in Azure Tables
    shelf,    \* the records of the store, newest first
    mark,     \* per record that there ever was, its mark
    asking,   \* the filter that is set; None: every record
    visible,  \* the rows on the screen
    nextPage, \* where the next page begins; None: nowhere
    loading,  \* whether the screen says so
    loads,    \* per load under way, what it asked and what it was told
    changing, \* what is being done to an issue
    muddled,  \* ghost: the rows stem from loads or changes that overlapped
    grown,    \* ghost: a record was added since the first page was read
    owed      \* ghost: what the pages together have to show

recordsVars == <<listName, paging, shelf, mark, asking, visible, nextPage, loading,
                loads, changing, muddled, grown, owed>>

RecordIds == 1 .. MaxRecords
ListFilters == RecordMarks \cup {None}
Row == [id : RecordIds, mark : RecordMarks]
ListCursors == 0 .. MaxRecords \cup {None}

Load == [ filter : ListFilters, append : BOOLEAN, from : ListCursors,
          alone  : BOOLEAN, grown : BOOLEAN, owed : SUBSET RecordIds,
          answered : BOOLEAN, page : Seq(Row), next : ListCursors ]

Change == [ does : {"create", "status", "comment", "delete"}, id : RecordIds, mark : RecordMarks,
            done : BOOLEAN ]

ASSUME LoadAssumption == None \notin Load \cup Change

RecordsTypeOK ==
    /\ listName \in {"history", "logs", "issues"} /\ paging \in {"offset", "token"}
    /\ shelf \in Seq(RecordIds)
    /\ mark \in [RecordIds -> RecordMarks \cup {None}]
    /\ asking \in ListFilters /\ visible \in Seq(Row) /\ nextPage \in ListCursors
    /\ loading \in BOOLEAN /\ muddled \in BOOLEAN /\ grown \in BOOLEAN
    /\ loads \in [Loads -> Load \cup {None}]
    /\ changing \in Change \cup {None}
    /\ owed \subseteq RecordIds

\* The screen opens and loads.
Asked(f, append, from) ==
    [ filter |-> f, append |-> append, from |-> from, alone |-> TRUE, grown |-> FALSE,
      owed |-> {}, answered |-> FALSE, page |-> << >>, next |-> None ]

RecordsInit ==
    /\ listName \in {"history", "logs", "issues"} /\ paging \in {"offset", "token"}
    /\ \E n \in 0 .. MaxRecords :
         /\ shelf = [i \in 1 .. n |-> n + 1 - i]
         /\ mark \in {m \in [RecordIds -> RecordMarks \cup {None}] : \A r \in RecordIds : m[r] = None <=> r > n}
    /\ asking = None /\ visible = << >> /\ nextPage = None /\ loading = TRUE
    /\ loads = [l \in Loads |-> IF l = 1 THEN Asked(None, FALSE, None) ELSE None]
    /\ changing = None /\ muddled = FALSE /\ grown = FALSE /\ owed = {}

----------------------------------------------------------------------------
(* The server *)

Fits(r, f) == f = None \/ mark[r] = f

RowOf(r) == [id |-> r, mark |-> mark[r]]

Matching(f) == Filtered(shelf, {r \in RecordIds : Fits(r, f)})

\* Mutant: the next page begins one record too late.
NextOffset_Over(start) == start + PageSize + 1

NextOffset(start) == start + PageSize

FirstOf(s, start) == SubSeq(s, start + 1, IF start + PageSize < Len(s) THEN start + PageSize ELSE Len(s))

\* By offset, the cursor counts matching records.
OffsetPage(f, from) ==
    LET all == Matching(f)
        start == IF from = None THEN 0 ELSE from
        next == NextOffset(start)
    IN  [page |-> FirstOf(all, start), next |-> IF next < Len(all) THEN next ELSE None]

\* By token, it names the last record that was read; a page may end with a
\* token though nothing follows.
TokenPages(f, from) ==
    LET rest == Filtered(Matching(f), {r \in RecordIds : from = None \/ r < from})
        page == FirstOf(rest, 0)
        final == IF page = << >> THEN None ELSE page[Len(page)]
    IN  {[page |-> page, next |-> n] :
           n \in IF Len(rest) > PageSize THEN {final} ELSE {final, None}}

\* Azure Tables cannot ask for a technician: the history narrows what a page of
\* all sites has.
NarrowedPage(f) ==
    [page |-> Filtered(FirstOf(shelf, 0), {r \in RecordIds : Fits(r, f)}), next |-> None]

ServedPages(f, from) ==
    IF paging = "offset" THEN {OffsetPage(f, from)}
    ELSE IF listName = "history" THEN {NarrowedPage(f)} ELSE TokenPages(f, from)

LoadServed(l) ==
    /\ loads[l] # None /\ ~loads[l].answered
    /\ \E p \in ServedPages(loads[l].filter, loads[l].from) :
         loads' = [loads EXCEPT ![l].answered = TRUE, ![l].next = p.next,
                     ![l].page = [i \in DOMAIN p.page |-> RowOf(p.page[i])],
                     ![l].owed = IF listName = "logs" THEN Elements(Matching(loads[l].filter))
                                   ELSE Elements(p.page)]
    /\ UNCHANGED <<listName, paging, shelf, mark, asking, visible, nextPage, loading,
                   changing, muddled, grown, owed, spent>>

\* r is the number of the next new record.
New(r) == mark[r] = None /\ \A n \in 1 .. r - 1 : mark[n] # None

\* A submission, an attempt or an issue of somebody else.
RecordAdded(r, m) ==
    /\ New(r) /\ (listName = "issues" => m = NewMark)
    /\ (changing # None => changing.id # r)
    /\ shelf' = <<r>> \o shelf
    /\ mark' = [mark EXCEPT ![r] = m]
    /\ grown' = TRUE
    /\ loads' = [l \in Loads |-> IF loads[l] = None THEN None
                                 ELSE [loads[l] EXCEPT !.grown = loads[l].answered]]
    /\ Spend("record")
    /\ UNCHANGED <<listName, paging, asking, visible, nextPage, loading, changing, muddled, owed>>

----------------------------------------------------------------------------
(* Loads *)

Quiet == changing = None /\ \A l \in Loads : loads[l] = None

\* A load starts beside whatever is under way.
Starts(load) ==
    /\ \E n \in Loads :
         /\ loads[n] = None /\ \A l \in Loads : l < n => loads[l] # None
         /\ loads' = [l \in Loads |->
                        IF l = n THEN [load EXCEPT !.alone = Quiet]
                        ELSE IF loads[l] = None THEN None ELSE [loads[l] EXCEPT !.alone = FALSE]]
    /\ loading' = TRUE

\* Setting a filter loads, through the effect of the screen.
SetFilterTo(f) ==
    /\ f # asking /\ Spend("reload")
    /\ asking' = f
    /\ Starts(Asked(f, FALSE, None))
    /\ UNCHANGED <<listName, paging, shelf, mark, visible, nextPage, changing, muddled, grown, owed>>

Refreshes ==
    /\ Spend("reload")
    /\ Starts(Asked(asking, FALSE, None))
    /\ UNCHANGED <<listName, paging, shelf, mark, asking, visible, nextPage, changing, muddled, grown, owed>>

\* Only the logs go on; their button waits for the load that it knows of.
LoadsMore ==
    /\ listName = "logs" /\ nextPage # None /\ ~loading
    /\ Starts(Asked(asking, TRUE, nextPage))
    /\ UNCHANGED <<listName, paging, shelf, mark, asking, visible, nextPage, changing, muddled, grown, owed, spent>>

LoadArrives(l) ==
    /\ loads[l] # None /\ loads[l].answered
    /\ LET a == loads[l]
       IN  /\ visible' = IF a.append THEN visible \o a.page ELSE a.page
           /\ nextPage' = IF listName = "logs" THEN a.next ELSE None
           /\ IF a.append THEN UNCHANGED <<grown, owed>>
              ELSE grown' = a.grown /\ owed' = a.owed
           /\ muddled' = (~a.alone \/ (a.append /\ muddled))
    /\ loads' = [loads EXCEPT ![l] = None]
    /\ loading' = FALSE
    /\ UNCHANGED <<listName, paging, shelf, mark, asking, changing, spent>>

\* The rows stay, whatever the filter says by now.
LoadFails(l) ==
    /\ loads[l] # None /\ Spend("lost")
    /\ muddled' = (muddled \/ ~loads[l].append)
    /\ loads' = [loads EXCEPT ![l] = None]
    /\ loading' = FALSE
    /\ UNCHANGED <<listName, paging, shelf, mark, asking, visible, nextPage, changing, grown, owed>>

----------------------------------------------------------------------------
(* Issues *)

Starting(d, r, m) ==
    /\ listName = "issues" /\ changing = None /\ Spend("change")
    /\ changing' = [does |-> d, id |-> r, mark |-> m, done |-> FALSE]
    /\ loads' = [l \in Loads |-> IF loads[l] = None THEN None ELSE [loads[l] EXCEPT !.alone = FALSE]]
    /\ UNCHANGED <<listName, paging, shelf, mark, asking, visible, nextPage, loading, muddled, grown, owed>>

HandleCreate(r) == New(r) /\ Starting("create", r, NewMark)

HandleStatusChange(r, m) == r.mark # m /\ Starting("status", r.id, m)

\* A comment is answered with the issue as it is.
HandleComment(r) == Starting("comment", r.id, mark[r.id])

HandleDelete(r) == Starting("delete", r.id, r.mark)

\* An issue that is deleted cannot be changed, only deleted again.
IssueGone == changing.does \in {"status", "comment"} /\ changing.id \notin Elements(shelf)

\* The JSON store lists what was touched last first.
ChangeServed ==
    /\ changing # None /\ ~changing.done /\ ~IssueGone
    /\ LET others == Filtered(shelf, RecordIds \ {changing.id})
       IN  /\ shelf' = CASE changing.does = "delete" -> others
                         [] changing.does \in {"status", "comment"} /\ paging = "token" -> shelf
                         [] OTHER -> <<changing.id>> \o others
           /\ mark' = [mark EXCEPT ![changing.id] = changing.mark]
    /\ changing' = [changing EXCEPT !.done = TRUE]
    /\ UNCHANGED <<listName, paging, asking, visible, nextPage, loading, loads, muddled, grown, owed, spent>>

ChangeAnswered ==
    /\ changing # None /\ changing.done
    /\ LET row == [id |-> changing.id, mark |-> changing.mark]
       IN  visible' = CASE changing.does = "create" -> <<row>> \o visible
                     [] changing.does = "delete" -> Filtered(visible, {r \in Row : r.id # changing.id})
                     [] OTHER -> [i \in DOMAIN visible |-> IF visible[i].id = changing.id THEN row ELSE visible[i]]
    /\ owed' = owed \ {changing.id}
    /\ changing' = None
    /\ UNCHANGED <<listName, paging, shelf, mark, asking, nextPage, loading, loads, muddled, grown, spent>>

\* Refused, or the answer is lost: the row stays as it is.
ChangeFails ==
    /\ changing # None
    /\ IF IssueGone THEN UNCHANGED spent ELSE Spend("lost")
    /\ muddled' = (muddled \/ changing.done)
    /\ changing' = None
    /\ UNCHANGED <<listName, paging, shelf, mark, asking, visible, nextPage, loading, loads, grown, owed>>

RecordsNext ==
    \/ \E l \in Loads : LoadServed(l) \/ LoadArrives(l) \/ LoadFails(l)
    \/ \E f \in ListFilters : SetFilterTo(f)
    \/ Refreshes \/ LoadsMore
    \/ \E r \in RecordIds : HandleCreate(r) \/ \E m \in RecordMarks : RecordAdded(r, m)
    \/ \E i \in DOMAIN visible : \/ \E m \in RecordMarks : HandleStatusChange(visible[i], m)
                                 \/ HandleComment(visible[i]) \/ HandleDelete(visible[i])
    \/ ChangeServed \/ ChangeAnswered \/ ChangeFails

----------------------------------------------------------------------------
(* Properties *)

\* When nothing is under way and no load or change overlapped another since
\* the last full load, every row is as the store has it and fits the filter
\* that is set, but for what was changed on this screen; at the end of the
\* pages everything is shown that was there when the first was read, whatever
\* is added meanwhile; and no row is shown twice, except by offsets when
\* records were added between two pages.
RowsFitTheirFilter ==
    Quiet /\ ~muddled =>
      LET shown == {visible[i].id : i \in DOMAIN visible}
      IN  /\ \A i \in DOMAIN visible :
               /\ visible[i].mark = mark[visible[i].id]
               /\ Fits(visible[i].id, asking) \/ visible[i].id \notin owed
          /\ nextPage = None => owed \subseteq shown
          /\ Cardinality(shown) = Len(visible) \/ (grown /\ paging = "offset" /\ listName = "logs")

\* Lists, periods and calendar show what there is, and say what they show.
ListsTellTheTruth ==
    /\ [](RowsFitTheirFilter /\ BoxesShowTheRange /\ CalendarIsRight)
    /\ MonthsStepByOne
=============================================================================
