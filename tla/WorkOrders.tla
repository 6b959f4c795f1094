----------------------------- MODULE WorkOrders -----------------------------
(***************************************************************************)
(* The list of sites to be built.  Google Sheets are its original: a timer *)
(* and the office's button read a linked sheet and bring the list in line  *)
(* with it.  Order files are imported into the same list, the office edits,*)
(* reopens, cancels and removes orders by hand, and a submission that names*)
(* an order closes it.  Nothing locks an order: each of them reads it,     *)
(* awaits, and writes the whole order back.                                *)
(*                                                                         *)
(* The table store keeps an order in a row named after its day: to save an *)
(* order of another day it deletes the old row, then writes the new one.   *)
(* The JSON store saves in one step, as this module does when all values   *)
(* are of one day.                                                         *)
(*                                                                         *)
(* What is abstracted: all links and orders are of one 시공종류; the fields *)
(* of an order are one value, which editedFields protects as a whole; a    *)
(* cancelled row is a row that is not there, as buildDrafts' callers drop  *)
(* it; the tabs of a sheet are read in one step; a link is always due; the *)
(* list fits one page of the store; and of the two rows that crossing      *)
(* writers may leave of one order in the table store the later one counts. *)
(***************************************************************************)
EXTENDS Common

CONSTANTS
    OrderKeys,   \* what sourceKeyFor tells apart
    SheetLinks,  \* the sheets that may be linked
    LinkOf,      \* per key, the sheet its row is on
    TabOf,       \* per key, the tab its row is on
    TabsOf,      \* per sheet, its tabs
    RowValues,   \* what a row of a sheet or file may say
    Unfit,       \* what a row says that names an unregistered 시공종류
    HandValue,   \* what the office types
    DayOf,       \* per value, the day it gives
    OrderIds     \* identities the list has room for

Rows   == [OrderKeys -> RowValues \cup {Unfit, None}]
Orders == [ key    : OrderKeys,
            value  : RowValues \cup {HandValue},
            edited : BOOLEAN,
            status : {"OPEN", "SUBMITTED", "CANCELLED"},
            source : {"GOOGLE_SHEET", "EXCEL"},
            link   : SheetLinks \cup {None} ]

ASSUME WorkOrdersAssumption ==
    /\ LinkOf \in [OrderKeys -> SheetLinks]
    /\ \A k \in OrderKeys : TabOf[k] \in TabsOf[LinkOf[k]]
    /\ HandValue \notin RowValues \cup {Unfit} /\ Unfit \notin RowValues
    /\ None \notin RowValues \cup {HandValue, Unfit} \cup SheetLinks \cup OrderIds
    /\ None \notin Orders /\ IsFiniteSet(SheetLinks)

Importers == {"tick", "manual", "file"}
Editors   == {"office", "submission"}
OfficeOps == {"update", "reopen", "cancel", "close", "remove"}

(***************************************************************************)
(* An import under way.  id and copy are what findBySourceKey answered for *)
(* key, doomed what removeMissing picked from its listing.                 *)
(***************************************************************************)
Import == [ phase  : {"idle", "rows", "save", "remove"},
            link   : SheetLinks \cup {None},
            drafts : Rows,
            todo   : SUBSET OrderKeys,
            failed : BOOLEAN,
            key    : OrderKeys \cup {None},
            id     : OrderIds \cup {None},
            copy   : Orders \cup {None},
            doomed : SUBSET OrderIds ]

Edit == [ op   : OfficeOps \cup {"submit", "none"},
          id   : OrderIds \cup {None},
          copy : Orders \cup {None} ]

VARIABLES
    sheet,    \* per key, what its row says now
    gone,     \* keys whose row has been off its sheet
    links,    \* linked sheets
    paused,   \* linked sheets whose automatic reading is off
    round,    \* links the timer's round has yet to look at
    orders,   \* per identity, the stored order
    imports,  \* per importer, what it is doing
    edits,    \* per editor, what it is doing
    moving,   \* who has deleted the row of the order it is saving
    crossed   \* keys where one writer wrote while another held a copy

ordersVars == <<sheet, gone, links, paused, round, orders, imports, edits, moving, crossed>>

linkState == <<links, paused, round>>

IdleImport == [ phase |-> "idle", link |-> None, drafts |-> [k \in OrderKeys |-> None],
                todo |-> {}, failed |-> FALSE, key |-> None,
                id |-> None, copy |-> None, doomed |-> {} ]
IdleEdit   == [ op |-> "none", id |-> None, copy |-> None ]

OrdersTypeOK ==
    /\ sheet \in Rows
    /\ gone \subseteq OrderKeys
    /\ links \subseteq SheetLinks
    /\ paused \subseteq SheetLinks
    /\ round \subseteq SheetLinks
    /\ orders \in [OrderIds -> Orders \cup {None}]
    /\ imports \in [Importers -> Import]
    /\ edits \in [Editors -> Edit]
    /\ moving \subseteq Importers \cup Editors
    /\ crossed \subseteq OrderKeys

OrdersInit ==
    /\ sheet \in [OrderKeys -> RowValues \cup {None}]
    /\ gone = {k \in OrderKeys : sheet[k] = None}
    /\ links = SheetLinks
    /\ paused = {}
    /\ round = {}
    /\ orders = [i \in OrderIds |-> None]
    /\ imports = [p \in Importers |-> IdleImport]
    /\ edits = [e \in Editors |-> IdleEdit]
    /\ moving = {}
    /\ crossed = {}

----------------------------------------------------------------------------
(* The store and those who hold what they read from it *)

Listed == {i \in OrderIds : orders[i] # None}

WithKey(k) == {i \in Listed : orders[i].key = k}

\* Identities nobody's copy or listing still names: random ones in the code.
FreshIds == {i \in OrderIds \ Listed :
                /\ \A p \in Importers : i # imports[p].id /\ i \notin imports[p].doomed
                /\ \A e \in Editors : i # edits[e].id}

\* One is as good as another.
FreshId == CHOOSE i \in FreshIds : TRUE

\* Keys that actor a holds an answer for and may write on the strength of it.
Held(a) ==
    IF a \in Editors
    THEN {k \in OrderKeys : edits[a].copy # None /\ edits[a].copy.key = k}
    ELSE {k \in OrderKeys :
             \/ imports[a].phase = "save" /\ imports[a].key = k
             \/ \E i \in imports[a].doomed \cap Listed : orders[i].key = k}

\* Actor a writes under the keys ks.
Cross(a, ks) ==
    crossed' = crossed \cup
        {k \in ks : \E b \in (Importers \cup Editors) \ {a} : k \in Held(b)}

\* The row of order i is of another day than order o.
Displaced(i, o) == orders[i] # None /\ o # None /\ DayOf[orders[i].value] # DayOf[o.value]

\* Actor a deletes the row of order i, of key k, to write it under another day.
TakeOut(a, i, k) ==
    /\ orders' = [orders EXCEPT ![i] = None]
    /\ moving' = moving \cup {a}
    /\ Cross(a, {k})

Becomes(p, w) == imports' = [imports EXCEPT ![p] = w]

----------------------------------------------------------------------------
(* Reading a sheet *)

RowsOf(l, lost) == {k \in OrderKeys : LinkOf[k] = l /\ TabOf[k] \notin lost /\ sheet[k] # None}

\* fetchAllTabs: a tab that answers with an error is passed over.
Read(p, l, lost) ==
    /\ imports[p].phase = "idle" /\ l \in links
    /\ LET rows == RowsOf(l, lost)
       IN Becomes(p, [IdleImport EXCEPT
                 !.phase = "rows", !.link = l, !.todo = rows,
                 !.drafts = [k \in OrderKeys |-> IF k \in rows THEN sheet[k] ELSE None]])

\* The minute timer: one round at a time, over the links as they are now.
TickStarts ==
    /\ round = {} /\ imports["tick"].phase = "idle"
    /\ links \ paused # {}
    /\ round' = links \ paused
    /\ UNCHANGED <<sheet, gone, links, paused, orders, imports, edits, moving, crossed, spent>>

TickReads(l) ==
    /\ l \in round
    /\ round' = round \ {l}
    /\ \/ Read("tick", l, {}) /\ UNCHANGED spent
       \/ \E t \in TabsOf[l] : TabsOf[l] # {t} /\ Read("tick", l, {t}) /\ Spend("tab")
    /\ UNCHANGED <<sheet, gone, links, paused, orders, edits, moving, crossed>>

\* The link is gone (404) or the sheet cannot be read; the round goes on.
TickSkips(l) ==
    /\ l \in round /\ imports["tick"].phase = "idle"
    /\ round' = round \ {l}
    /\ IF l \in links THEN Spend("call") ELSE UNCHANGED spent
    /\ UNCHANGED <<sheet, gone, links, paused, orders, imports, edits, moving, crossed>>

\* The button of the settings screen; running does not keep it waiting.
ManualReads(l) ==
    /\ Read("manual", l, {})
    /\ Spend("manual")
    /\ UNCHANGED <<sheet, gone, linkState, orders, edits, moving, crossed>>

\* POST /import: a row of an order file the office has looked over.
FileReads(k, v) ==
    /\ imports["file"].phase = "idle"
    /\ Spend("file")
    /\ Becomes("file", [IdleImport EXCEPT !.phase = "rows", !.todo = {k}, !.drafts[k] = v])
    /\ UNCHANGED <<sheet, gone, linkState, orders, edits, moving, crossed>>

----------------------------------------------------------------------------
(* importDrafts *)

\* What the row makes of the order it was found to be.  Only a file overwrites
\* what the office typed; the first link keeps the order.
Merged(p, row, old) ==
    [old EXCEPT !.value = IF old.edited /\ p # "file" THEN @ ELSE row,
                !.link  = IF @ # None THEN @ ELSE imports[p].link]

\* Mutant: a finished order is brought back by its row.
Skipped_Never(p, k, old) == Merged(p, imports[p].drafts[k], old) = old

\* A finished order is history, an unchanged one is left alone.
Skipped(p, k, old) ==
    \/ old.status = "SUBMITTED"
    \/ Merged(p, imports[p].drafts[k], old) = old

\* Mutant: only open orders are looked up.
FoundBy_Open(k) == {i \in WithKey(k) : orders[i].status = "OPEN"}

FoundBy(k) == WithKey(k)

\* Mutant: rows are saved as they were read.
Normalized_Any(d) == d \in RowValues \cup {Unfit}

\* A row with a known 시공종류 and, if it has a date, a proper one.
Normalized(d) == d \in RowValues

\* normalizeDraft throws: the row is counted as failed and its key not as seen.
RowUnfit(p, k) ==
    /\ imports[p].phase = "rows" /\ k \in imports[p].todo
    /\ ~Normalized(imports[p].drafts[k])
    /\ Becomes(p, [imports[p] EXCEPT !.todo = @ \ {k}, !.drafts[k] = None, !.failed = TRUE])
    /\ UNCHANGED <<sheet, gone, linkState, orders, edits, moving, crossed, spent>>

\* findBySourceKey, and what is decided on its answer.
Find(p, k) ==
    /\ imports[p].phase = "rows" /\ k \in imports[p].todo
    /\ Normalized(imports[p].drafts[k])
    /\ \/ /\ FoundBy(k) = {}
          /\ Becomes(p, [imports[p] EXCEPT !.phase = "save", !.todo = @ \ {k}, !.key = k])
       \/ \E i \in FoundBy(k) :
             Becomes(p, IF Skipped(p, k, orders[i])
                        THEN [imports[p] EXCEPT !.todo = @ \ {k}]
                        ELSE [imports[p] EXCEPT !.phase = "save", !.todo = @ \ {k}, !.key = k,
                                                !.id = i, !.copy = orders[i]])
    /\ UNCHANGED <<sheet, gone, linkState, orders, edits, moving, crossed, spent>>

NewOrder(p) == [ key |-> imports[p].key, value |-> imports[p].drafts[imports[p].key],
                 edited |-> FALSE, status |-> "OPEN",
                 source |-> IF p = "file" THEN "EXCEL" ELSE "GOOGLE_SHEET",
                 link |-> imports[p].link ]

Answered(p) == [imports[p] EXCEPT !.phase = "rows", !.id = None, !.copy = None]

\* The order p is to save in place of the one it was answered.
Updated(p) == Merged(p, imports[p].drafts[imports[p].key], imports[p].copy)

\* save finds a row of another day under the identity.
RowMoves(p) ==
    LET w == imports[p] IN
    /\ w.phase = "save" /\ w.id # None /\ p \notin moving
    /\ Displaced(w.id, Updated(p))
    /\ TakeOut(p, w.id, w.key)
    /\ UNCHANGED <<sheet, gone, linkState, imports, edits, spent>>

SaveRow(p) ==
    LET w == imports[p] IN
    /\ w.phase = "save"
    /\ IF w.id = None
       THEN FreshIds # {} /\ orders' = [orders EXCEPT ![FreshId] = NewOrder(p)]
       ELSE /\ p \in moving \/ ~Displaced(w.id, Updated(p))
            /\ orders' = [orders EXCEPT ![w.id] = Updated(p)]
    /\ moving' = moving \ {p}
    /\ Becomes(p, Answered(p))
    /\ Cross(p, {w.key})
    /\ UNCHANGED <<sheet, gone, linkState, edits, spent>>

\* The store rejects: the row is counted as failed and the import goes on.  An
\* order whose row was deleted is lost.
RowFails(p) ==
    /\ imports[p].phase = "save"
    /\ Spend("call")
    /\ moving' = moving \ {p}
    /\ Becomes(p, [Answered(p) EXCEPT !.failed = TRUE])
    /\ UNCHANGED <<sheet, gone, linkState, orders, edits, crossed>>

----------------------------------------------------------------------------
(* removeMissing *)

\* Mutant: only the only sheet of its 시공종류 is cleaned up after.
InScope_Sole(p, o) == Cardinality(links) <= 1

\* The only sheet of its 시공종류 also clears up what unlinked sheets left.
InScope(p, o) == Cardinality(links) <= 1 \/ o.link = imports[p].link

\* Orders of the sheet whose row this sync has not seen.
Missing(p) ==
    {i \in Listed : /\ orders[i].source = "GOOGLE_SHEET"
                    /\ orders[i].status # "SUBMITTED"
                    /\ InScope(p, orders[i])
                    /\ imports[p].drafts[orders[i].key] = None}

\* Mutant: rows that could not be saved do not stop the removal.
Removable_Always(p) == TRUE

Removable(p) == ~imports[p].failed

RowsDone(p) ==
    /\ imports[p].phase = "rows" /\ imports[p].todo = {}
    /\ LET missing == IF p # "file" /\ Removable(p) THEN Missing(p) ELSE {}
       IN Becomes(p, IF missing = {} THEN IdleImport
                     ELSE [imports[p] EXCEPT !.phase = "remove", !.doomed = missing])
    /\ UNCHANGED <<sheet, gone, linkState, orders, edits, moving, crossed, spent>>

Remove(p, i) ==
    LET rest == imports[p].doomed \ {i} IN
    /\ i \in imports[p].doomed
    /\ orders' = [orders EXCEPT ![i] = None]
    /\ Becomes(p, IF rest = {} THEN IdleImport ELSE [imports[p] EXCEPT !.doomed = rest])
    /\ Cross(p, {orders[j].key : j \in {i} \cap Listed})
    /\ UNCHANGED <<sheet, gone, linkState, edits, moving, spent>>

\* The listing or a removal is rejected: the sync ends, reported as failed.
SyncThrows(p) ==
    /\ \/ imports[p].phase = "rows" /\ imports[p].todo = {}
       \/ imports[p].phase = "remove"
    /\ Spend("call")
    /\ Becomes(p, IdleImport)
    /\ UNCHANGED <<sheet, gone, linkState, orders, edits, moving, crossed>>

----------------------------------------------------------------------------
(* The office and the technicians *)

Reads(e, op, i) ==
    /\ edits[e].op = "none" /\ i \in Listed
    /\ edits' = [edits EXCEPT ![e] = [op |-> op, id |-> i, copy |-> orders[i]]]
    /\ UNCHANGED <<sheet, gone, linkState, orders, imports, moving, crossed>>

OfficeReads(op, i) == Reads("office", op, i) /\ Spend("office")

\* A submission names the order; markSubmitted reads it once more.
SubmissionReads(i) == Reads("submission", "submit", i) /\ Spend("submit")

\* The whole order as the editor read it, changed in what it is about.
Written(op, c) ==
    CASE op = "update"              -> [c EXCEPT !.value = HandValue,
                                                 !.edited = @ \/ c.value # HandValue]
      [] op = "reopen"              -> [c EXCEPT !.status = "OPEN"]
      [] op = "cancel"              -> [c EXCEPT !.status = "CANCELLED"]
      [] op \in {"close", "submit"} -> [c EXCEPT !.status = "SUBMITTED"]
      [] op = "remove"              -> None

WriteMoves(e) ==
    LET w == edits[e] IN
    /\ w.op # "none" /\ e \notin moving
    /\ Displaced(w.id, Written(w.op, w.copy))
    /\ TakeOut(e, w.id, w.copy.key)
    /\ UNCHANGED <<sheet, gone, linkState, imports, edits, spent>>

Writes(e) ==
    LET w == edits[e] IN
    /\ w.op # "none"
    /\ e \in moving \/ ~Displaced(w.id, Written(w.op, w.copy))
    /\ orders' = [orders EXCEPT ![w.id] = Written(w.op, w.copy)]
    /\ moving' = moving \ {e}
    /\ edits' = [edits EXCEPT ![e] = IdleEdit]
    /\ Cross(e, {w.copy.key})
    /\ UNCHANGED <<sheet, gone, linkState, imports, spent>>

\* The save is rejected; markSubmitted swallows it, the office sees an error.
\* An order whose row was deleted is lost.
WriteFails(e) ==
    /\ edits[e].op # "none"
    /\ Spend("call")
    /\ moving' = moving \ {e}
    /\ edits' = [edits EXCEPT ![e] = IdleEdit]
    /\ UNCHANGED <<sheet, gone, linkState, orders, imports, crossed>>

----------------------------------------------------------------------------
(* Around the list *)

RowChanges(k, v) ==
    /\ v # sheet[k]
    /\ Spend("row")
    /\ sheet' = [sheet EXCEPT ![k] = v]
    /\ gone' = IF v = None THEN gone \cup {k} ELSE gone
    /\ UNCHANGED <<linkState, orders, imports, edits, moving, crossed>>

\* save and remove of a link, and setEnabled.
LinkChanges ==
    /\ Spend("link")
    /\ \E l \in SheetLinks :
          \/ l \in links /\ links' = links \ {l} /\ UNCHANGED paused
          \/ l \notin links /\ links' = links \cup {l} /\ paused' = paused \ {l}
          \/ /\ l \in links /\ UNCHANGED links
             /\ paused' = IF l \in paused THEN paused \ {l} ELSE paused \cup {l}
    /\ UNCHANGED <<sheet, gone, round, orders, imports, edits, moving, crossed>>

\* The process ends and starts again: links and orders are in the store.
OrdersCrash ==
    /\ Spend("crash")
    /\ round' = {}
    /\ imports' = [p \in Importers |-> IdleImport]
    /\ edits' = [e \in Editors |-> IdleEdit]
    /\ moving' = {}
    /\ UNCHANGED <<sheet, gone, links, paused, orders, crossed>>

----------------------------------------------------------------------------
SyncStep(p) ==
    \/ \E k \in OrderKeys : RowUnfit(p, k) \/ Find(p, k)
    \/ RowMoves(p) \/ SaveRow(p)
    \/ RowsDone(p)
    \/ \E i \in OrderIds : Remove(p, i)

EditStep(e) == WriteMoves(e) \/ Writes(e)

TimerStep ==
    \/ TickStarts
    \/ \E l \in SheetLinks : TickReads(l) \/ TickSkips(l)

OrdersNext ==
    \/ TimerStep
    \/ \E l \in SheetLinks : ManualReads(l)
    \/ \E k \in OrderKeys, v \in RowValues : FileReads(k, v)
    \/ \E p \in Importers : SyncStep(p) \/ RowFails(p) \/ SyncThrows(p)
    \/ \E i \in OrderIds : \/ \E op \in OfficeOps : OfficeReads(op, i)
                           \/ SubmissionReads(i)
    \/ \E e \in Editors : EditStep(e) \/ WriteFails(e)
    \/ \E k \in OrderKeys, v \in RowValues \cup {Unfit, None} : RowChanges(k, v)
    \/ LinkChanges
    \/ OrdersCrash

\* The interval goes on firing and what the server awaits is answered.
OrdersFairness ==
    /\ WF_<<ordersVars, spent>>(TickStarts)
    /\ WF_<<ordersVars, spent>>(\E l \in SheetLinks : TickReads(l) \/ TickSkips(l))
    /\ \A p \in Importers : WF_<<ordersVars, spent>>(SyncStep(p))
    /\ \A e \in Editors : WF_<<ordersVars, spent>>(EditStep(e))

OrdersSpec == OrdersInit /\ NothingSpent /\ [][OrdersNext]_<<ordersVars, spent>> /\ OrdersFairness

----------------------------------------------------------------------------
(* Properties *)

\* One site is one order, however often its row is read, by whom, and in
\* whatever state the order is: two technicians must not both be sent there.
\* The exception is the row two writers handled at once (no lock is taken).
OneOrderPerKey ==
    \A k \in OrderKeys \ crossed : Cardinality(WithKey(k)) <= 1

\* The order an actor saves, as it was read, and its identity.
Carried(a)   == IF a \in Editors THEN edits[a].copy ELSE imports[a].copy
CarriedId(a) == IF a \in Editors THEN edits[a].id ELSE imports[a].id

\* What stands of order i: its row, or the order on its way to another row.
Standing(i) ==
    IF orders[i] # None THEN {orders[i]}
    ELSE {Carried(a) : a \in {b \in moving : CarriedId(b) = i}}

\* A finished order is history: no sync, import or removal of missing rows
\* reopens, changes or deletes it.  Only what the office itself asked for does,
\* except where two writers crossed.
FinishedStays(i, o) ==
    o.status = "SUBMITTED" /\ Standing(i)' # {o}
    => \/ o.key \in crossed'
       \/ edits["office"].id = i /\ edits'["office"].op = "none"

\* What the office typed over a row stays until it types again or reads in a
\* file, however often the sheet is synced (overwriteEdited: false).
HandEditStays(i, o) ==
    o.edited /\ orders'[i] # None /\ orders'[i].value # o.value
    => \/ o.key \in crossed'
       \/ imports["file"].id = i
       \/ edits["office"].op = "update" /\ edits["office"].id = i

\* A save of order i ends early, between the old row and the new one.
MoveFails(i) ==
    /\ \E a \in moving : CarriedId(a) = i
    /\ \E k \in {"call", "crash"} : Happened(k)' # Happened(k)

\* The order of a row that has been on its sheet all along is lost by no sync,
\* be the row unfit or its save rejected, unless a tab was passed over, links
\* changed, or a rejected call or a restart cut its move to another day short.
ShownRowStays(i, o) ==
    Standing(i)' = {} /\ o.key \notin gone
    => \/ Happened("tab") > 0 \/ Happened("link") > 0
       \/ MoveFails(i)
       \/ edits["office"].op = "remove" /\ edits["office"].id = i

\* No sync undoes what people did: finished orders and typed values stay, and
\* so do orders whose rows are there, also while they move to another day.
SyncsDoNoHarm ==
    [][\A i \in OrderIds : \A o \in Standing(i) :
          FinishedStays(i, o) /\ HandEditStays(i, o) /\ ShownRowStays(i, o)]_<<ordersVars, spent>>

\* ShownRowStays without the tabs and links: google-sheet.ts 498-500 and work-orders.ts
\* removeMissing promise that a sheet which was not read in full deletes nothing.
UnreadTabsDeleteNothing ==
    [][\A i \in OrderIds : \A o \in Standing(i) :
          Standing(i)' = {} /\ o.key \notin gone
          => MoveFails(i) \/ (edits["office"].op = "remove" /\ edits["office"].id = i)]_<<ordersVars, spent>>

Followed(k) ==
    LinkOf[k] \in links \ paused /\ (\A j \in OrderKeys : LinkOf[j] = LinkOf[k] => sheet[j] # Unfit)
    =>  IF sheet[k] # None
        THEN \E i \in WithKey(k) : \/ orders[i].status = "SUBMITTED"
                                   \/ orders[i].edited
                                   \/ orders[i].value = sheet[k]
        ELSE \A i \in WithKey(k) : \/ orders[i].status = "SUBMITTED"
                                   \/ orders[i].source # "GOOGLE_SHEET"
                                   \/ orders[i].link # LinkOf[k]

\* Once people stop changing things the list follows every linked sheet: what
\* a row says is in the list, and an order without a row has left it.  A sheet
\* with an unfit row is never cleaned up, so it is left out.
ListFollowsSheet == \A k \in OrderKeys : <>[]Followed(k)
=============================================================================
