---------------------------- MODULE AdminTables ----------------------------
(***************************************************************************)
(* The two tables in which administrators change many entries at once: the *)
(* work orders and the roster of technicians.  An administrator narrows    *)
(* the table, ticks entries, and starts an action that calls the server    *)
(* for one entry after the other; meanwhile the table is refreshed by      *)
(* answers that were asked for earlier, other administrators and the sheet *)
(* sync change entries, and single entries are changed beside the bulk     *)
(* action.                                                                 *)
(*                                                                         *)
(* What is abstracted: an entry is one of two marks (what filters tell     *)
(* apart: its state, its 시공종류, its title) or gone; what an edit writes   *)
(* is the other mark; sorting, searching and messages are left out.        *)
(***************************************************************************)
EXTENDS Common

CONSTANTS
    Tables,    \* the screens looked at: "orders", "roster"
    Entries,   \* work orders, or technicians
    Marks,     \* what filters tell apart
    Clicks     \* the handlers that may be at work in one browser

ASSUME MarksAssumption ==
    /\ None \notin Marks
    /\ \A m \in Marks : \E o \in Marks : o # m

VARIABLES
    table,     \* the screen that is open
    entries,   \* per entry, its mark on the server, or None
    filter,    \* the mark the table shows
    listed,    \* per entry, its mark in the answer shown, or None
    answers,   \* listings on their way to the screen
    picked,    \* entries that are ticked
    busy,      \* what the screen believes is under way
    click      \* per handler, what it does

tablesVars == <<table, entries, filter, listed, answers, picked, busy, click>>

Listing == [Entries -> Marks \cup {None}]

\* A handler at work: the entries still to call for, those on the screen
\* when it was confirmed, the last list it was answered with.
Click == [ what   : {"bulk", "single"},
           does   : {"change", "delete"},
           left   : SUBSET Entries,
           seen   : SUBSET Entries,
           latest : Listing \cup {None},
           failed : BOOLEAN ]

TablesTypeOK ==
    /\ table \in Tables
    /\ entries \in Listing /\ listed \in Listing
    /\ filter \in Marks \cup {None}
    /\ answers \subseteq Listing
    /\ picked \subseteq Entries
    /\ busy \in {None, "bulk", "single"}
    /\ click \in [Clicks -> Click \cup {None}]

TablesInit ==
    /\ table \in Tables
    /\ entries \in [Entries -> Marks]
    /\ filter = None
    /\ listed = entries /\ answers = {}
    /\ picked = {} /\ busy = None
    /\ click = [c \in Clicks |-> None]

----------------------------------------------------------------------------
(* The table *)

\* The entries of listing l that filter f lets through.
Visible(l, f) == {e \in Entries : l[e] # None /\ (f = None \/ l[e] = f)}

\* Mutant: what is ticked stays ticked when it is no longer shown.
Kept_All(p, l, f) == p

\* Nothing that is not shown stays ticked.
Kept(p, l, f) == p \cap Visible(l, f)

\* The table shows l through f; p was ticked before.
Shows(l, f, p) ==
    /\ listed' = l /\ filter' = f
    /\ picked' = Kept(p, l, f)

SetFilter(f) ==
    /\ f # filter /\ Spend("filter")
    /\ Shows(listed, f, picked)
    /\ UNCHANGED <<table, entries, answers, busy, click>>

Tick(e) ==
    /\ e \in Visible(listed, filter)
    /\ picked' = IF e \in picked THEN picked \ {e} ELSE picked \cup {e}
    /\ UNCHANGED <<table, entries, filter, listed, answers, busy, click, spent>>

\* The box in the table's head; the roster has none.
TickAll ==
    /\ table = "orders"
    /\ picked' = IF picked = Visible(listed, filter) THEN {} ELSE Visible(listed, filter)
    /\ picked' # picked
    /\ UNCHANGED <<table, entries, filter, listed, answers, busy, click, spent>>

----------------------------------------------------------------------------
(* Loading *)

\* The server answers a query with what it has; another query may be asked
\* before the answer is there.
Refresh ==
    /\ Spend("refresh")
    /\ answers' = answers \cup {entries}
    /\ UNCHANGED <<table, entries, filter, listed, picked, busy, click>>

\* Answers are shown as they arrive, the last to arrive last.
ListArrives(l) ==
    /\ l \in answers
    /\ answers' = answers \ {l}
    /\ Shows(l, filter, picked)
    /\ UNCHANGED <<table, entries, busy, click, spent>>

\* A query that fails leaves the table as it was.
ListFails(l) ==
    /\ l \in answers /\ Spend("query")
    /\ answers' = answers \ {l}
    /\ UNCHANGED <<table, entries, filter, listed, picked, busy, click>>

----------------------------------------------------------------------------
(* Changing *)

Doing(w, d, es) == [what |-> w, does |-> d, left |-> es, seen |-> Visible(listed, filter),
                    latest |-> None, failed |-> FALSE]

\* The buttons of the bulk bar are off while the screen believes a bulk
\* action is under way.
StartBulk(c, d) ==
    /\ click[c] = None
    /\ busy # "bulk" /\ picked # {}
    /\ Spend("bulk")
    /\ busy' = "bulk"
    /\ click' = [click EXCEPT ![c] = Doing("bulk", d, picked)]
    /\ UNCHANGED <<table, entries, filter, listed, answers, picked>>

\* A single entry: on the roster it shares the mark of what is under way
\* with the bulk bar, and resets it when it ends.
StartSingle(c, d, e) ==
    /\ click[c] = None
    /\ e \in Visible(listed, filter)
    /\ Spend("single")
    /\ busy' = IF table = "roster" THEN "single" ELSE busy
    /\ click' = [click EXCEPT ![c] = Doing("single", d, {e})]
    /\ UNCHANGED <<table, entries, filter, listed, answers, picked>>

Other(m) == CHOOSE o \in Marks : o # m

\* What the server makes of a call for entry e; it refuses one that is gone.
Applied(d, e) ==
    IF d = "delete" THEN [entries EXCEPT ![e] = None]
    ELSE [entries EXCEPT ![e] = Other(@)]

EntryDone(c, e) ==
    /\ click[c] # None /\ e \in click[c].left
    /\ entries[e] # None
    /\ entries' = Applied(click[c].does, e)
    /\ click' = [click EXCEPT ![c].left = @ \ {e},
                              ![c].latest = IF table = "roster" THEN entries' ELSE None]
    /\ UNCHANGED <<table, filter, listed, answers, picked, busy, spent>>

\* One call that fails does not stop the rest.
EntryRefused(c, e) ==
    /\ click[c] # None /\ e \in click[c].left
    /\ entries[e] = None => UNCHANGED spent
    /\ entries[e] # None => Spend("call")
    /\ click' = [click EXCEPT ![c].left = @ \ {e}, ![c].failed = TRUE]
    /\ UNCHANGED <<table, entries, filter, listed, answers, picked, busy>>

\* What stays ticked after a bulk action: on the roster an edit that failed
\* for someone can be repeated.
PickedAfter(k) ==
    IF k.what = "single" \/ (table = "roster" /\ k.does = "change" /\ k.failed)
    THEN picked ELSE {}

\* All calls are answered.  The order table asks for the list again; the
\* roster shows the list the last successful call was answered with.
Finish(c) ==
    /\ click[c] # None /\ click[c].left = {}
    /\ click' = [click EXCEPT ![c] = None]
    /\ IF table = "orders"
       THEN /\ answers' = answers \cup {entries}
            /\ picked' = PickedAfter(click[c])
            /\ busy' = IF click[c].what = "bulk" THEN None ELSE busy
            /\ UNCHANGED <<listed, filter>>
       ELSE /\ Shows(IF click[c].latest = None THEN listed ELSE click[c].latest,
                     filter, PickedAfter(click[c]))
            /\ busy' = None
            /\ UNCHANGED answers
    /\ UNCHANGED <<table, entries, spent>>

\* Another administrator, or the sheet sync.
EntryChanges(e) ==
    /\ Spend("other")
    /\ \E m \in Marks \cup {None} : m # entries[e] /\ entries' = [entries EXCEPT ![e] = m]
    /\ UNCHANGED <<table, filter, listed, answers, picked, busy, click>>

TablesNext ==
    \/ \E f \in Marks \cup {None} : SetFilter(f)
    \/ TickAll \/ Refresh
    \/ \E l \in answers : ListArrives(l) \/ ListFails(l)
    \/ \E e \in Entries : Tick(e) \/ EntryChanges(e)
    \/ \E c \in Clicks :
         \/ Finish(c)
         \/ \E d \in {"change", "delete"} :
              StartBulk(c, d) \/ \E e \in Entries : StartSingle(c, d, e)
         \/ \E e \in Entries : EntryDone(c, e) \/ EntryRefused(c, e)

----------------------------------------------------------------------------
(* Properties *)

\* No handler changes or deletes an entry that was not on the screen when
\* the administrator confirmed it, however the table was narrowed, refreshed
\* by late answers or changed by others between the tick and the click.
OnlyWhatWasSeen ==
    [][ \A c \in Clicks, e \in Entries :
          (click[c] # None /\ click'[c] # click[c] /\ entries'[e] # entries[e])
            => e \in click[c].seen ]_tablesVars
=============================================================================
