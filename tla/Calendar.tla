------------------------------ MODULE Calendar ------------------------------
(***************************************************************************)
(* The calendar of the work orders: which days are on the screen, how one  *)
(* moves between them, and which of the loaded orders the filters admit.   *)
(* The grid and the schedule on it share nothing but the screen.           *)
(*                                                                         *)
(* What is abstracted: a date is the number of a day in a stretch of       *)
(* months; what the store has is one of a sequence of editions; regions,   *)
(* technicians and the state of an order, which are filters that stay as   *)
(* they are set.                                                           *)
(***************************************************************************)
EXTENDS Common

CONSTANTS
    MonthLengths, \* days of consecutive months; the first and the last are margins
    CalendarTypes, SiteKinds, \* 시공종류 and 현장종류
    Editions      \* what the store has in turn: a sequence of sets of orders

ASSUME CalendarAssumption ==
    /\ MonthLengths \in Seq(28 .. 31) /\ Len(MonthLengths) > 2
    /\ Editions \in Seq(SUBSET [type : CalendarTypes, site : SiteKinds \cup {None}])
    /\ Editions # << >>

VARIABLES
    shift,     \* on which day of the week the first month begins
    dayView,      \* "month", "week" or "day"
    dayAnchor,    \* the day that the view is about
    openDay,   \* the day of which the orders are open over the screen, or None
    edition,   \* what the store has by now
    drawn,     \* the edition on the screen; 0: nothing yet
    ofTypes, ofSite, \* the filters
    fetches,   \* per load under way, the edition it was answered with; 0: none yet
    fetching   \* whether the screen says so

gridVars == <<shift, dayView, dayAnchor, openDay>>
scheduleVars == <<edition, drawn, ofTypes, ofSite, fetches, fetching>>
calendarVars == <<gridVars, scheduleVars>>

MonthStart[m \in 1 .. Len(MonthLengths) + 1] ==
    IF m = 1 THEN 1 ELSE MonthStart[m - 1] + MonthLengths[m - 1]

Months == 2 .. Len(MonthLengths) - 1
DaysOf(m) == MonthStart[m] .. MonthStart[m + 1] - 1
CalendarDays == UNION {DaysOf(m) : m \in Months}
MonthOf(d) == CHOOSE m \in DOMAIN MonthLengths : d \in DaysOf(m)
Weekday(d) == (d + shift) % 7

CalendarTypeOK ==
    /\ shift \in 0 .. 6 /\ dayView \in {"month", "week", "day"}
    /\ dayAnchor \in CalendarDays /\ openDay \in CalendarDays \cup {None}
    /\ edition \in DOMAIN Editions /\ drawn \in 0 .. Len(Editions)
    /\ ofTypes \subseteq CalendarTypes /\ ofSite \in SiteKinds \cup {None}
    /\ fetches \in Seq(0 .. Len(Editions)) /\ fetching \in BOOLEAN

\* The screen opens on today, and loads.
GridInit == shift \in 0 .. 6 /\ dayView = "month" /\ dayAnchor = MonthStart[2] /\ openDay = None

ScheduleInit ==
    /\ edition = 1 /\ drawn = 0
    /\ ofTypes = {} /\ ofSite = None
    /\ fetches = <<0>> /\ fetching = TRUE

----------------------------------------------------------------------------
(* The days on the screen *)

AddDays(d, n) == d + n

\* Mutant: the day of the month is kept.
AddMonths_KeepDay(d, n) == MonthStart[MonthOf(d) + n] + d - MonthStart[MonthOf(d)]

\* To the first of a month.
AddMonths(d, n) == MonthStart[MonthOf(d) + n]

StartOfWeek(d) == AddDays(d, -Weekday(d))

FromDay(d, n) == [i \in 1 .. n |-> AddDays(d, i - 1)]

\* Six weeks, or five if the sixth has no day of the month.
MonthCells(d) ==
    LET cells == FromDay(StartOfWeek(MonthStart[MonthOf(d)]), 42)
    IN  IF \E i \in 36 .. 42 : MonthOf(cells[i]) = MonthOf(d) THEN cells ELSE SubSeq(cells, 1, 35)

Cells ==
    CASE dayView = "day"   -> <<dayAnchor>>
      [] dayView = "week"  -> FromDay(StartOfWeek(dayAnchor), 7)
      [] dayView = "month" -> MonthCells(dayAnchor)

\* The calendar on the submission screen always has six weeks.
PickerCells(m) == FromDay(AddDays(MonthStart[m], -Weekday(MonthStart[m])), 42)

DayClosed == openDay = None /\ UNCHANGED <<shift, scheduleVars, spent>>

Moved(d, n) ==
    IF dayView = "month" THEN AddMonths(d, n) ELSE AddDays(d, IF dayView = "week" THEN n * 7 ELSE n)

MoveView(n) ==
    /\ DayClosed /\ Moved(dayAnchor, n) \in CalendarDays
    /\ dayAnchor' = Moved(dayAnchor, n)
    /\ UNCHANGED <<dayView, openDay>>

Today == DayClosed /\ dayAnchor' = MonthStart[2] /\ UNCHANGED <<dayView, openDay>>

SetView(v) == DayClosed /\ v # dayView /\ dayView' = v /\ UNCHANGED <<dayAnchor, openDay>>

ClickDay(d) ==
    /\ DayClosed /\ dayView = "month" /\ d \in CalendarDays
    /\ dayAnchor' = d
    /\ UNCHANGED <<dayView, openDay>>

\* Two clicks on one cell; in a month, a click on a day of another month moves
\* the cells, and the second click is not on that day.
DoubleClick(d) ==
    /\ DayClosed /\ d \in CalendarDays /\ (dayView = "month" => MonthOf(d) = MonthOf(dayAnchor))
    /\ dayAnchor' = IF dayView = "month" THEN d ELSE dayAnchor
    /\ openDay' = d
    /\ UNCHANGED dayView

CloseDay == openDay # None /\ openDay' = None /\ UNCHANGED <<shift, dayView, dayAnchor, scheduleVars, spent>>

GridNext ==
    \/ \E n \in {-1, 1} : MoveView(n)
    \/ Today
    \/ \E v \in {"month", "week", "day"} : SetView(v)
    \/ \E i \in DOMAIN Cells : ClickDay(Cells[i]) \/ DoubleClick(Cells[i])
    \/ CloseDay

----------------------------------------------------------------------------
(* The orders on it *)

DrawnOrders(e) == IF e = 0 THEN {} ELSE Editions[e]

OfType(o, types) == types = {} \/ o.type \in types

SiteTypeOptions(e, types) == {o.site : o \in {x \in DrawnOrders(e) : OfType(x, types)}} \ {None}

\* A 현장종류 that is no longer on offer is not asked for any more.
SiteStays(site, e, types) == IF site \in SiteTypeOptions(e, types) THEN site ELSE None

FetchBegins == fetches' = Append(fetches, 0) /\ fetching' = TRUE

\* One type more or less, or all of them again.
ChooseTypes(types) ==
    /\ types = {} \/ \E t \in CalendarTypes : types \in {ofTypes \cup {t}, ofTypes \ {t}}
    /\ types # ofTypes /\ ofTypes' = types
    /\ ofSite' = SiteStays(ofSite, drawn, ofTypes')
    /\ UNCHANGED <<gridVars, edition, drawn, fetches, fetching, spent>>

PickSite(s) ==
    /\ s \in SiteTypeOptions(drawn, ofTypes)
    /\ ofSite' = IF ofSite = s THEN None ELSE s
    /\ UNCHANGED <<gridVars, edition, drawn, ofTypes, fetches, fetching, spent>>

\* The box for finished orders makes the effect load again.
ToggleDone ==
    /\ Spend("reload")
    /\ FetchBegins
    /\ UNCHANGED <<gridVars, edition, drawn, ofTypes, ofSite>>

\* The button waits for the load that the screen knows of; what is done in the
\* table below the calendar does not.
RefreshCalendar(fromTable) ==
    /\ fromTable \/ ~fetching
    /\ Spend("refresh") /\ FetchBegins
    /\ UNCHANGED <<gridVars, edition, drawn, ofTypes, ofSite>>

StoreMovesOn ==
    /\ edition < Len(Editions)
    /\ edition' = edition + 1
    /\ UNCHANGED <<gridVars, drawn, ofTypes, ofSite, fetches, fetching, spent>>

FetchServed(i) ==
    /\ fetches[i] = 0
    /\ fetches' = [fetches EXCEPT ![i] = edition]
    /\ UNCHANGED <<gridVars, edition, drawn, ofTypes, ofSite, fetching, spent>>

FetchGone(i) ==
    /\ fetches' = SubSeq(fetches, 1, i - 1) \o SubSeq(fetches, i + 1, Len(fetches))
    /\ fetching' = FALSE

FetchArrives(i) ==
    /\ fetches[i] # 0
    /\ drawn' = fetches[i]
    /\ ofSite' = SiteStays(ofSite, drawn', ofTypes)
    /\ FetchGone(i)
    /\ UNCHANGED <<gridVars, edition, ofTypes, spent>>

FetchFails(i) ==
    /\ Spend("lost")
    /\ FetchGone(i)
    /\ UNCHANGED <<gridVars, edition, drawn, ofTypes, ofSite>>

ScheduleNext ==
    \/ \E types \in SUBSET CalendarTypes : ChooseTypes(types)
    \/ \E s \in SiteKinds : PickSite(s)
    \/ ToggleDone \/ StoreMovesOn
    \/ \E fromTable \in BOOLEAN : RefreshCalendar(fromTable)
    \/ \E i \in DOMAIN fetches : FetchServed(i) \/ FetchArrives(i) \/ FetchFails(i)

----------------------------------------------------------------------------
(* Properties *)

\* The cells of a view are whole weeks from Sunday on and have the day that the
\* view is about and the day that is open; a month has a cell for each of its
\* days, so that each order has its place, and no week without one of them but
\* after a February of four weeks; the same days are in the other calendar.
GridIsWhole ==
    LET cells == Elements(Cells)
        days == DaysOf(MonthOf(dayAnchor))
    IN  /\ dayAnchor \in cells /\ (openDay # None => openDay \in cells)
        /\ dayView # "day" => Weekday(Cells[1]) = 0 /\ Len(Cells) % 7 = 0
        /\ dayView = "month" =>
             /\ days \subseteq cells /\ days \subseteq Elements(PickerCells(MonthOf(dayAnchor)))
             /\ Weekday(PickerCells(MonthOf(dayAnchor))[1]) = 0
             /\ \A i \in DOMAIN Cells : Weekday(Cells[i]) = 0 =>
                  \/ Cells[i] .. Cells[i] + 6 \cap days # {}
                  \/ Cardinality(days) = 28 /\ Weekday(MonthStart[MonthOf(dayAnchor)]) = 0

\* From any day of a month, the arrows lead to the month before and after: none
\* is passed over because it has fewer days.
MonthsStepByOne ==
    [][\A n \in {-1, 1} : dayView = "month" /\ MoveView(n) => MonthOf(dayAnchor') = MonthOf(dayAnchor) + n]_gridVars

\* The 현장종류 that is asked for is one that a loaded order has, whichever load
\* of several comes last: the screen is never empty for one that is gone from
\* the sheet or belongs to another 시공종류.
FilterIsOnOffer == ofSite # None => \E o \in DrawnOrders(drawn) : OfType(o, ofTypes) /\ o.site = ofSite

CalendarIsRight == GridIsWhole /\ FilterIsOnOffer
=============================================================================
