------------------------------ MODULE DateRange ------------------------------
(***************************************************************************)
(* The period of the record lists' filter bar: six boxes for a first and a *)
(* last day, a calendar, and the buttons around them.  The list owns the   *)
(* period; the boxes keep what is being typed and are filled again when    *)
(* the period changes, unless it is the one they themselves sent last.     *)
(*                                                                         *)
(* What is abstracted: a day is a number, the year, month and day boxes of *)
(* one side are one text: a day, nothing, or something that is no day      *)
(* (unfinished, or the 31st of February).                                  *)
(***************************************************************************)
EXTENDS Common

CONSTANTS
    Days  \* the days people look at, as numbers

VARIABLES
    range,      \* the period of the list; <<0, 0>>: all records
    boxes,      \* what the boxes for the first and the last day say
    committed,  \* lastCommitted: the period the boxes sent last
    anchor,     \* the day picked first in the calendar; 0: none
    calendar,   \* whether the calendar is open
    typed       \* ghost: whether the period comes from the boxes

rangeVars == <<range, boxes, committed, anchor, calendar, typed>>

ASSUME DaysAssumption == Days \subseteq Nat \ {0} /\ None \notin Nat

Unfinished == None
All == <<0, 0>>

RangeTypeOK ==
    /\ range \in (Days \X Days) \cup {All}
    /\ boxes \in ({0, Unfinished} \cup Days) \X ({0, Unfinished} \cup Days)
    /\ committed \in (Days \X Days) \cup {All, None}
    /\ anchor \in Days \cup {0} /\ calendar \in BOOLEAN /\ typed \in BOOLEAN

RangeInit ==
    /\ range = All /\ boxes = <<0, 0>> /\ committed = None
    /\ anchor = 0 /\ calendar = FALSE /\ typed = FALSE

Ordered(a, b) == IF a <= b THEN <<a, b>> ELSE <<b, a>>

IsDay(text) == text # 0 /\ text # Unfinished

\* The period that the boxes stand for: one day alone is that day only.
Meant(texts) ==
    CASE IsDay(texts[1]) /\ IsDay(texts[2]) -> Ordered(texts[1], texts[2])
      [] IsDay(texts[1]) /\ ~IsDay(texts[2]) -> <<texts[1], texts[1]>>
      [] IsDay(texts[2]) /\ ~IsDay(texts[1]) -> <<texts[2], texts[2]>>
      [] OTHER           -> All

\* One box changes, by hand or by an arrow key.
SetBox(i, text) ==
    /\ text # boxes[i]
    /\ boxes' = [boxes EXCEPT ![i] = text]
    /\ range' = Meant(boxes')
    /\ committed' = Meant(boxes') /\ typed' = TRUE
    /\ UNCHANGED <<anchor, calendar, spent>>

\* A period that does not come from the boxes fills them, if it is a change
\* and not what they sent last.
FromOutside(r) ==
    /\ range' = r /\ typed' = (typed /\ r = range)
    /\ boxes' = IF r # range /\ r # committed THEN r ELSE boxes
    /\ UNCHANGED <<committed, spent>>

\* Today, this week, this month; all records; the cross.
Preset(r) == FromOutside(r) /\ UNCHANGED <<anchor, calendar>>

OpenCalendar ==
    /\ calendar' = ~calendar /\ anchor' = 0
    /\ UNCHANGED <<range, boxes, committed, typed, spent>>

\* A press anywhere else.
PressElsewhere ==
    /\ calendar
    /\ calendar' = FALSE /\ anchor' = 0
    /\ UNCHANGED <<range, boxes, committed, typed, spent>>

PickFirst(d) ==
    /\ calendar /\ anchor = 0
    /\ FromOutside(<<d, d>>)
    /\ anchor' = d /\ UNCHANGED calendar

PickLast(d) ==
    /\ calendar /\ anchor # 0
    /\ FromOutside(Ordered(anchor, d))
    /\ anchor' = 0 /\ calendar' = FALSE

RangeNext ==
    \/ \E i \in {1, 2}, text \in {0, Unfinished} \cup Days : SetBox(i, text)
    \/ \E r \in {Ordered(a, b) : a, b \in Days} \cup {All} : Preset(r)
    \/ OpenCalendar \/ PressElsewhere
    \/ \E d \in Days : PickFirst(d) \/ PickLast(d)

----------------------------------------------------------------------------
(* Properties *)

\* The period in force is the one the boxes stand for, while it is typed, in
\* whatever order and with whatever left unfinished, and after it is chosen
\* otherwise; except for a period chosen otherwise that the boxes happened to
\* have sent last: they are taken for up to date and keep what they say.
BoxesShowTheRange ==
    Meant(boxes) = range \/ (range = committed /\ ~typed)
=============================================================================
