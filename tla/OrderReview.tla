---------------------------- MODULE OrderReview ----------------------------
(***************************************************************************)
(* The review of an order file before its rows become work orders.  The    *)
(* server reads the file; the screen shows its sheets one at a time, with  *)
(* the rows that need a person marked; the administrator corrects rows,    *)
(* strikes rows out, changes which column means what (the server then      *)
(* builds the rows anew from the table that the screen kept) and finally   *)
(* sends everything that is ready.  Every handler goes on, after its       *)
(* answer, with the review as it was when it was started.                  *)
(*                                                                         *)
(* What is abstracted: the cells of a row but its date; a choice of        *)
(* columns is right or wrong for its sheet; what the server makes of the   *)
(* rows is WorkOrders.                                                     *)
(***************************************************************************)
EXTENDS OrderSheet

CONSTANTS
    Pages,       \* the sheets of the file
    FileRows,       \* its rows
    PageOf,      \* the sheet each row is on
    Unreadable,  \* rows with a date that cannot be read
    Cancelled    \* rows that say they are cancelled

\* A file without a sheet leaves nothing to review.
ASSUME OrderReviewAssumption ==
    /\ Pages # {} /\ PageOf \in [FileRows -> Pages]
    /\ Unreadable \subseteq FileRows /\ Cancelled \subseteq FileRows

VARIABLES
    preview,   \* per row what the screen shows of it, or None: no review
    active,    \* the sheet that is shown
    original,  \* whether the screen still has the table the rows came from
    waiting,   \* what the buttons believe is under way
    asks,      \* requests under way
    fixed,     \* rows corrected by hand in this review
    struck,    \* rows struck out by hand in this review
    rebuilt,   \* sheets whose columns were changed in this review
    overlapped \* whether anything was done while another answer was awaited

reviewVars == <<preview, active, original, waiting, asks, fixed, struck, rebuilt, overlapped>>

\* A row as it was read, in need of a correction, marked as cancelled,
\* corrected, without its date, or no longer in the list.
Look == {"clean", "trouble", "cancelled", "corrected", "undated", "gone"}

Review == [FileRows -> Look]

Asking == [what : {"file"}]
         \cup [what : {"remap"}, page : Pages, base : Review, wrong : BOOLEAN, rows : BOOLEAN]
         \cup [what : {"import"}, lines : SUBSET FileRows]

ReviewTypeOK ==
    /\ preview \in Review \cup {None}
    /\ active \in Pages
    /\ original \in BOOLEAN /\ overlapped \in BOOLEAN
    /\ waiting \in {None, "preview", "remap", "import"}
    /\ asks \subseteq Asking
    /\ fixed \subseteq FileRows /\ struck \subseteq FileRows /\ rebuilt \subseteq Pages

\* The first sheet of the file.
FirstPage == CHOOSE p \in Pages : TRUE

ReviewInit ==
    /\ preview = None /\ active = FirstPage /\ original = FALSE
    /\ waiting = None /\ asks = {}
    /\ fixed = {} /\ struck = {} /\ rebuilt = {} /\ overlapped = FALSE

Done(a) == asks' = asks \ {a} /\ waiting' = None

----------------------------------------------------------------------------
(* The file *)

\* The rows as the server builds them from the file.
AsRead == [l \in FileRows |-> CASE l \in Cancelled              -> "cancelled"
                           [] l \in Unreadable \ Cancelled -> "trouble"
                           [] OTHER                        -> "clean"]

ChooseFile ==
    /\ waiting # "preview" /\ Spend("upload")
    /\ waiting' = "preview"
    /\ asks' = asks \cup {[what |-> "file"]}
    /\ overlapped' = (overlapped \/ asks # {})
    /\ UNCHANGED <<preview, active, original, fixed, struck, rebuilt>>

FileShown(a) ==
    /\ a \in asks /\ a.what = "file"
    /\ Done(a)
    /\ preview' = AsRead /\ original' = TRUE
    /\ active' = FirstPage
    /\ fixed' = {} /\ struck' = {} /\ rebuilt' = {}
    /\ overlapped' = (asks' # {})
    /\ UNCHANGED spent

\* A request that fails leaves the review as it is.
AskFails(a) ==
    /\ a \in asks /\ Spend("call")
    /\ Done(a)
    /\ UNCHANGED <<preview, active, original, fixed, struck, rebuilt, overlapped>>

----------------------------------------------------------------------------
(* Reviewing *)

ShowPage(p) ==
    /\ preview # None /\ p # active
    /\ active' = p
    /\ UNCHANGED <<preview, original, waiting, asks, fixed, struck, rebuilt, overlapped, spent>>

\* Only the sheet that is shown is replaced.
OnPage(v, p, new) == [l \in FileRows |-> IF PageOf[l] = p THEN new[l] ELSE v[l]]

\* A correction clears the mark; so does reviving a cancelled row.
EditRow(l) ==
    /\ preview # None /\ PageOf[l] = active /\ preview[l] \notin {"gone", "corrected"}
    /\ preview' = OnPage(preview, active, [preview EXCEPT ![l] = "corrected"])
    /\ fixed' = fixed \cup {l}
    /\ overlapped' = (overlapped \/ asks # {})
    /\ UNCHANGED <<active, original, waiting, asks, struck, rebuilt, spent>>

DropRow(l) ==
    /\ preview # None /\ PageOf[l] = active /\ preview[l] # "gone"
    /\ preview' = OnPage(preview, active, [preview EXCEPT ![l] = "gone"])
    /\ struck' = struck \cup {l}
    /\ overlapped' = (overlapped \/ asks # {})
    /\ UNCHANGED <<active, original, waiting, asks, fixed, rebuilt, spent>>

Discard ==
    /\ preview # None
    /\ preview' = None /\ original' = FALSE
    /\ overlapped' = (overlapped \/ asks # {})
    /\ UNCHANGED <<active, waiting, asks, fixed, struck, rebuilt, spent>>

\* The kept table is put together from the rows as read: an unreadable date
\* is not in it any more, and with it the mark is gone.
FromOriginal(wrong, rows) ==
    [l \in FileRows |-> CASE ~rows                         -> "gone"
                       [] rows /\ wrong                 -> "trouble"
                       [] rows /\ ~wrong /\ l \in Cancelled -> "cancelled"
                       [] rows /\ ~wrong /\ l \in Unreadable \ Cancelled -> "undated"
                       [] OTHER                         -> "clean"]

ChangeMapping(wrong) ==
    /\ preview # None /\ waiting # "remap" /\ Spend("remap")
    /\ waiting' = "remap"
    /\ asks' = asks \cup {[what |-> "remap", page |-> active, base |-> preview,
                           wrong |-> wrong, rows |-> original]}
    /\ rebuilt' = rebuilt \cup {active}
    /\ overlapped' = (overlapped \/ asks # {})
    /\ UNCHANGED <<preview, active, original, fixed, struck>>

\* The answer replaces the sheet in the review as it was when it was asked.
Remapped(a) ==
    /\ a \in asks /\ a.what = "remap"
    /\ Done(a)
    /\ preview' = OnPage(a.base, a.page, FromOriginal(a.wrong, a.rows))
    /\ UNCHANGED <<active, original, fixed, struck, rebuilt, overlapped, spent>>

----------------------------------------------------------------------------
(* Sending *)

\* Mutant: rows that still need a correction are sent, too.
ReadyRows_All(v) == {l \in FileRows : v[l] \notin {"cancelled", "gone"}}

\* Everything on every sheet that has no problem and is not cancelled.
ReadyRows(v) == {l \in FileRows : v[l] \notin {"trouble", "cancelled", "gone"}}

SendRows ==
    /\ preview # None /\ waiting # "import" /\ ReadyRows(preview) # {}
    /\ waiting' = "import"
    /\ asks' = asks \cup {[what |-> "import", lines |-> ReadyRows(preview)]}
    /\ overlapped' = (overlapped \/ asks # {})
    /\ UNCHANGED <<preview, active, original, fixed, struck, rebuilt, spent>>

\* The review is over, whichever file it is of by now.
Imported(a) ==
    /\ a \in asks /\ a.what = "import"
    /\ Done(a)
    /\ preview' = None /\ original' = FALSE
    /\ UNCHANGED <<active, fixed, struck, rebuilt, overlapped, spent>>

ReviewNext ==
    \/ ChooseFile \/ Discard \/ SendRows
    \/ \E p \in Pages : ShowPage(p)
    \/ \E l \in FileRows : EditRow(l) \/ DropRow(l)
    \/ \E wrong \in BOOLEAN : ChangeMapping(wrong)
    \/ \E a \in asks : FileShown(a) \/ Remapped(a) \/ Imported(a) \/ AskFails(a)

----------------------------------------------------------------------------
(* Properties *)

\* What is sent has been reviewed: no row goes that the administrator
\* struck out, and none whose date could not be read or that is marked as
\* cancelled unless somebody corrected it by hand.  Two things void this
\* for a sheet: changing its columns, which rebuilds it from a table that
\* has lost the unreadable dates and still has the rows struck out, and
\* going on while an answer is awaited, which an older review then replaces.
OnlyReviewedRowsGo ==
    [][ \A a \in asks' \ asks : a.what = "import" =>
          \A l \in a.lines :
            \/ PageOf[l] \in rebuilt
            \/ overlapped'
            \/ l \notin struck /\ (l \in Unreadable \cup Cancelled => l \in fixed) ]_reviewVars

\* An order is what its row says and what was reviewed: from the sheet to the
\* table, from one reading to the next, and from the review to the request.
OrdersComeFromTheirRows ==
    OnlyReviewedRowsGo /\ RowsKeepTheirOrders /\ [](NothingIsLost /\ NamesDiffer)
=============================================================================
