--------------------------- MODULE SubmissionForm ---------------------------
(***************************************************************************)
(* The submission screen and what the server makes of it.  The screen is   *)
(* drawn from settings it loaded once; a technician picks a 시공종류, then a *)
(* work order from a list that is asked for in the background, or types    *)
(* the site in by hand, adds photos and sends.  The server checks the form *)
(* again, against its own settings and its own copy of the order, and its  *)
(* answer may be lost on the way back.                                     *)
(*                                                                         *)
(* What is abstracted: the values of the inputs (an input is filled or     *)
(* not), the 시공일 and 현장종류 that narrow the list, list and calendar as  *)
(* two looks of one picker, people who join the roster, the number and     *)
(* size of the photos, the progress display, which covers the form until   *)
(* the thank-you screen replaces it; numbering and filing of what is       *)
(* accepted are SiteNumbers and SubmissionPipeline.                        *)
(***************************************************************************)
EXTENDS Common

CONSTANTS
    FormTypes,    \* 시공종류 that a screen may offer
    FormOrders,   \* work orders
    OrderType,    \* the 시공종류 of each
    OrderHas,     \* the inputs that each has a value for
    FormTechs,    \* technicians that were on the roster
    Inputs,       \* the inputs a form may have
    Layouts       \* per 시공종류, the layouts the office may give it

FormLayout == [ mode     : {"order", "manual"},
            shown    : SUBSET (Inputs \cup {"workOrder"}),
            required : SUBSET Inputs,
            site     : BOOLEAN ]    \* whether it has a required 현장종류 input

ASSUME SubmissionFormAssumption ==
    /\ OrderType \in [FormOrders -> FormTypes]
    /\ OrderHas \in [FormOrders -> SUBSET {"customerName", "address", "constructionDate"}]
    /\ \A t \in FormTypes : Layouts[t] \subseteq FormLayout
    /\ None \notin {"sent", "accepted", "refused"}

VARIABLES
    office,   \* per 시공종류, its layout on the server; None: not a 시공종류
    screen,   \* the same as the screen loaded it
    enrolled, \* the technicians that are on the roster
    crew,     \* those the screen loaded
    store,    \* the work orders the server has
    form,     \* what the technician has entered
    list,     \* the orders the picker shows
    asked,    \* the 시공종류 of the picker's queries under way
    post,     \* the request under way
    filed,    \* submissions accepted from this filling of the form
    last      \* 시공종류 and order of the last one accepted

formVars == <<office, screen, enrolled, crew, store, form, list, asked, post, filed, last>>

Form == [ type   : FormTypes \cup {None},
          order  : FormOrders \cup {None},
          manual : BOOLEAN,
          filled : SUBSET Inputs,
          techs  : SUBSET FormTechs,
          files  : BOOLEAN ]

FormTypeOK ==
    /\ office \in [FormTypes -> FormLayout \cup {None}]
    /\ screen \in [FormTypes -> FormLayout \cup {None}]
    /\ enrolled \subseteq FormTechs /\ crew \subseteq FormTechs
    /\ store \subseteq FormOrders
    /\ form \in Form
    /\ list \subseteq FormOrders
    /\ asked \subseteq FormTypes
    /\ post \in {None, "sent", "accepted", "refused"}
    /\ filed \in Nat
    /\ last \in [type : FormTypes, order : FormOrders \cup {None}] \cup {None}

\* The date is today's until somebody changes it.
Blank == [type |-> None, order |-> None, manual |-> FALSE,
          filled |-> {"constructionDate"} \cap Inputs, techs |-> {}, files |-> FALSE]

FormInit ==
    /\ office \in [FormTypes -> UNION {Layouts[t] : t \in FormTypes}]
    /\ \A t \in FormTypes : office[t] \in Layouts[t]
    /\ screen = office
    /\ enrolled = FormTechs /\ crew = enrolled
    /\ store = FormOrders
    /\ form = Blank
    /\ list = {} /\ asked = {}
    /\ post = None /\ filed = 0 /\ last = None

----------------------------------------------------------------------------
(* What the form shows *)

\* An input that is not on the screen is never required.
IsRequired(l, k) == k \in l.shown \cap l.required

\* The rest stays hidden until the 현장종류 is chosen.
WaitingForSiteType(f) == screen[f.type].site /\ "siteFields" \notin f.filled

\* Inputs that only a site typed in by hand has.
ManualInputs == {"customerName", "address", "constructionDate"}

ManualOnly(f) == screen[f.type].mode = "manual" \/ (f.manual /\ f.order = None)

Offered(f) ==
    IF f.type = None THEN {}
    ELSE {k \in screen[f.type].shown \cap Inputs :
            /\ WaitingForSiteType(f) => k = "siteFields"
            /\ k = "siteFields" => screen[f.type].site
            /\ k \in ManualInputs => ManualOnly(f)}

\* Whether the picker is on the screen.
PickerShown(f) ==
    /\ f.type # None
    /\ screen[f.type].mode = "order"
    /\ ~WaitingForSiteType(f)
    /\ ~(f.manual /\ f.order = None)

\* The picker asks when it appears and whenever its 시공종류 changes; what
\* it shows stays until an answer arrives.
PickerFollows(f) ==
    IF ~PickerShown(f)
    THEN list' = {} /\ asked' = {}
    ELSE /\ list' = IF PickerShown(form) THEN list ELSE {}
         /\ asked' = IF ~PickerShown(form) THEN {f.type}
                     ELSE IF f.type # form.type THEN asked \cup {f.type} ELSE asked

\* A change of the form, while no request covers it.
FormBecomes(f) ==
    /\ post = None
    /\ form' = f
    /\ PickerFollows(f)
    /\ UNCHANGED <<office, screen, enrolled, crew, store, post, filed, last, spent>>

----------------------------------------------------------------------------
(* The technician *)

ChooseType(t) ==
    /\ screen[t] # None /\ t # form.type
    /\ FormBecomes([form EXCEPT !.type = t, !.order = None, !.manual = FALSE,
                                !.filled = @ \ {"siteFields"}])

Fill(k) ==
    /\ k \in Offered(form) \ {"technicians"}
    /\ \/ FormBecomes([form EXCEPT !.filled = @ \cup {k}])
       \/ FormBecomes([form EXCEPT !.filled = @ \ {k}])

\* Whom the page offers is on the roster, or was when the page was loaded.
PickTechnician(p) ==
    /\ "technicians" \in Offered(form) /\ p \in crew
    /\ \/ FormBecomes([form EXCEPT !.techs = @ \cup {p}])
       \/ FormBecomes([form EXCEPT !.techs = @ \ {p}])

PickFiles ==
    /\ form.type # None /\ ~WaitingForSiteType(form)
    /\ \E b \in BOOLEAN : FormBecomes([form EXCEPT !.files = b])

\* The order's name, address and date replace the form's, present or not.
ChooseOrder(o) ==
    /\ PickerShown(form) /\ form.order = None
    /\ o \in list
    /\ FormBecomes([form EXCEPT !.order = o, !.manual = FALSE,
                                !.filled = (@ \ ManualInputs) \cup (OrderHas[o] \cap Inputs)])

\* Without an order the address is asked for again and the date is today's.
Cleared(f) == [f EXCEPT !.order = None,
                        !.filled = (@ \ {"address", "customerName"})
                                      \cup ({"constructionDate"} \cap Inputs)]

ClearOrder == /\ PickerShown(form) /\ form.order # None
              /\ FormBecomes(Cleared(form))

EnterByHand == /\ PickerShown(form) /\ form.order = None
               /\ FormBecomes(Cleared([form EXCEPT !.manual = TRUE]))

BackToList == /\ form.manual /\ form.order = None
              /\ FormBecomes([form EXCEPT !.manual = FALSE])

\* Reloading the page forgets the form and fetches the settings.
Reload ==
    /\ post = None /\ (screen # office \/ crew # enrolled)
    /\ screen' = office /\ crew' = enrolled
    /\ form' = Blank /\ list' = {} /\ asked' = {} /\ filed' = 0
    /\ UNCHANGED <<office, enrolled, store, post, last, spent>>

----------------------------------------------------------------------------
(* The picker's answers *)

\* Answers are shown in the order they arrive, whatever is chosen by then.
PickerAnswered(t) ==
    /\ t \in asked
    /\ asked' = asked \ {t}
    /\ list' = {o \in store : OrderType[o] = t}
    /\ UNCHANGED <<office, screen, enrolled, crew, store, form, post, filed, last, spent>>

\* A query that fails leaves the list that was shown.
PickerFails(t) ==
    /\ t \in asked
    /\ asked' = asked \ {t}
    /\ office[t] # None => Spend("query")
    /\ office[t] = None => UNCHANGED spent
    /\ UNCHANGED <<office, screen, enrolled, crew, store, form, list, post, filed, last>>

----------------------------------------------------------------------------
(* Sending *)

\* Mutant: the screen no longer asks for what a site typed in by hand needs.
Validated_Any(f) ==
    /\ f.type # None
    /\ screen[f.type].site => "siteFields" \in f.filled
    /\ f.order # None \/ ManualOnly(f)

\* What has been entered, as the screen sees it.
Entered(f) == f.filled \cup (IF f.techs = {} THEN {} ELSE {"technicians"})

\* The screen's own check; it leaves the photos to the server.
Validated(f) ==
    /\ f.type # None
    /\ screen[f.type].site => "siteFields" \in f.filled
    /\ f.order # None \/ ManualOnly(f)
    /\ \A k \in Inputs : IsRequired(screen[f.type], k) =>
         (k \in Entered(f) \/ k = "siteFields" \/ (k \in ManualInputs /\ ~ManualOnly(f)))

\* The button is disabled and the form covered while a request is under way.
Ready == post = None

Submit ==
    /\ Ready /\ Validated(form)
    /\ post' = "sent"
    /\ UNCHANGED <<office, screen, enrolled, crew, store, form, list, asked, filed, last, spent>>

\* What the server knows of the site: the order's own values win, and only
\* technicians that are still on the roster count.
Known(f) ==
    LET own == f.filled \cup (IF f.techs \cap enrolled = {} THEN {} ELSE {"technicians"})
    IN  IF f.order = None THEN own ELSE (own \ {"address"}) \cup OrderHas[f.order]

\* Mutant: any order that exists is taken, of whatever 시공종류.
Fitting_Any(f) == f.order = None \/ (f.order \in store /\ office[f.type].mode = "order")

\* The order is there and of the form's 시공종류, which takes orders.
Fitting(f) ==
    f.order = None \/ ( /\ f.order \in store
                        /\ OrderType[f.order] = f.type
                        /\ office[f.type].mode = "order" )

Accepted(f) ==
    /\ office[f.type] # None
    /\ Fitting(f)
    /\ office[f.type].site => "siteFields" \in f.filled
    /\ \A k \in Inputs \ {"siteFields"} : IsRequired(office[f.type], k) =>
         (k \in Known(f) \/ (k = "customerName" /\ f.order # None))
    /\ f.files

IsFiled ==
    /\ filed' = filed + 1
    /\ last' = [type |-> form.type, order |-> form.order]

ServerTakes ==
    /\ post = "sent" /\ Accepted(form)
    /\ post' = "accepted"
    /\ IsFiled
    /\ UNCHANGED <<office, screen, enrolled, crew, store, form, list, asked, spent>>

\* Layouts that differ may differ in what a field of them lets one choose.
ChoiceGone(f) == "siteFields" \in f.filled /\ office[f.type] # screen[f.type]

ServerRefuses ==
    /\ post = "sent" /\ (~Accepted(form) \/ ChoiceGone(form))
    /\ post' = "refused"
    /\ UNCHANGED <<office, screen, enrolled, crew, store, form, list, asked, filed, last, spent>>

\* An order that cannot be read counts as gone.  A form that cannot be numbered
\* or recorded is refused, though the store may have the record all the same.
ServerFails ==
    /\ post = "sent" /\ Spend("call")
    /\ \/ (form.order # None \/ Accepted(form)) /\ UNCHANGED <<filed, last>>
       \/ Accepted(form) /\ IsFiled
    /\ post' = "refused"
    /\ UNCHANGED <<office, screen, enrolled, crew, store, form, list, asked>>

\* The thank-you screen replaces the form; a refused one is given back.
Answered202 ==
    /\ post = "accepted"
    /\ post' = None
    /\ form' = Blank /\ list' = {} /\ asked' = {} /\ filed' = 0
    /\ UNCHANGED <<office, screen, enrolled, crew, store, last, spent>>

AnsweredError ==
    /\ post = "refused"
    /\ post' = None
    /\ UNCHANGED <<office, screen, enrolled, crew, store, form, list, asked, filed, last, spent>>

\* The connection breaks before or after the server took the form.
ReplyLost ==
    /\ post # None
    /\ Spend("reply")
    /\ post' = None
    /\ UNCHANGED <<office, screen, enrolled, crew, store, form, list, asked, filed, last>>

----------------------------------------------------------------------------
(* Meanwhile in the office *)

OfficeChanges(t) ==
    /\ Spend("office")
    /\ \E l \in Layouts[t] \cup {None} : l # office[t] /\ office' = [office EXCEPT ![t] = l]
    /\ UNCHANGED <<screen, enrolled, crew, store, form, list, asked, post, filed, last>>

TechnicianLeaves(p) ==
    /\ Spend("office")
    /\ p \in enrolled /\ enrolled' = enrolled \ {p}
    /\ UNCHANGED <<office, screen, crew, store, form, list, asked, post, filed, last>>

OrderGoes(o) ==
    /\ Spend("office")
    /\ o \in store /\ store' = store \ {o}
    /\ UNCHANGED <<office, screen, enrolled, crew, form, list, asked, post, filed, last>>

FormNext ==
    \/ \E t \in FormTypes : \/ ChooseType(t) \/ PickerAnswered(t) \/ PickerFails(t)
                            \/ OfficeChanges(t)
    \/ \E k \in Inputs : Fill(k)
    \/ \E o \in FormOrders : ChooseOrder(o) \/ OrderGoes(o)
    \/ \E p \in FormTechs : PickTechnician(p) \/ TechnicianLeaves(p)
    \/ PickFiles \/ ClearOrder \/ EnterByHand \/ BackToList \/ Reload
    \/ Submit \/ ServerTakes \/ ServerRefuses \/ ServerFails
    \/ Answered202 \/ AnsweredError \/ ReplyLost

----------------------------------------------------------------------------
(* Properties *)

\* What one filling of the form files: at most one submission, unless the
\* answer to an earlier one was lost, or its record was saved by a call that
\* failed, and the technician had to send again; and never one that names an
\* order of another 시공종류, although a slow answer can leave the orders of
\* another 시공종류 on the screen.
FilingsAreMeant ==
    /\ filed <= 1 + Happened("reply") + Happened("call")
    /\ last # None => (last.order = None \/ OrderType[last.order] = last.type)

\* Screen and server judge a form alike: one that passed the screen's check
\* is refused only for want of photos, because the office changed the
\* 시공종류 since the page was loaded, because it asks for a technician and
\* everyone the form names has left the roster, because the order is gone or
\* was chosen from an outdated list, because the order has no address or no
\* date and the 시공종류 asks for it, or because the order could not be read or
\* the form not be recorded.
ValidFormsAreAccepted ==
    [][ (post = "sent" /\ post' = "refused") =>
          \/ ~form.files
          \/ screen[form.type] # office[form.type]
          \/ /\ IsRequired(office[form.type], "technicians")
             /\ form.techs # {} /\ form.techs \cap enrolled = {}
          \/ /\ form.order # None
             /\ \/ form.order \notin store
                \/ OrderType[form.order] # form.type
                \/ ~({"address", "constructionDate"} \subseteq OrderHas[form.order])
          \/ spent' # spent ]_formVars
=============================================================================
