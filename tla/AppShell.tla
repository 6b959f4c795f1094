------------------------------ MODULE AppShell ------------------------------
(***************************************************************************)
(* The shell of the web client: which screen is shown to whom, the list of *)
(* sites it keeps for the screens, and the session.  A screen is drawn     *)
(* only if what it needs is there, so a wrong combination is a blank page. *)
(*                                                                         *)
(* Answers come in any order and act on whatever is shown by then; what an *)
(* answer does may depend on the role at the time of its request.          *)
(*                                                                         *)
(* What is abstracted: a session is its role; the screens that need a      *)
(* session only, or a master only, are one each.                           *)
(***************************************************************************)
EXTENDS Common, FiniteSets

CONSTANTS
    Sites,       \* submissions that may be opened
    RecentSites, \* those on the first page of the console's list
    MaxAnswers   \* bound: answers that are still to come when the user moves

VARIABLES
    view,       \* currentView
    session,    \* the role of the session; None: signed out
    checking,   \* isCheckingSession
    sites,      \* the submissions the shell has
    selected,   \* selectedSiteId
    submitted,  \* whether there is a submittedSite
    awaited,    \* what is under way
    hasty       \* ghost: the last move was made while something was under way

shellVars == <<view, session, checking, sites, selected, submitted, awaited, hasty>>

Roles == {"MASTER", "TECH"}

ASSUME AppShellAssumption == None \notin Roles /\ RecentSites \subseteq Sites

MasterOnly == {"admin-sites", "admin-logs", "admin-settings"}
Views == MasterOnly \cup {"register", "completed", "history", "technicians",
                          "admin-login", "admin-detail"}

ShellRequest == [ does : {"session", "login", "logout", "sites", "site"},
             site : Sites \cup {None}, as : Roles \cup {None} ]

ShellTypeOK ==
    /\ view \in Views /\ session \in Roles \cup {None}
    /\ checking \in BOOLEAN /\ submitted \in BOOLEAN /\ hasty \in BOOLEAN
    /\ sites \subseteq Sites /\ selected \in Sites \cup {None}
    /\ awaited \subseteq ShellRequest

Asks(d, s) == [does |-> d, site |-> s, as |-> session]

\* A reload of the page asks for the session there may be.
ShellInit ==
    /\ view = "register" /\ session = None /\ checking = TRUE
    /\ sites = {} /\ selected = None /\ submitted = FALSE
    /\ awaited = {[does |-> "session", site |-> None, as |-> None]}
    /\ hasty = FALSE

----------------------------------------------------------------------------
(* Where a change of screen or session leads *)

\* A session that is no master's is not left on a master's screen.
Landing(v, s) ==
    IF v \in MasterOnly /\ s # "MASTER"
    THEN IF s = None THEN "register" ELSE "history"
    ELSE v

\* A master who comes to the sites or the logs gets the list again.
Fetches(v, s) ==
    IF (v # view \/ s # session) /\ s = "MASTER" /\ v \in {"admin-sites", "admin-logs"}
    THEN {[does |-> "sites", site |-> None, as |-> s]} ELSE {}

TurnTo(v, s, others) ==
    /\ view' = Landing(v, s) /\ session' = s
    /\ awaited' = others \cup Fetches(v, s)

\* A move of the user, beside what is under way.
Moves(v, extra) ==
    /\ Cardinality(awaited) <= MaxAnswers
    /\ TurnTo(v, session, awaited \cup extra)
    /\ hasty' = (awaited # {})

----------------------------------------------------------------------------
(* Moves *)

Navigate(v) ==
    /\ v \in MasterOnly \cup {"register", "history", "technicians"}
    /\ Moves(CASE v # "register" /\ session = None -> "admin-login"
              [] v \in MasterOnly /\ session = "TECH" -> "history"
              [] OTHER -> v, {})
    /\ UNCHANGED <<checking, sites, selected, submitted, spent>>

SubmitsLogin ==
    /\ view = "admin-login" /\ ~checking
    /\ Moves(view, {Asks("login", None)})
    /\ UNCHANGED <<checking, sites, selected, submitted, spent>>

CancelsLogin ==
    /\ view = "admin-login" /\ ~checking
    /\ Moves("register", {})
    /\ UNCHANGED <<checking, sites, selected, submitted, spent>>

\* The sites list offers what the shell has, the other screens any site.
OpenSite(s) ==
    /\ \/ view = "history" /\ session # None
       \/ view = "admin-sites" /\ s \in sites
       \/ view = "admin-logs"
    /\ selected' = s
    /\ Moves("admin-detail", IF s \in sites THEN {} ELSE {Asks("site", s)})
    /\ UNCHANGED <<checking, sites, submitted, spent>>

GoesBack ==
    /\ view = "admin-detail" /\ selected \in sites
    /\ Moves(IF session = "MASTER" THEN "admin-sites" ELSE "history", {})
    /\ UNCHANGED <<checking, sites, selected, submitted, spent>>

RefreshesSites ==
    /\ view = "admin-sites"
    /\ Moves(view, {Asks("sites", None)})
    /\ UNCHANGED <<checking, sites, selected, submitted, spent>>

HandleLogout ==
    /\ session # None
    /\ Moves(view, {Asks("logout", None)})
    /\ UNCHANGED <<checking, sites, selected, submitted, spent>>

\* The overlay of an upload keeps the user here until it was accepted.
SubmissionAccepted ==
    /\ view = "register"
    /\ submitted' = TRUE
    /\ Moves("completed", {})
    /\ UNCHANGED <<checking, sites, selected, spent>>

NewSubmission ==
    /\ view = "completed"
    /\ submitted' = FALSE
    /\ Moves("register", {})
    /\ UNCHANGED <<checking, sites, selected, spent>>

----------------------------------------------------------------------------
(* Answers *)

SessionRestored(s) ==
    \E r \in awaited :
      /\ r.does = "session"
      /\ checking' = FALSE
      /\ TurnTo(view, s, awaited \ {r})
      /\ UNCHANGED <<sites, selected, submitted, hasty, spent>>

\* A refused login leaves the form.
LoginAnswered(s) ==
    \E r \in awaited :
      /\ r.does = "login"
      /\ IF s = None THEN TurnTo(view, session, awaited \ {r})
         ELSE TurnTo(IF s = "MASTER" THEN "admin-sites" ELSE "history", s, awaited \ {r})
      /\ UNCHANGED <<checking, sites, selected, submitted, hasty, spent>>

LogoutAnswered ==
    \E r \in awaited :
      /\ r.does = "logout"
      /\ sites' = {} /\ selected' = None
      /\ TurnTo("register", None, awaited \ {r})
      /\ UNCHANGED <<checking, submitted, hasty, spent>>

SitesArrive ==
    \E r \in awaited :
      /\ r.does = "sites"
      /\ sites' = RecentSites
      /\ TurnTo(view, session, awaited \ {r})
      /\ UNCHANGED <<checking, selected, submitted, hasty, spent>>

\* Any failure but an ended session changes nothing.
SitesFail(ended) ==
    \E r \in awaited :
      /\ r.does = "sites" /\ Spend("lost")
      /\ IF ended THEN TurnTo("admin-login", None, awaited \ {r})
         ELSE TurnTo(view, session, awaited \ {r})
      /\ UNCHANGED <<checking, sites, selected, submitted, hasty>>

SiteArrives ==
    \E r \in awaited :
      /\ r.does = "site"
      /\ sites' = sites \cup {r.site}
      /\ TurnTo(view, session, awaited \ {r})
      /\ UNCHANGED <<checking, selected, submitted, hasty, spent>>

\* Mutant: a site that cannot be opened is not left.
Retreat_None(r) == view

\* From a site that cannot be opened, to the list of whoever asked for it.
Retreat(r) == IF r.as = "MASTER" THEN "admin-sites" ELSE "history"

SiteFails ==
    \E r \in awaited :
      /\ r.does = "site" /\ Spend("call")
      /\ TurnTo(Retreat(r), session, awaited \ {r})
      /\ UNCHANGED <<checking, sites, selected, submitted, hasty>>

ShellNext ==
    \/ \E v \in Views : Navigate(v)
    \/ SubmitsLogin \/ CancelsLogin
    \/ \E s \in Sites : OpenSite(s)
    \/ GoesBack \/ RefreshesSites \/ HandleLogout
    \/ SubmissionAccepted \/ NewSubmission
    \/ \E s \in Roles \cup {None} : SessionRestored(s) \/ LoginAnswered(s)
    \/ LogoutAnswered \/ SitesArrive \/ SiteArrives \/ SiteFails
    \/ \E ended \in BOOLEAN : SitesFail(ended)

----------------------------------------------------------------------------
(* Properties *)

Drawn ==
    CASE view = "completed"    -> submitted
      [] view = "admin-detail" -> session # None /\ selected \in sites
      [] view \in MasterOnly   -> session = "MASTER"
      [] view \in {"history", "technicians"} -> session # None
      [] OTHER -> TRUE

\* Once everything is answered the user looks at a screen, not at a blank
\* page, whatever sessions end, logins are refused and sites cannot be
\* opened on the way; provided the last move was not made while an earlier
\* request was under way.
NoBlankScreen == awaited = {} /\ ~hasty => Drawn
=============================================================================
