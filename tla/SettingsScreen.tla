--------------------------- MODULE SettingsScreen ---------------------------
(***************************************************************************)
(* The settings screen of one administrator beside the server's settings.  *)
(* The screen keeps drafts (the common folder rule, the rule of the chosen *)
(* 시공종류, an open editor per list) and what the server said last.  A    *)
(* button sends a request and goes on with its answer.  One mark says which*)
(* button is busy; another button moves it and every answer wipes it off,  *)
(* so that requests overlap, those of one button as well, and are answered *)
(* in any order, refused or not at all.                                    *)
(*                                                                         *)
(* What is abstracted: a folder rule is a value; storage targets, Teams    *)
(* notifications and mail addresses are entries of three lists; custom     *)
(* input fields, help texts, messages and the sign-in popup are left out.  *)
(* Settings models what the server stores, this module what it answers.    *)
(* The editors of TypeEditors are screens of their own.                    *)
(***************************************************************************)
EXTENDS TypeEditors

CONSTANTS
    PanelTypes,   \* 시공종류
    PanelRules,   \* folder rules
    PanelEntries  \* entries of the lists

Lists == {"targets", "hooks", "emails"}

VARIABLES
    served,  \* the server's settings
    panel,   \* what the screen shows
    trips,   \* requests under way
    mixed,   \* lists and drafts whose requests or choices overlapped
    moved    \* 시공종류 the server moved together with the common rule

panelVars == <<served, panel, trips, mixed, moved>>

\* A draft of a 시공종류's rule, and the 시공종류 it was made from.
Draft == [of : PanelTypes, rule : PanelRules]

\* A request: what it is for, the entries, the 시공종류 and the rule it carries
\* and where it is; the answer is the settings as they were then.
Trip == [ op    : {"rule", "default", "keepDefault", "type",
                   "add", "save", "remove", "select"},
          list  : Lists \cup {None},
          entry : PanelEntries \cup {None},
          with  : PanelEntries \cup {None},
          type  : PanelTypes \cup {None},
          draft : Draft \cup {None},
          rule  : PanelRules \cup {None} ]

\* The buttons that wait: what for, in which list, for which entry.
Buttons == {"rule", "default", "type", "add", "save", "remove", "select", "form", "row"}
             \X (Lists \cup {None}) \X (PanelEntries \cup {None})

Stored == [ rule    : PanelRules,
            default : PanelRules \cup {None},
            types   : [PanelTypes -> PanelRules],
            lists   : [Lists -> SUBSET PanelEntries],
            active  : PanelEntries ]

PanelTypeOK ==
    /\ served \in Stored
    /\ panel.seen \in Stored
    /\ panel.rule \in PanelRules /\ panel.type \in PanelTypes /\ panel.draft \in Draft
    /\ panel.editor \in [Lists -> PanelEntries \cup {None}]
    /\ panel.busy = None \/ panel.busy \in Buttons
    /\ \A t \in trips : /\ t.ask \in Trip /\ t.at \in {"sent", "taken", "refused"}
                        /\ t.answer \in Stored \cup {None}
    /\ mixed \subseteq Lists \cup {"rule", "type", "lost"}
    /\ moved \subseteq PanelTypes

\* The screen has loaded, and rules may have been typed in since.
Opened == \E t \in PanelTypes, rule, own \in PanelRules :
    panel = [ seen   |-> served,
              rule   |-> rule,
              type   |-> t,
              draft  |-> [of |-> t, rule |-> own],
              editor |-> [l \in Lists |-> None],
              busy   |-> None ]

PanelInit ==
    /\ served \in Stored
    /\ served.active \in served.lists["targets"]
    /\ Opened
    /\ trips = {} /\ mixed = {} /\ moved = {}

----------------------------------------------------------------------------
(* Drafts *)

\* Mutant: the draft of the 시공종류 chosen before stays.
Chosen_Stale(t) == panel.draft

Chosen(t) == [of |-> t, rule |-> panel.seen.types[t]]

SelectTypeConfig(t) ==
    /\ t # panel.type
    /\ panel' = [panel EXCEPT !.type = t, !.draft = Chosen(t)]
    /\ mixed' = IF \E u \in trips : u.ask.op = "type" THEN mixed \cup {"type"} ELSE mixed
    /\ UNCHANGED <<served, trips, moved, spent>>

\* A rule typed in, or the common one taken over.
EditTypeDraft(r) ==
    /\ r # panel.draft.rule
    /\ Spend("type")
    /\ panel' = [panel EXCEPT !.draft.rule = r]
    /\ UNCHANGED <<served, trips, mixed, moved>>

ResetToCommon ==
    /\ panel.draft.rule # panel.rule
    /\ panel' = [panel EXCEPT !.draft.rule = panel.rule]
    /\ UNCHANGED <<served, trips, mixed, moved, spent>>

\* Typed in, or the kept default loaded.
EditRule(r) ==
    /\ r # panel.rule
    /\ IF r = panel.seen.default THEN UNCHANGED spent ELSE Spend("rule")
    /\ panel' = [panel EXCEPT !.rule = r]
    /\ UNCHANGED <<served, trips, mixed, moved>>

BeginEdit(l, e) ==
    /\ e \in panel.seen.lists[l] /\ panel.editor[l] # e
    /\ Spend("editor")
    /\ panel' = [panel EXCEPT !.editor[l] = e]
    /\ mixed' = IF \E t \in trips : t.ask.op = "remove" /\ t.ask.list = l THEN mixed \cup {l} ELSE mixed
    /\ UNCHANGED <<served, trips, moved>>

CancelEdit(l) ==
    /\ panel.editor[l] # None
    /\ panel' = [panel EXCEPT !.editor[l] = None]
    /\ UNCHANGED <<served, trips, mixed, moved, spent>>

----------------------------------------------------------------------------
(* Requests *)

Empty == [op |-> "type", list |-> None, entry |-> None, with |-> None,
          type |-> None, draft |-> None, rule |-> None]

\* The section of the screen a request is for.
Section(a) == CASE a.op = "type" -> "type"
                [] a.op \in {"rule", "default", "keepDefault"} -> "rule"
                [] OTHER -> a.list

\* A notification is added and edited in one form, an address edited and
\* removed in one row.
Button(a) == CASE a.list = "hooks"  /\ a.op \in {"add", "save"}    -> <<"form", "hooks", None>>
               [] a.list = "emails" /\ a.op \in {"save", "remove"} -> <<"row", "emails", a.entry>>
               [] OTHER -> <<a.op, a.list, None>>

\* Removing and choosing a target or a notification wait for nothing.
Waiting(a) == CASE a.op = "default" -> panel.busy # None
                [] a.op = "select" \/ (a.op = "remove" /\ a.list # "emails") -> FALSE
                [] OTHER -> panel.busy = Button(a)

Sends(a) ==
    /\ ~Waiting(a)
    /\ \E nr \in 0 .. Cardinality(trips) :
          /\ \A t \in trips : t.nr < nr
          /\ trips' = trips \cup {[ask |-> a, nr |-> nr, at |-> "sent", answer |-> None]}
    /\ panel' = [panel EXCEPT !.busy = Button(a)]
    /\ mixed' = mixed \cup {Section(a) : t \in {u \in trips : Section(u.ask) = Section(a)}}

\* handleSaveRule, and the first half of handleSaveAsDefault.
SaveRule(op) ==
    /\ op \in {"rule", "default"}
    /\ Spend("rule")
    /\ Sends([Empty EXCEPT !.op = op, !.rule = panel.rule])
    /\ UNCHANGED <<served, moved>>

SaveTypeConfig ==
    /\ Spend("type")
    /\ Sends([Empty EXCEPT !.type = panel.type, !.draft = panel.draft, !.rule = panel.draft.rule])
    /\ UNCHANGED <<served, moved>>

\* A new address or notification, or a channel that is found and connected.
AddEntry(l, e) ==
    /\ l = "hooks" => panel.editor[l] = None
    /\ Spend("list")
    /\ Sends([Empty EXCEPT !.op = "add", !.list = l, !.entry = e])
    /\ UNCHANGED <<served, moved>>

\* The open editor; an address may become another one.
SaveEntry(l, with) ==
    /\ panel.editor[l] # None
    /\ l # "emails" => with = panel.editor[l]
    /\ Spend("list")
    /\ Sends([Empty EXCEPT !.op = "save", !.list = l, !.entry = panel.editor[l], !.with = with])
    /\ UNCHANGED <<served, moved>>

RemoveEntry(l, e) ==
    /\ e \in panel.seen.lists[l]
    /\ l = "emails" => panel.editor[l] # e
    /\ Spend("list")
    /\ Sends([Empty EXCEPT !.op = "remove", !.list = l, !.entry = e,
                           !.with = panel.editor[l]])
    /\ UNCHANGED <<served, moved>>

SelectTarget(e) ==
    /\ e \in panel.seen.lists["targets"] \ {panel.seen.active}
    /\ Spend("list")
    /\ Sends([Empty EXCEPT !.op = "select", !.list = "targets", !.entry = e])
    /\ UNCHANGED <<served, moved>>

----------------------------------------------------------------------------
(* The server *)

\* Types that have the rule so far follow the common rule.
Following(r) == {t \in PanelTypes : served.types[t] = served.rule /\ r # served.rule}

\* What the server refuses: names taken, entries that are gone, the last target.
Refuses(a) ==
    \/ a.op = "add" /\ a.list # "targets" /\ a.entry \in served.lists[a.list]
    \/ a.op = "save" /\ a.list = "emails"
       /\ (a.entry \notin served.lists["emails"] \/ a.with \in served.lists["emails"] \ {a.entry})
    \/ a.op \in {"remove", "select"} /\ a.entry \notin served.lists[a.list]
    \/ a.op = "remove" /\ a.list = "targets" /\ Cardinality(served.lists["targets"]) = 1

\* What it makes of a request it takes.  The common rule moves the types that
\* follow it.
RulesAfter(a) ==
    CASE a.op \in {"rule", "default"} ->
           [served EXCEPT !.rule = a.rule,
                          !.types = [t \in PanelTypes |->
                             IF t \in Following(a.rule) THEN a.rule ELSE served.types[t]]]
      [] a.op = "keepDefault" -> [served EXCEPT !.default = served.rule]

TypeAfter(a) == [served EXCEPT !.types[a.type] = a.rule]

\* An edited target or notification that is gone is added again, and the
\* target in use is never one that is gone.
ListsAfter(a) ==
    CASE a.op = "add"  -> {[served EXCEPT !.lists[a.list] = @ \cup {a.entry},
                                          !.active = IF a.list = "targets" THEN a.entry ELSE @]}
      [] a.op = "save" -> {[served EXCEPT !.lists[a.list] =
                              IF a.list = "emails" THEN (@ \ {a.entry}) \cup {a.with}
                                                   ELSE @ \cup {a.entry}]}
      [] a.op = "select" -> {[served EXCEPT !.active = a.entry]}
      [] a.op = "remove" ->
           {[served EXCEPT !.lists[a.list] = @ \ {a.entry}, !.active = e] :
              e \in IF a.list = "targets" /\ served.active = a.entry
                    THEN served.lists["targets"] \ {a.entry} ELSE {served.active}}

SettingsAfter(a) == CASE Section(a) = "rule" -> {RulesAfter(a)}
                      [] Section(a) = "type" -> {TypeAfter(a)}
                      [] OTHER -> ListsAfter(a)

Told(t, at, answer) ==
    trips' = (trips \ {t}) \cup {[t EXCEPT !.at = at, !.answer = answer]}

ServerActs(t) ==
    /\ t \in trips /\ t.at = "sent" /\ ~Refuses(t.ask)
    /\ served' \in SettingsAfter(t.ask)
    /\ Told(t, "taken", served')
    /\ moved' = IF t.ask.op \in {"rule", "default"} THEN moved \cup Following(t.ask.rule) ELSE moved
    /\ UNCHANGED <<panel, mixed, spent>>

ServerDeclines(t) ==
    /\ t \in trips /\ t.at = "sent" /\ Refuses(t.ask)
    /\ Told(t, "refused", None)
    /\ UNCHANGED <<served, panel, mixed, moved, spent>>

----------------------------------------------------------------------------
(* The screen goes on *)

\* Mutant: a removal takes over the list and not the target in use.
SeenLists_NoActive(l, answer) == [panel.seen EXCEPT !.lists[l] = answer.lists[l]]

\* A list's answer has the whole list, that of a target the one in use as well.
SeenLists(l, answer) ==
    [panel.seen EXCEPT !.lists[l] = answer.lists[l],
                       !.active   = IF l = "targets" THEN answer.active ELSE @]

\* A saved editor closes; a removal closes the editor that was open on the
\* target when it was asked for.
Closed(a) ==
    CASE a.op = "save" \/ (a.op = "add" /\ a.list = "hooks") -> [panel.editor EXCEPT ![a.list] = None]
      [] a.op = "remove" /\ a.list = "targets" /\ a.with = a.entry ->
           [panel.editor EXCEPT ![a.list] = None]
      [] OTHER -> panel.editor

ListAnswered(t) ==
    /\ t \in trips /\ t.at = "taken" /\ t.ask.list # None
    /\ panel' = [panel EXCEPT !.seen = SeenLists(t.ask.list, t.answer), !.editor = Closed(t.ask), !.busy = None]
    /\ trips' = trips \ {t}
    /\ UNCHANGED <<served, mixed, moved, spent>>

\* The second half of handleSaveAsDefault keeps whatever the rule is by then.
RuleAnswered(t) ==
    /\ t \in trips /\ t.at = "taken" /\ t.ask.op \in {"rule", "default"}
    /\ panel' = [panel EXCEPT !.rule = t.answer.rule, !.seen.rule = t.answer.rule,
                              !.busy = IF t.ask.op = "rule" THEN None ELSE @]
    /\ trips' = (trips \ {t}) \cup
         IF t.ask.op = "default"
         THEN {[t EXCEPT !.ask = [Empty EXCEPT !.op = "keepDefault"], !.at = "sent", !.answer = None]} ELSE {}
    /\ UNCHANGED <<served, mixed, moved, spent>>

DefaultAnswered(t) ==
    /\ t \in trips /\ t.at = "taken" /\ t.ask.op = "keepDefault"
    /\ panel' = [panel EXCEPT !.seen.default = t.answer.default, !.busy = None]
    /\ trips' = trips \ {t}
    /\ UNCHANGED <<served, mixed, moved, spent>>

\* The answer becomes the draft, whichever 시공종류 is chosen by then.
TypeAnswered(t) ==
    /\ t \in trips /\ t.at = "taken" /\ t.ask.op = "type"
    /\ LET r == t.answer.types[t.ask.type]
       IN  panel' = [panel EXCEPT !.seen.types[t.ask.type] = r,
                                  !.draft = [of |-> t.ask.type, rule |-> r],
                                  !.busy = None]
    /\ trips' = trips \ {t}
    /\ moved' = IF served.types[t.ask.type] = t.answer.types[t.ask.type]
                THEN moved \ {t.ask.type} ELSE moved
    /\ UNCHANGED <<served, mixed, spent>>

TripRefused(t) ==
    /\ t \in trips /\ t.at = "refused"
    /\ trips' = trips \ {t}
    /\ panel' = [panel EXCEPT !.busy = None]
    /\ UNCHANGED <<served, mixed, moved, spent>>

\* The connection breaks before or after the server has acted.
TripLost(t) ==
    /\ t \in trips /\ t.at # "refused"
    /\ Spend("lost")
    /\ trips' = trips \ {t}
    /\ mixed' = mixed \cup {"lost"}
    /\ panel' = [panel EXCEPT !.busy = None]
    /\ UNCHANGED <<served, moved>>

TripEnds(t) == ServerActs(t) \/ ServerDeclines(t) \/ TripRefused(t) \/ TripLost(t)

\* The sections of the rules, and those of the lists, on one screen.
RulesNext ==
    \/ \E t \in PanelTypes : SelectTypeConfig(t)
    \/ \E r \in PanelRules : EditTypeDraft(r) \/ EditRule(r)
    \/ ResetToCommon \/ SaveTypeConfig
    \/ \E op \in {"rule", "default"} : SaveRule(op)
    \/ \E t \in trips : RuleAnswered(t) \/ DefaultAnswered(t) \/ TypeAnswered(t)

ListsNext ==
    \/ \E l \in Lists, e \in PanelEntries :
          BeginEdit(l, e) \/ AddEntry(l, e) \/ SaveEntry(l, e) \/ RemoveEntry(l, e)
    \/ \E l \in Lists : CancelEdit(l)
    \/ \E e \in PanelEntries : SelectTarget(e)
    \/ \E t \in trips : ListAnswered(t)

PanelNext == RulesNext \/ ListsNext \/ \E t \in trips : TripEnds(t)

----------------------------------------------------------------------------
(* Properties *)

\* What a 시공종류's rule becomes at the server was drafted for it: a draft
\* made from one 시공종류 is never saved as another's, unless another one was
\* chosen while a save was awaited.  And an edit does not bring back a target
\* that was removed, unless it was opened while the removal was awaited, or
\* requests for the list overlapped or an answer was lost.
SavesAreMeant ==
    [][ \A t \in trips : t.at = "sent" /\ served' # served =>
          /\ t.ask.op = "type" /\ t \notin trips' => t.ask.draft.of = t.ask.type \/ "type" \in mixed
          /\ t.ask.op = "save" /\ t.ask.list = "targets" /\ t \notin trips'
             => served'.lists["targets"] = served.lists["targets"]
                \/ mixed \cap {"targets", "lost"} # {} ]_<<panelVars, spent>>

\* When no request is awaited the screen shows what the server has, but for
\* lists whose requests overlapped, lost answers, and 시공종류 whose rule the
\* server has changed along with the common one.  The editors are true as well.
SettledScreenIsTrue ==
    /\ trips = {} /\ "lost" \notin mixed =>
         /\ \A l \in Lists \ mixed : panel.seen.lists[l] = served.lists[l]
         /\ "targets" \notin mixed => panel.seen.active = served.active
         /\ "rule" \notin mixed => panel.seen.rule = served.rule /\ panel.seen.default = served.default
         /\ "type" \notin mixed => \A t \in PanelTypes \ moved : panel.seen.types[t] = served.types[t]
    /\ EditorsAreTrue
=============================================================================
