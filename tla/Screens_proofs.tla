---------------------------- MODULE Screens_proofs ----------------------------
(***************************************************************************)
(* Theorems about the settings screen (SettingsScreen), the editors of     *)
(* 시공종류 (TypeEditors), the tables with bulk actions (AdminTables) and  *)
(* the lists, periods and calendar (RecordLists, DateRange, Calendar), for *)
(* any number of requests under way, entries, rules, types, records, marks *)
(* and days, and any budget.                                               *)
(***************************************************************************)
EXTENDS SettingsScreen, AdminTables, RecordLists, TLAPS, FiniteSetTheorems, WellFoundedInduction

----------------------------------------------------------------------------
(* The settings screen: definitions *)

Panels == [ seen   : Stored,
            rule   : PanelRules,
            type   : PanelTypes,
            draft  : Draft,
            editor : [Lists -> PanelEntries \cup {None}],
            busy   : Buttons \cup {None} ]

\* A request carries what its kind needs.
AskFits(a) ==
    /\ a \in Trip
    /\ a.op = "type" => a.type \in PanelTypes /\ a.draft \in Draft
    /\ a.op \in {"rule", "default", "type"} => a.rule \in PanelRules
    /\ a.op \in {"rule", "default", "keepDefault", "type"} => a.list = None
    /\ a.op \in {"add", "save", "remove", "select"} => a.list \in Lists /\ a.entry \in PanelEntries
    /\ a.op = "save" => a.with \in PanelEntries
    /\ a.op = "select" => a.list = "targets"

TripFits(t) ==
    /\ t = [ask |-> t.ask, nr |-> t.nr, at |-> t.at, answer |-> t.answer]
    /\ AskFits(t.ask) /\ t.at \in {"sent", "taken", "refused"}
    /\ t.answer \in Stored \cup {None}
    /\ t.at = "taken" => t.answer \in Stored

PanelForm ==
    /\ served \in Stored /\ panel \in Panels
    /\ \A t \in trips : TripFits(t)
    /\ mixed \subseteq Lists \cup {"rule", "type", "lost"}
    /\ moved \subseteq PanelTypes

\* A section of the screen has one request under way at most, until two have met.
OneTripEach ==
    \A t, u \in trips :
      Section(t.ask) = Section(u.ask) /\ Section(t.ask) \notin mixed => t = u

\* The requests of a section that wait for nothing but their answer's way.
Taken(s) == {t \in trips : Section(t.ask) = s /\ t.at = "taken"}

Trusted(s) == s \notin mixed /\ "lost" \notin mixed

SameList(l, x) ==
    x.lists[l] = served.lists[l] /\ (l = "targets" => x.active = served.active)

\* Either the screen or the answer on its way has the list as it is.
ListFits(l) ==
    Trusted(l) => /\ Taken(l) = {} => SameList(l, panel.seen)
                  /\ \A t \in Taken(l) : SameList(l, t.answer)

KeepsDefault(t) == t.ask.op = "keepDefault"

ListsFit == \A l \in Lists : ListFits(l)

RuleFits ==
    Trusted("rule") =>
      /\ \A t \in Taken("rule") : IF KeepsDefault(t) THEN t.answer.default = served.default
                                              ELSE t.answer.rule = served.rule
      /\ (\A t \in Taken("rule") : KeepsDefault(t))  => panel.seen.rule = served.rule
      /\ (\A t \in Taken("rule") : ~KeepsDefault(t)) => panel.seen.default = served.default

TypesFit ==
    Trusted("type") =>
      \A k \in PanelTypes \ moved :
        /\ \A t \in Taken("type") : t.ask.type = k => t.answer.types[k] = served.types[k]
        /\ (\A t \in Taken("type") : t.ask.type # k) => panel.seen.types[k] = served.types[k]

\* A draft, and the save of one, is of the 시공종류 that is chosen.
DraftFits ==
    "type" \notin mixed =>
      /\ panel.draft.of = panel.type
      /\ \A t \in trips : t.ask.op = "type" => t.ask.type = panel.type /\ t.ask.draft.of = panel.type

OfTargets(t, op) == t.ask.op = op /\ t.ask.list = "targets"

\* An editor is open on a target there is, or its removal will close it.
EditorFits ==
    Trusted("targets") =>
      /\ panel.editor["targets"] # None =>
           \/ panel.editor["targets"] \in served.lists["targets"]
           \/ \E t \in trips : /\ OfTargets(t, "remove") /\ t.at = "taken"
                               /\ t.ask.entry = panel.editor["targets"] /\ t.ask.with = t.ask.entry
      /\ \A t \in trips : /\ OfTargets(t, "remove")
                             => panel.editor["targets"] = None \/ t.ask.with = panel.editor["targets"]
                          /\ OfTargets(t, "save") /\ t.at = "sent" => t.ask.entry \in served.lists["targets"]
      /\ (\A t \in trips : ~OfTargets(t, "remove"))
           => panel.seen.lists["targets"] \subseteq served.lists["targets"]

PanelInv ==
    /\ PanelForm /\ OneTripEach
    /\ \A l \in Lists : ListFits(l)
    /\ RuleFits /\ TypesFit /\ DraftFits /\ EditorFits

LEMMA SectionSays ==
    ASSUME NEW a, AskFits(a)
    PROVE  /\ Section(a) \in Lists \cup {"rule", "type"}
           /\ a.op = "type" <=> Section(a) = "type"
           /\ a.op \in {"rule", "default", "keepDefault"} <=> Section(a) = "rule"
           /\ a.op \in {"add", "save", "remove", "select"} <=> Section(a) \in Lists
           /\ Section(a) \in Lists => a.list = Section(a)
<1>1. a.op \in {"rule", "default", "keepDefault", "type", "add", "save", "remove", "select"}
  BY DEF AskFits, Trip
<1>2. CASE a.op = "type"
  BY <1>2 DEF Section, Lists
<1>3. CASE a.op \in {"rule", "default", "keepDefault"}
  BY <1>3 DEF Section, Lists
<1>4. CASE a.op \in {"add", "save", "remove", "select"}
  <2>1. Section(a) = a.list /\ a.list \in Lists
    BY <1>4 DEF Section, AskFits
  <2> QED BY <1>4, <2>1 DEF Lists
<1> QED BY <1>1, <1>2, <1>3, <1>4

\* A request that goes on is the one of its section, unless two have met there.
LEMMA GoesOn ==
    ASSUME PanelInv, NEW t \in trips, NEW n, TripFits(n), Section(n.ask) = Section(t.ask),
           trips' = (trips \ {t}) \cup {n}, UNCHANGED mixed
    PROVE  /\ OneTripEach' /\ \A u \in trips' : TripFits(u)
           /\ \A s : s # Section(t.ask) => Taken(s)' = Taken(s)
           /\ Section(t.ask) \notin mixed =>
                /\ Taken(Section(t.ask))' = IF n.at = "taken" THEN {n} ELSE {}
                /\ Taken(Section(t.ask)) \subseteq {t}
<1>1. OneTripEach'
  <2> SUFFICES ASSUME NEW u \in trips', NEW v \in trips', Section(u.ask) = Section(v.ask),
                      Section(u.ask) \notin mixed'
               PROVE  u = v
    BY DEF OneTripEach
  <2> QED BY DEF PanelInv, OneTripEach
<1>2. \A u \in trips' : TripFits(u)
  BY DEF PanelInv, PanelForm
<1>3. ASSUME NEW s, s # Section(t.ask) PROVE Taken(s)' = Taken(s)
  BY <1>3 DEF Taken
<1>4. ASSUME Section(t.ask) \notin mixed
      PROVE  /\ Taken(Section(t.ask))' = IF n.at = "taken" THEN {n} ELSE {}
             /\ Taken(Section(t.ask)) \subseteq {t}
  BY <1>4 DEF PanelInv, OneTripEach, Taken
<1> QED BY <1>1, <1>2, <1>3, <1>4

LEMMA TripGone ==
    ASSUME PanelInv, NEW t \in trips, trips' = trips \ {t}, mixed \subseteq mixed'
    PROVE  /\ OneTripEach' /\ \A u \in trips' : TripFits(u)
           /\ \A s : s # Section(t.ask) => Taken(s)' = Taken(s)
           /\ Section(t.ask) \notin mixed =>
                Taken(Section(t.ask))' = {} /\ Taken(Section(t.ask)) \subseteq {t}
<1>1. OneTripEach'
  BY DEF PanelInv, OneTripEach
<1>2. \A u \in trips' : TripFits(u)
  BY DEF PanelInv, PanelForm
<1>3. ASSUME NEW s, s # Section(t.ask) PROVE Taken(s)' = Taken(s)
  BY <1>3 DEF Taken
<1>4. ASSUME Section(t.ask) \notin mixed
      PROVE  Taken(Section(t.ask))' = {} /\ Taken(Section(t.ask)) \subseteq {t}
  BY <1>4 DEF PanelInv, OneTripEach, Taken
<1> QED BY <1>1, <1>2, <1>3, <1>4

\* Lists and rules stay true where neither what is shown, nor what is there,
\* nor the answers on their way change.
LEMMA ListStays ==
    ASSUME NEW l, ListFits(l), mixed \subseteq mixed', Taken(l)' = Taken(l),
           panel'.seen = panel.seen, served'.lists[l] = served.lists[l],
           l = "targets" => served'.active = served.active
    PROVE  ListFits(l)'
BY DEF ListFits, Trusted, SameList

LEMMA RuleStays ==
    ASSUME RuleFits, mixed \subseteq mixed', Taken("rule")' = Taken("rule"),
           panel'.seen.rule = panel.seen.rule, panel'.seen.default = panel.seen.default,
           served'.rule = served.rule, served'.default = served.default
    PROVE  RuleFits'
BY DEF RuleFits, Trusted, KeepsDefault

LEMMA TypesStay ==
    ASSUME TypesFit, mixed \subseteq mixed', Taken("type")' = Taken("type"),
           panel'.seen.types = panel.seen.types, moved \subseteq moved',
           \A k \in PanelTypes \ moved' : served'.types[k] = served.types[k]
    PROVE  TypesFit'
BY DEF TypesFit, Trusted

\* What is typed, chosen or opened on the screen.
LEMMA ScreenKeeps ==
    ASSUME PanelInv, panel' \in Panels, panel'.seen = panel.seen, UNCHANGED <<served, trips, moved>>,
           mixed \subseteq mixed', mixed' \subseteq Lists \cup {"rule", "type", "lost"},
           DraftFits', EditorFits'
    PROVE  PanelInv'
<1>1. \A s : Taken(s)' = Taken(s)
  BY DEF Taken
<1>2. PanelForm'
  BY DEF PanelInv, PanelForm
<1>3. OneTripEach'
  BY DEF PanelInv, OneTripEach
<1>4. \A l \in Lists : ListFits(l)'
  BY <1>1, ListStays DEF PanelInv
<1>5. RuleFits' /\ TypesFit'
  BY <1>1, RuleStays, TypesStay DEF PanelInv
<1> QED BY <1>2, <1>3, <1>4, <1>5 DEF PanelInv

LEMMA ButtonType ==
    ASSUME NEW a, AskFits(a), a.op # "keepDefault" PROVE Button(a) \in Buttons
<1>1. /\ a.op \in {"rule", "default", "keepDefault", "type", "add", "save", "remove", "select"}
      /\ a.list \in Lists \cup {None} /\ a.entry \in PanelEntries \cup {None}
  BY DEF AskFits, Trip
<1>2. CASE a.list = "hooks" /\ a.op \in {"add", "save"}
  BY <1>2 DEF Button, Buttons, Lists
<1>3. CASE a.list = "emails" /\ a.op \in {"save", "remove"}
  <2>1. Button(a) = <<"row", "emails", a.entry>>
    BY <1>3 DEF Button
  <2> QED BY <1>1, <2>1 DEF Buttons, Lists
<1>4. CASE ~(a.list = "hooks" /\ a.op \in {"add", "save"}) /\ ~(a.list = "emails" /\ a.op \in {"save", "remove"})
  <2>1. Button(a) = <<a.op, a.list, None>>
    BY <1>4 DEF Button
  <2> QED BY <1>1, <2>1 DEF Buttons
<1> QED BY <1>2, <1>3, <1>4

\* A request that is sent is alone in its section, or the section is mixed from
\* now on; on the screen only the busy button changes.
LEMMA SendsSays ==
    ASSUME PanelInv, NEW a, AskFits(a), a.op # "keepDefault", Sends(a)
    PROVE  /\ \E n : /\ trips' = trips \cup {n} /\ n.ask = a /\ n.at = "sent" /\ TripFits(n)
           /\ panel' \in Panels /\ panel'.seen = panel.seen /\ panel'.type = panel.type
           /\ panel'.draft = panel.draft /\ panel'.editor = panel.editor
           /\ mixed \subseteq mixed' /\ mixed' \subseteq mixed \cup {Section(a)}
           /\ Section(a) \notin mixed' => \A t \in trips : Section(t.ask) # Section(a)
<1>1. PICK nr : trips' = trips \cup {[ask |-> a, nr |-> nr, at |-> "sent", answer |-> None]}
  BY DEF Sends
<1>2. TripFits([ask |-> a, nr |-> nr, at |-> "sent", answer |-> None])
  BY DEF TripFits
<1>3. panel' = [panel EXCEPT !.busy = Button(a)] /\ panel \in Panels
  BY DEF Sends, PanelInv, PanelForm
<1>4. panel' \in Panels
  BY <1>3, ButtonType DEF Panels
<1>5. mixed' = mixed \cup {Section(a) : t \in {u \in trips : Section(u.ask) = Section(a)}}
  BY DEF Sends
<1> QED BY <1>1, <1>2, <1>3, <1>4, <1>5 DEF Panels

LEMMA SendsKeeps ==
    ASSUME PanelInv, NEW a, AskFits(a), a.op # "keepDefault", Sends(a), UNCHANGED <<served, moved>>,
           a.op = "type" => a.type = panel.type /\ a.draft = panel.draft,
           a.op \in {"remove", "save"} /\ a.list = "targets"
             => IF a.op = "remove" THEN a.with = panel.editor["targets"]
                ELSE a.entry = panel.editor["targets"] /\ a.entry # None
    PROVE  PanelInv'
<1>1. PICK n : trips' = trips \cup {n} /\ n.ask = a /\ n.at = "sent" /\ TripFits(n)
  BY SendsSays
<1>2. /\ panel' \in Panels /\ panel'.seen = panel.seen /\ panel'.type = panel.type
      /\ panel'.draft = panel.draft /\ panel'.editor = panel.editor
      /\ mixed \subseteq mixed' /\ mixed' \subseteq mixed \cup {Section(a)}
      /\ Section(a) \notin mixed' => \A t \in trips : Section(t.ask) # Section(a)
  BY SendsSays
<1>3. Section(a) \in Lists \cup {"rule", "type"}
  BY SectionSays
<1>4. PanelForm'
  BY <1>1, <1>2, <1>3 DEF PanelInv, PanelForm
<1>5. OneTripEach'
  BY <1>1, <1>2 DEF PanelInv, OneTripEach
<1>6. \A s : Taken(s)' = Taken(s)
  BY <1>1 DEF Taken
<1>7. \A l \in Lists : ListFits(l)'
  BY <1>2, <1>6, ListStays DEF PanelInv
<1>8. RuleFits' /\ TypesFit'
  BY <1>2, <1>6, RuleStays, TypesStay DEF PanelInv
<1>9. DraftFits'
  <2> SUFFICES ASSUME "type" \notin mixed'
               PROVE  /\ panel'.draft.of = panel'.type
                      /\ \A t \in trips' : t.ask.op = "type"
                            => t.ask.type = panel'.type /\ t.ask.draft.of = panel'.type
    BY DEF DraftFits
  <2> QED BY <1>1, <1>2 DEF PanelInv, DraftFits
<1>10. EditorFits'
  <2> SUFFICES ASSUME Trusted("targets")' PROVE EditorFits'
    BY DEF EditorFits
  <2>1. Trusted("targets")
    BY <1>2 DEF Trusted
  <2>2. CASE Section(a) # "targets"
    <3>1. \A op \in {"remove", "save"} : ~OfTargets(n, op)
      BY <1>1, <2>2, SectionSays DEF OfTargets, Lists
    <3> QED BY <1>1, <1>2, <2>1, <3>1 DEF PanelInv, EditorFits
  <2>3. CASE Section(a) = "targets"
    <3>1. \A t \in trips : Section(t.ask) # "targets" /\ AskFits(t.ask)
      BY <1>2, <2>3 DEF PanelInv, PanelForm, TripFits, Trusted
    <3>2. \A t \in trips, op \in {"remove", "save"} : ~OfTargets(t, op)
      BY <3>1, SectionSays DEF OfTargets
    <3>3. /\ panel.editor["targets"] # None => panel.editor["targets"] \in served.lists["targets"]
          /\ panel.seen.lists["targets"] \subseteq served.lists["targets"]
      BY <2>1, <3>2 DEF PanelInv, EditorFits
    <3> QED BY <1>1, <1>2, <3>2, <3>3 DEF EditorFits, OfTargets
  <2> QED BY <2>2, <2>3
<1> QED BY <1>4, <1>5, <1>7, <1>8, <1>9, <1>10 DEF PanelInv

----------------------------------------------------------------------------
(* The settings screen: the server and its answers *)

\* What the server's settings become, by the section of the request.
LEMMA SettingsSay ==
    ASSUME PanelForm, NEW a, AskFits(a), served' \in SettingsAfter(a)
    PROVE  /\ served' \in Stored
           /\ Section(a) # "rule" => served'.rule = served.rule /\ served'.default = served.default
           /\ Section(a) \notin {"rule", "type"} => served'.types = served.types
           /\ \A l \in Lists \ {Section(a)} : served'.lists[l] = served.lists[l]
           /\ Section(a) # "targets" => served'.active = served.active
<1>1. served \in Stored
  BY DEF PanelForm
<1>2. CASE Section(a) = "rule"
  <2>1. /\ a.op \in {"rule", "default", "keepDefault"}
        /\ a.op \in {"rule", "default"} => a.rule \in PanelRules
    BY <1>2, SectionSays DEF AskFits
  <2>2. served' = RulesAfter(a)
    BY <1>2 DEF SettingsAfter
  <2>3. CASE a.op \in {"rule", "default"}
    BY <1>1, <1>2, <2>1, <2>2, <2>3 DEF RulesAfter, Stored
  <2>4. CASE a.op = "keepDefault"
    BY <1>1, <1>2, <2>2, <2>4 DEF RulesAfter, Stored
  <2> QED BY <2>1, <2>3, <2>4
<1>3. CASE Section(a) = "type"
  <2>1. a.type \in PanelTypes /\ a.rule \in PanelRules
    BY <1>3, SectionSays DEF AskFits
  <2>2. served' = TypeAfter(a)
    BY <1>3 DEF SettingsAfter
  <2> QED BY <1>1, <1>3, <2>1, <2>2 DEF TypeAfter, Stored
<1>4. CASE Section(a) \in Lists
  <2>1. /\ a.op \in {"add", "save", "remove", "select"} /\ a.list = Section(a) /\ a.entry \in PanelEntries
        /\ a.op = "save" => a.with \in PanelEntries
        /\ a.op = "select" => a.list = "targets"
    BY <1>4, SectionSays DEF AskFits
  <2>2. served' \in ListsAfter(a)
    BY <1>4 DEF SettingsAfter, Lists
  <2>3. Section(a) \notin {"rule", "type"}
    BY <1>4 DEF Lists
  <2>4. CASE a.op = "add"
    <3>1. PICK e \in {a.entry, served.active} :
            /\ served' = [served EXCEPT !.lists[a.list] = @ \cup {a.entry}, !.active = e]
            /\ a.list # "targets" => e = served.active
      BY <2>2, <2>4 DEF ListsAfter
    <3>2. e \in PanelEntries
      BY <1>1, <2>1, <3>1 DEF Stored
    <3>3. served' \in Stored /\ served'.rule = served.rule /\ served'.default = served.default
          /\ served'.types = served.types
      BY <1>1, <1>4, <2>1, <3>1, <3>2 DEF Stored
    <3>4. /\ \A l \in Lists \ {a.list} : served'.lists[l] = served.lists[l]
          /\ a.list # "targets" => served'.active = served.active
      BY <1>1, <1>4, <2>1, <3>1, <3>2 DEF Stored
    <3> QED BY <1>4, <2>1, <2>3, <3>3, <3>4
  <2>5. CASE a.op = "save"
    BY <1>1, <1>4, <2>1, <2>2, <2>3, <2>5 DEF ListsAfter, Stored
  <2>6. CASE a.op = "select"
    BY <1>1, <1>4, <2>1, <2>2, <2>3, <2>6 DEF ListsAfter, Stored
  <2>7. CASE a.op = "remove"
    <3>1. PICK e \in IF a.list = "targets" /\ served.active = a.entry
                     THEN served.lists["targets"] \ {a.entry} ELSE {served.active} :
            served' = [served EXCEPT !.lists[a.list] = @ \ {a.entry}, !.active = e]
      BY <2>2, <2>7 DEF ListsAfter
    <3>2. e \in PanelEntries /\ (a.list # "targets" => e = served.active)
      BY <1>1, <3>1 DEF Stored, Lists
    <3>3. served' \in Stored /\ served'.rule = served.rule /\ served'.default = served.default
          /\ served'.types = served.types
      BY <1>1, <1>4, <2>1, <3>1, <3>2 DEF Stored
    <3>4. /\ \A l \in Lists \ {a.list} : served'.lists[l] = served.lists[l]
          /\ a.list # "targets" => served'.active = served.active
      BY <1>1, <1>4, <2>1, <3>1, <3>2 DEF Stored
    <3> QED BY <1>4, <2>1, <2>3, <3>3, <3>4
  <2> QED BY <2>1, <2>4, <2>5, <2>6, <2>7
<1> QED BY <1>2, <1>3, <1>4, SectionSays

\* The target list grows but by a removal, and that takes one entry.
LEMMA TargetsSay ==
    ASSUME PanelForm, NEW a, AskFits(a), served' \in SettingsAfter(a)
    PROVE  /\ ~(a.op = "remove" /\ a.list = "targets")
                => served.lists["targets"] \subseteq served'.lists["targets"]
           /\ a.op = "remove" /\ a.list = "targets"
                => served'.lists["targets"] = served.lists["targets"] \ {a.entry}
           /\ a.op = "save" /\ a.list = "targets"
                => served'.lists["targets"] = served.lists["targets"] \cup {a.entry}
<1>1. served \in Stored /\ "targets" \in Lists
  BY DEF PanelForm, Lists
<1>2. CASE Section(a) # "targets"
  BY <1>1, <1>2, SettingsSay, SectionSays DEF Lists
<1>3. CASE Section(a) = "targets"
  <2>1. a.op \in {"add", "save", "remove", "select"} /\ a.list = "targets"
    BY <1>1, <1>3, SectionSays
  <2>2. served' \in ListsAfter(a)
    BY <1>3 DEF SettingsAfter
  <2>3. CASE a.op = "add"
    <3>1. PICK e : served' = [served EXCEPT !.lists["targets"] = @ \cup {a.entry}, !.active = e]
      BY <2>1, <2>2, <2>3 DEF ListsAfter
    <3> QED BY <1>1, <2>1, <2>3, <3>1 DEF Stored
  <2>4. CASE a.op = "save"
    <3>1. served' = [served EXCEPT !.lists["targets"] = @ \cup {a.entry}]
      BY <2>1, <2>2, <2>4 DEF ListsAfter
    <3> QED BY <1>1, <2>4, <3>1 DEF Stored
  <2>5. CASE a.op = "select"
    BY <1>1, <2>1, <2>2, <2>5 DEF ListsAfter, Stored
  <2>6. CASE a.op = "remove"
    <3>1. PICK e : served' = [served EXCEPT !.lists["targets"] = @ \ {a.entry}, !.active = e]
      BY <2>1, <2>2, <2>6 DEF ListsAfter
    <3> QED BY <1>1, <2>1, <2>6, <3>1 DEF Stored
  <2> QED BY <2>1, <2>3, <2>4, <2>5, <2>6
<1> QED BY <1>2, <1>3

LEMMA ToldSays ==
    ASSUME PanelForm, NEW t \in trips, NEW at \in {"taken", "refused"}, NEW answer,
           IF at = "taken" THEN answer \in Stored ELSE answer = None,
           Told(t, at, answer)
    PROVE  \E n : /\ trips' = (trips \ {t}) \cup {n} /\ TripFits(n)
                  /\ n.ask = t.ask /\ n.at = at /\ n.answer = answer
<1>1. t = [ask |-> t.ask, nr |-> t.nr, at |-> t.at, answer |-> t.answer] /\ AskFits(t.ask)
  BY DEF PanelForm, TripFits
<1>2. PICK n : n = [t EXCEPT !.at = at, !.answer = answer]
  OBVIOUS
<1>3. n = [ask |-> n.ask, nr |-> n.nr, at |-> n.at, answer |-> n.answer]
  BY <1>1, <1>2
<1>4. n.ask = t.ask /\ n.at = at /\ n.answer = answer
  BY <1>1, <1>2
<1>5. TripFits(n)
  BY <1>1, <1>3, <1>4 DEF TripFits
<1> QED BY <1>2, <1>4, <1>5 DEF Told

LEMMA ActsKeeps ==
    ASSUME PanelInv, NEW t \in trips, ServerActs(t) PROVE PanelInv'
<1> DEFINE a == t.ask
           s == Section(a)
<1>1. /\ PanelForm /\ AskFits(a) /\ t.at = "sent" /\ served' \in SettingsAfter(a)
      /\ UNCHANGED <<panel, mixed>>
      /\ moved' = IF a.op \in {"rule", "default"} THEN moved \cup Following(a.rule) ELSE moved
  BY DEF PanelInv, PanelForm, TripFits, ServerActs
<1>2. served' \in Stored
  BY <1>1, SettingsSay
<1>3. PICK n : /\ trips' = (trips \ {t}) \cup {n} /\ TripFits(n)
               /\ n.ask = a /\ n.at = "taken" /\ n.answer = served'
  BY <1>1, <1>2, ToldSays DEF ServerActs
<1>4. /\ OneTripEach' /\ \A u \in trips' : TripFits(u)
      /\ \A x : x # s => Taken(x)' = Taken(x)
      /\ s \notin mixed => Taken(s)' = {n} /\ Taken(s) = {}
  <2>1. UNCHANGED mixed
    BY <1>1
  <2>2. Taken(s) \subseteq {t} => Taken(s) = {}
    BY <1>1 DEF Taken
  <2> HIDE DEF s
  <2> QED BY <1>1, <1>3, <2>1, <2>2, GoesOn DEF s
<1>5. PanelForm'
  BY <1>1, <1>2, <1>4 DEF PanelForm, Following
<1>6. ASSUME NEW l \in Lists PROVE ListFits(l)'
  <2>1. CASE l # s
    BY <1>1, <1>4, <2>1, SettingsSay, ListStays DEF PanelInv
  <2>2. CASE l = s
    <3>1. Trusted(l)' => Taken(l)' = {n} /\ SameList(l, n.answer)'
      BY <1>1, <1>3, <1>4, <2>2 DEF Trusted, SameList
    <3> QED BY <3>1 DEF ListFits
  <2> QED BY <2>1, <2>2
<1>7. RuleFits'
  <2>1. CASE s # "rule"
    BY <1>1, <1>4, <2>1, SettingsSay, RuleStays DEF PanelInv
  <2>2. CASE s = "rule"
    <3> SUFFICES ASSUME Trusted("rule")'
                 PROVE  RuleFits'
      BY DEF RuleFits
    <3>1. Trusted("rule") /\ Taken("rule") = {} /\ Taken("rule")' = {n}
      BY <1>1, <1>4, <2>2 DEF Trusted
    <3>2. panel.seen.rule = served.rule /\ panel.seen.default = served.default
      BY <3>1 DEF PanelInv, RuleFits
    <3>3. a.op \in {"rule", "default", "keepDefault"} /\ served' = RulesAfter(a) /\ served \in Stored
      BY <1>1, <2>2, SectionSays DEF SettingsAfter, PanelForm
    <3>4. CASE a.op = "keepDefault"
      <4>1. served'.rule = served.rule
        BY <3>3, <3>4 DEF RulesAfter, Stored
      <4> QED BY <1>1, <1>3, <3>1, <3>2, <3>4, <4>1 DEF RuleFits, KeepsDefault
    <3>5. CASE a.op \in {"rule", "default"}
      <4>1. served'.default = served.default
        BY <3>3, <3>5 DEF RulesAfter, Stored
      <4> QED BY <1>1, <1>3, <3>1, <3>2, <3>5, <4>1 DEF RuleFits, KeepsDefault
    <3> QED BY <3>3, <3>4, <3>5
  <2> QED BY <2>1, <2>2
<1>8. TypesFit'
  <2>1. CASE s # "type"
    <3>1. \A k \in PanelTypes \ moved' : served'.types[k] = served.types[k]
      <4>1. CASE s # "rule"
        BY <1>1, <2>1, <4>1, SettingsSay
      <4>2. CASE s = "rule"
        <5>1. a.op \in {"rule", "default", "keepDefault"} /\ served' = RulesAfter(a) /\ served \in Stored
          BY <1>1, <4>2, SectionSays DEF SettingsAfter, PanelForm
        <5>2. CASE a.op = "keepDefault"
          BY <5>1, <5>2 DEF RulesAfter, Stored
        <5>3. CASE a.op \in {"rule", "default"}
          BY <1>1, <5>1, <5>3 DEF RulesAfter, Stored
        <5> QED BY <5>1, <5>2, <5>3
      <4> QED BY <4>1, <4>2
    <3> QED BY <1>1, <1>4, <2>1, <3>1, TypesStay DEF PanelInv
  <2>2. CASE s = "type"
    <3> SUFFICES ASSUME Trusted("type")', NEW k \in PanelTypes \ moved'
                 PROVE  /\ \A u \in Taken("type")' : u.ask.type = k => u.answer.types[k] = served'.types[k]
                        /\ (\A u \in Taken("type")' : u.ask.type # k) => panel'.seen.types[k] = served'.types[k]
      BY DEF TypesFit
    <3>1. Trusted("type") /\ Taken("type") = {} /\ Taken("type")' = {n}
      BY <1>1, <1>4, <2>2 DEF Trusted
    <3>2. a.op = "type" /\ served' = TypeAfter(a) /\ served \in Stored
      BY <1>1, <2>2, SectionSays DEF SettingsAfter, PanelForm
    <3>3. k \notin moved /\ panel.seen.types[k] = served.types[k]
      BY <1>1, <3>1, <3>2 DEF PanelInv, TypesFit
    <3>4. a.type # k => served'.types[k] = served.types[k]
      BY <3>2 DEF TypeAfter, Stored
    <3> QED BY <1>1, <1>3, <3>1, <3>3, <3>4
  <2> QED BY <2>1, <2>2
<1>9. DraftFits'
  <2>1. \A u \in trips' : \E v \in trips : u.ask = v.ask
    BY <1>3
  <2> QED BY <1>1, <2>1 DEF PanelInv, DraftFits
<1>10. EditorFits'
  <2> SUFFICES ASSUME Trusted("targets")' PROVE EditorFits'
    BY DEF EditorFits
  <2>1. Trusted("targets") /\ UNCHANGED panel
    BY <1>1 DEF Trusted
  <2> DEFINE e == panel.editor["targets"]
             T == served.lists["targets"]
  <2>2. CASE ~OfTargets(t, "remove")
    <3>1. T \subseteq served'.lists["targets"]
      BY <1>1, <2>2, TargetsSay DEF OfTargets
    <3>2. /\ ~OfTargets(n, "remove") /\ n.at # "sent"
          /\ \A u \in trips, op \in {"remove", "save"} : OfTargets(u, op) => u # t \/ op = "save"
      BY <1>3, <2>2 DEF OfTargets
    <3>3. (\A u \in trips' : ~OfTargets(u, "remove")) => \A u \in trips : ~OfTargets(u, "remove")
      BY <1>3, <2>2
    <3> QED BY <1>3, <2>1, <2>2, <3>1, <3>2, <3>3 DEF PanelInv, EditorFits
  <2>3. CASE OfTargets(t, "remove")
    <3>1. /\ served'.lists["targets"] = T \ {a.entry} /\ s = "targets"
          /\ e = None \/ a.with = e
      BY <1>1, <2>1, <2>3, TargetsSay, SectionSays DEF OfTargets, PanelInv, EditorFits, Lists
    <3>2. \A u \in trips' : Section(u.ask) = "targets" => u = n
      BY <1>1, <1>3, <1>4, <3>1 DEF OneTripEach, Trusted
    <3>3. \A u \in trips', op \in {"remove", "save"} : OfTargets(u, op) => u = n
      <4>1. \A u \in trips' : AskFits(u.ask)
        BY <1>4 DEF TripFits
      <4> QED BY <3>2, <4>1, SectionSays DEF OfTargets
    <3>4. \A u \in trips : OfTargets(u, "remove") => u = t
      BY <1>1, <1>3, <3>1, SectionSays DEF OfTargets, PanelInv, PanelForm, TripFits, OneTripEach, Trusted
    <3>5. e # None => e \in T
      BY <1>1, <2>1, <3>4 DEF PanelInv, EditorFits
    <3>6. OfTargets(n, "remove")
      BY <1>3, <2>3 DEF OfTargets
    <3> QED BY <1>1, <1>3, <2>1, <3>1, <3>3, <3>5, <3>6 DEF EditorFits
  <2> QED BY <2>2, <2>3
<1> QED BY <1>4, <1>5, <1>6, <1>7, <1>8, <1>9, <1>10 DEF PanelInv

LEMMA DeclinesKeeps ==
    ASSUME PanelInv, NEW t \in trips, ServerDeclines(t) PROVE PanelInv'
<1> DEFINE s == Section(t.ask)
<1>1. PanelForm /\ AskFits(t.ask) /\ t.at = "sent" /\ UNCHANGED <<served, panel, mixed, moved>>
  BY DEF PanelInv, PanelForm, TripFits, ServerDeclines
<1>2. PICK n : /\ trips' = (trips \ {t}) \cup {n} /\ TripFits(n)
               /\ n.ask = t.ask /\ n.at = "refused" /\ n.answer = None
  BY <1>1, ToldSays DEF ServerDeclines
<1>3. OneTripEach' /\ \A u \in trips' : TripFits(u)
  BY <1>1, <1>2, GoesOn
<1>4. \A x : Taken(x)' = Taken(x)
  BY <1>1, <1>2 DEF Taken
<1>5. PanelForm'
  BY <1>1, <1>3 DEF PanelForm
<1>6. \A l \in Lists : ListFits(l)'
  BY <1>1, <1>4, ListStays DEF PanelInv
<1>7. RuleFits' /\ TypesFit'
  BY <1>1, <1>4, RuleStays, TypesStay DEF PanelInv
<1>8. DraftFits'
  <2>1. \A u \in trips' : \E v \in trips : u.ask = v.ask
    BY <1>2
  <2> QED BY <1>1, <2>1 DEF PanelInv, DraftFits
<1>9. EditorFits'
  <2>1. \A u \in trips' : u.at \in {"taken", "sent"} => u \in trips
    BY <1>2
  <2>2. \A u \in trips' : \E v \in trips : u.ask = v.ask
    BY <1>2
  <2>3. \A u \in trips : u.at = "taken" => u \in trips'
    BY <1>1, <1>2
  <2>4. \A v \in trips : \E u \in trips' : u.ask = v.ask
    BY <1>2
  <2> QED BY <1>1, <2>1, <2>2, <2>3, <2>4 DEF PanelInv, EditorFits, OfTargets, Trusted
<1> QED BY <1>3, <1>5, <1>6, <1>7, <1>8, <1>9 DEF PanelInv

LEMMA RefusedKeeps ==
    ASSUME PanelInv, NEW t \in trips, TripRefused(t) PROVE PanelInv'
<1>1. /\ PanelForm /\ t.at = "refused" /\ UNCHANGED <<served, mixed, moved>>
      /\ trips' = trips \ {t} /\ panel' = [panel EXCEPT !.busy = None]
  BY DEF PanelInv, TripRefused
<1>2. /\ panel' \in Panels /\ panel'.seen = panel.seen /\ panel'.type = panel.type
      /\ panel'.draft = panel.draft /\ panel'.editor = panel.editor
  BY <1>1 DEF PanelForm, Panels
<1>3. OneTripEach' /\ \A u \in trips' : TripFits(u)
  BY <1>1, TripGone
<1>4. \A x : Taken(x)' = Taken(x)
  BY <1>1 DEF Taken
<1>5. PanelForm'
  BY <1>1, <1>2, <1>3 DEF PanelForm
<1>6. \A l \in Lists : ListFits(l)'
  BY <1>1, <1>2, <1>4, ListStays DEF PanelInv
<1>7. RuleFits' /\ TypesFit'
  BY <1>1, <1>2, <1>4, RuleStays, TypesStay DEF PanelInv
<1>8. DraftFits'
  BY <1>1, <1>2 DEF PanelInv, DraftFits
<1>9. EditorFits'
  <2> SUFFICES ASSUME Trusted("targets")' PROVE EditorFits'
    BY DEF EditorFits
  <2>1. Trusted("targets") /\ OneTripEach
    BY <1>1 DEF Trusted, PanelInv
  <2>2. \A u \in trips : AskFits(u.ask)
    BY DEF PanelInv, PanelForm, TripFits
  <2>3. CASE OfTargets(t, "remove")
    <3>1. \A u \in trips, op \in {"remove", "save"} : OfTargets(u, op) => u = t
      BY <2>1, <2>2, <2>3, SectionSays DEF OneTripEach, OfTargets, Trusted, Lists
    <3>2. ListFits("targets")' /\ Taken("targets")' = {}
      <4>1. \A u \in trips' : Section(u.ask) # "targets"
        BY <1>1, <2>1, <2>2, <2>3, SectionSays DEF OneTripEach, OfTargets, Trusted, Lists
      <4> QED BY <1>6, <4>1 DEF Taken, Lists
    <3>3. panel'.seen.lists["targets"] = served'.lists["targets"]
      BY <3>2 DEF ListFits, SameList
    <3>4. panel.editor["targets"] # None => panel.editor["targets"] \in served.lists["targets"]
      BY <1>1, <2>1, <3>1 DEF PanelInv, EditorFits
    <3> QED BY <1>1, <1>2, <3>1, <3>3, <3>4 DEF EditorFits
  <2>4. CASE ~OfTargets(t, "remove")
    <3>1. \A u \in trips : u.at = "taken" => u \in trips'
      BY <1>1
    <3>2. \A u \in trips : OfTargets(u, "remove") => u \in trips'
      BY <1>1, <2>4
    <3>3. trips' \subseteq trips
      BY <1>1
    <3> QED BY <1>1, <1>2, <2>1, <3>1, <3>2, <3>3 DEF PanelInv, EditorFits
  <2> QED BY <2>3, <2>4
<1> QED BY <1>3, <1>5, <1>6, <1>7, <1>8, <1>9 DEF PanelInv

LEMMA LostKeeps ==
    ASSUME PanelInv, NEW t \in trips, TripLost(t) PROVE PanelInv'
<1>1. /\ PanelForm /\ UNCHANGED <<served, moved>> /\ mixed' = mixed \cup {"lost"}
      /\ trips' = trips \ {t} /\ panel' = [panel EXCEPT !.busy = None]
  BY DEF PanelInv, TripLost
<1>2. /\ panel' \in Panels /\ panel'.type = panel.type /\ panel'.draft = panel.draft
  BY <1>1 DEF PanelForm, Panels
<1>3. OneTripEach' /\ \A u \in trips' : TripFits(u)
  BY <1>1, TripGone
<1>4. PanelForm'
  BY <1>1, <1>2, <1>3 DEF PanelForm
<1>5. DraftFits'
  BY <1>1, <1>2 DEF PanelInv, DraftFits
<1>6. \A s : ~Trusted(s)'
  BY <1>1 DEF Trusted
<1> QED BY <1>3, <1>4, <1>5, <1>6 DEF PanelInv, ListFits, RuleFits, TypesFit, EditorFits

LEMMA ListAnsweredKeeps ==
    ASSUME PanelInv, NEW t \in trips, ListAnswered(t) PROVE PanelInv'
<1> DEFINE a == t.ask
           l == a.list
<1>1. /\ PanelForm /\ AskFits(a) /\ t.at = "taken" /\ t.answer \in Stored /\ l # None
      /\ UNCHANGED <<served, mixed, moved>> /\ trips' = trips \ {t}
      /\ panel' = [panel EXCEPT !.seen = SeenLists(l, t.answer), !.editor = Closed(a), !.busy = None]
      /\ panel \in Panels
  BY DEF PanelInv, PanelForm, TripFits, ListAnswered
<1>2. /\ l \in Lists /\ Section(a) = l /\ a.op \in {"add", "save", "remove", "select"}
      /\ l \notin {"rule", "type"}
  BY <1>1, SectionSays DEF AskFits, Trip, Lists
<1> HIDE DEF l
<1> DEFINE seen == SeenLists(l, t.answer)
<1>3. /\ seen \in Stored /\ seen.lists[l] = t.answer.lists[l]
      /\ \A m \in Lists \ {l} : seen.lists[m] = panel.seen.lists[m]
      /\ seen.active = IF l = "targets" THEN t.answer.active ELSE panel.seen.active
      /\ seen.rule = panel.seen.rule /\ seen.default = panel.seen.default /\ seen.types = panel.seen.types
  BY <1>1, <1>2 DEF SeenLists, Panels, Stored
<1>4. /\ Closed(a) \in [Lists -> PanelEntries \cup {None}]
      /\ \A m \in Lists : Closed(a)[m] \in {panel.editor[m], None}
      /\ l # "targets" => Closed(a)["targets"] = panel.editor["targets"]
      /\ a.op = "remove" /\ l = "targets" /\ a.with = a.entry => Closed(a)["targets"] = None
  BY <1>1, <1>2 DEF Closed, Panels, l, Lists
<1>5. /\ panel' \in Panels /\ panel'.seen = seen /\ panel'.editor = Closed(a)
      /\ panel'.type = panel.type /\ panel'.draft = panel.draft
  <2> DEFINE left == Closed(a)
  <2>1. panel' = [panel EXCEPT !.seen = seen, !.editor = left, !.busy = None]
    BY <1>1
  <2>2. seen \in Stored /\ left \in [Lists -> PanelEntries \cup {None}]
    BY <1>3, <1>4
  <2> HIDE DEF seen, left
  <2>3. panel' \in Panels /\ panel'.seen = seen /\ panel'.editor = left
        /\ panel'.type = panel.type /\ panel'.draft = panel.draft
    BY <1>1, <2>1, <2>2 DEF Panels
  <2> QED BY <2>3 DEF left
<1>6. /\ OneTripEach' /\ \A u \in trips' : TripFits(u)
      /\ \A s : s # l => Taken(s)' = Taken(s)
      /\ l \notin mixed => Taken(l)' = {} /\ Taken(l) \subseteq {t}
  BY <1>1, <1>2, TripGone
<1>7. PanelForm'
  BY <1>1, <1>5, <1>6 DEF PanelForm
<1>8. t \in Taken(l)
  BY <1>1, <1>2 DEF Taken
<1>9. ASSUME NEW m \in Lists PROVE ListFits(m)'
  <2>1. CASE m # l
    <3>1. Trusted(m)' => ListFits(m) /\ Trusted(m) /\ Taken(m)' = Taken(m)
      BY <1>1, <1>6, <2>1 DEF PanelInv, Trusted
    <3>2. seen.lists[m] = panel.seen.lists[m] /\ (m = "targets" => seen.active = panel.seen.active)
      BY <1>3, <2>1
    <3> QED BY <1>1, <1>5, <3>1, <3>2 DEF ListFits, SameList
  <2>2. CASE m = l
    <3> SUFFICES ASSUME Trusted(m)' PROVE ListFits(m)'
      BY DEF ListFits
    <3>1. SameList(l, t.answer) /\ Taken(l)' = {}
      BY <1>1, <1>2, <1>6, <1>8, <2>2 DEF PanelInv, ListFits, Trusted
    <3> QED BY <1>1, <1>3, <1>5, <2>2, <3>1 DEF ListFits, SameList
  <2> QED BY <2>1, <2>2
<1>10. RuleFits'
  BY <1>1, <1>2, <1>3, <1>5, <1>6, RuleStays DEF PanelInv
<1>11. TypesFit'
  BY <1>1, <1>2, <1>3, <1>5, <1>6, TypesStay DEF PanelInv
<1>12. DraftFits'
  BY <1>1, <1>5 DEF PanelInv, DraftFits
<1>13. EditorFits'
  <2> SUFFICES ASSUME Trusted("targets")' PROVE EditorFits'
    BY DEF EditorFits
  <2>1. Trusted("targets") /\ EditorFits /\ OneTripEach /\ ListFits("targets") /\ ListFits("targets")'
    BY <1>1, <1>9 DEF Trusted, PanelInv, Lists
  <2>2. \A u \in trips : AskFits(u.ask)
    BY DEF PanelInv, PanelForm, TripFits
  <2>3. CASE l # "targets"
    <3>1. \A op \in {"remove", "save"} : ~OfTargets(t, op)
      BY <2>3 DEF OfTargets, l
    <3>2. \A u \in trips, op \in {"remove", "save"} : OfTargets(u, op) => u \in trips'
      BY <1>1, <3>1
    <3>3. seen.lists["targets"] = panel.seen.lists["targets"]
      BY <1>3, <2>3 DEF Lists
    <3> HIDE DEF seen
    <3> QED BY <1>1, <1>4, <1>5, <2>1, <2>3, <3>2, <3>3 DEF EditorFits
  <2>4. CASE l = "targets"
    <3>1. \A u \in trips : Section(u.ask) = "targets" => u = t
      BY <1>2, <2>1, <2>4 DEF OneTripEach, Trusted
    <3>2. \A u \in trips, op \in {"remove", "save"} : OfTargets(u, op) => u = t
      <4>1. \A u \in trips, op \in {"remove", "save"} : OfTargets(u, op) => Section(u.ask) = "targets"
        BY <2>2, SectionSays DEF OfTargets
      <4> QED BY <3>1, <4>1
    <3>3. \A u \in trips', op \in {"remove", "save"} : ~OfTargets(u, op)
      BY <1>1, <3>2
    <3>4. panel'.seen.lists["targets"] = served'.lists["targets"]
      BY <1>6, <2>1, <2>4 DEF ListFits, SameList, Trusted
    <3>5. ASSUME panel'.editor["targets"] # None
          PROVE  panel'.editor["targets"] \in served'.lists["targets"]
      <4>1. panel.editor["targets"] # None /\ panel'.editor["targets"] = panel.editor["targets"]
        BY <1>4, <1>5, <3>5 DEF Lists
      <4>2. CASE panel.editor["targets"] \in served.lists["targets"]
        BY <1>1, <4>1, <4>2
      <4>3. CASE \E u \in trips : /\ OfTargets(u, "remove") /\ u.at = "taken"
                                  /\ u.ask.entry = panel.editor["targets"] /\ u.ask.with = u.ask.entry
        BY <1>4, <1>5, <2>4, <3>2, <3>5, <4>3 DEF OfTargets
      <4> QED BY <2>1, <4>1, <4>2, <4>3 DEF EditorFits
    <3> QED BY <3>3, <3>4, <3>5 DEF EditorFits
  <2> QED BY <2>3, <2>4
<1> QED BY <1>6, <1>7, <1>9, <1>10, <1>11, <1>12, <1>13 DEF PanelInv

\* The lists and the editors do not take part in what is asked of the rules.
LEMMA ListsApart ==
    ASSUME PanelInv, NEW t \in trips, Section(t.ask) \in {"rule", "type"},
           \A u \in trips : u = t \/ u \in trips',
           \A u \in trips' : u \in trips \/ (AskFits(u.ask) /\ Section(u.ask) \in {"rule", "type"}),
           served' = served, mixed' = mixed, panel'.editor = panel.editor,
           panel'.seen.lists = panel.seen.lists, panel'.seen.active = panel.seen.active
    PROVE  ListsFit' /\ EditorFits'
<1>1. \A l \in Lists : l \notin {"rule", "type"}
  BY DEF Lists
<1>2. \A l \in Lists : Taken(l)' = Taken(l)
  BY <1>1 DEF Taken
<1>3. \A l \in Lists : ListFits(l)'
  BY <1>2 DEF PanelInv, ListFits, SameList, Trusted
<1>4. AskFits(t.ask)
  BY DEF PanelInv, PanelForm, TripFits
<1>5. ASSUME NEW u, AskFits(u.ask), Section(u.ask) \in {"rule", "type"}, NEW op \in {"remove", "save"}
      PROVE  ~OfTargets(u, op)
  BY <1>5, SectionSays DEF OfTargets, Lists
<1>6. \A u, op : OfTargets(u, op) /\ op \in {"remove", "save"} => (u \in trips' <=> u \in trips)
  BY <1>4, <1>5
<1>7. EditorFits'
  <2>1. EditorFits /\ (Trusted("targets")' => Trusted("targets"))
    BY DEF PanelInv, Trusted
  <2> QED BY <1>6, <2>1 DEF EditorFits
<1> QED BY <1>3, <1>7 DEF ListsFit

LEMMA RuleAnsweredKeeps ==
    ASSUME PanelInv, NEW t \in trips, RuleAnswered(t) PROVE PanelInv'
<1> DEFINE a == t.ask
           next == [Empty EXCEPT !.op = "keepDefault"]
<1>1. /\ PanelForm /\ AskFits(a) /\ t.at = "taken" /\ t.answer \in Stored
      /\ a.op \in {"rule", "default"} /\ Section(a) = "rule"
      /\ UNCHANGED <<served, mixed, moved>> /\ panel \in Panels
      /\ t = [ask |-> t.ask, nr |-> t.nr, at |-> t.at, answer |-> t.answer]
  BY SectionSays DEF PanelInv, PanelForm, TripFits, RuleAnswered
<1>2. /\ panel' \in Panels
      /\ panel'.seen.rule = t.answer.rule /\ panel'.seen.default = panel.seen.default
      /\ panel'.seen.types = panel.seen.types /\ panel'.seen.lists = panel.seen.lists
      /\ panel'.seen.active = panel.seen.active /\ panel'.editor = panel.editor
      /\ panel'.type = panel.type /\ panel'.draft = panel.draft
  <2>1. PICK b \in {None, panel.busy} :
          panel' = [panel EXCEPT !.rule = t.answer.rule, !.seen.rule = t.answer.rule, !.busy = b]
    BY DEF RuleAnswered
  <2>2. t.answer.rule \in PanelRules /\ b \in Buttons \cup {None} /\ panel.seen \in Stored
    BY <1>1, <2>1 DEF Stored, Panels
  <2> DEFINE seen == [panel.seen EXCEPT !.rule = t.answer.rule]
  <2>3. seen \in Stored /\ seen.rule = t.answer.rule /\ seen.default = panel.seen.default
        /\ seen.types = panel.seen.types /\ seen.lists = panel.seen.lists /\ seen.active = panel.seen.active
    BY <2>2 DEF Stored
  <2>4. panel' = [panel EXCEPT !.rule = t.answer.rule, !.seen = seen, !.busy = b]
    BY <1>1, <2>1 DEF Panels
  <2> HIDE DEF seen
  <2>5. panel' \in Panels /\ panel'.seen = seen /\ panel'.editor = panel.editor
        /\ panel'.type = panel.type /\ panel'.draft = panel.draft
    BY <1>1, <2>2, <2>3, <2>4 DEF Panels
  <2> QED BY <2>3, <2>5
<1>3. AskFits(next) /\ Section(next) = "rule" /\ next.op = "keepDefault"
  <2>1. /\ next \in Trip /\ next.op = "keepDefault" /\ next.list = None
    BY DEF Empty, Trip
  <2>2. AskFits(next)
    BY <2>1 DEF AskFits
  <2> QED BY <2>1, <2>2, SectionSays
<1> HIDE DEF next
<1>4. /\ \A u \in trips' : (u \in trips /\ u # t) \/ (TripFits(u) /\ u.ask = next /\ u.at = "sent")
      /\ \A u \in trips : u = t \/ u \in trips'
      /\ \A u, v \in trips' : u \notin trips \ {t} /\ v \notin trips \ {t} => u = v
  <2>1. CASE a.op = "rule"
    <3>1. trips' = trips \ {t}
      BY <2>1 DEF RuleAnswered
    <3> QED BY <3>1
  <2>2. CASE a.op = "default"
    <3>1. PICK n : n = [t EXCEPT !.ask = next, !.at = "sent", !.answer = None]
      OBVIOUS
    <3>2. n = [ask |-> n.ask, nr |-> n.nr, at |-> n.at, answer |-> n.answer]
      BY <1>1, <3>1
    <3>3. n.ask = next /\ n.at = "sent" /\ n.answer = None
      BY <1>1, <3>1
    <3>4. TripFits(n)
      BY <1>3, <3>2, <3>3 DEF TripFits
    <3>5. trips' = (trips \ {t}) \cup {n}
      BY <2>2, <3>1 DEF RuleAnswered, next
    <3> QED BY <3>3, <3>4, <3>5
  <2> QED BY <1>1, <2>1, <2>2
<1>5. OneTripEach' /\ \A u \in trips' : TripFits(u)
  BY <1>1, <1>3, <1>4 DEF PanelInv, PanelForm, OneTripEach
<1>6. \A s : s # "rule" => Taken(s)' = Taken(s)
  BY <1>1, <1>3, <1>4 DEF Taken
<1>7. PanelForm'
  BY <1>1, <1>2, <1>5 DEF PanelForm
<1>8. ListsFit' /\ EditorFits'
  <2>1. Section(t.ask) \in {"rule", "type"}
    BY <1>1
  <2>2. /\ \A u \in trips : u = t \/ u \in trips'
        /\ \A u \in trips' : u \in trips \/ (AskFits(u.ask) /\ Section(u.ask) \in {"rule", "type"})
    BY <1>3, <1>4
  <2>3. served' = served /\ mixed' = mixed
    BY <1>1
  <2> QED BY <1>2, <2>1, <2>2, <2>3, ListsApart
<1>9. TypesFit'
  BY <1>1, <1>2, <1>6, TypesStay DEF PanelInv
<1>10. DraftFits'
  <2>1. \A u \in trips' : u.ask.op = "type" => u \in trips
    BY <1>3, <1>4
  <2> QED BY <1>1, <1>2, <2>1 DEF PanelInv, DraftFits
<1>11. RuleFits'
  <2> SUFFICES ASSUME Trusted("rule")' PROVE RuleFits'
    BY DEF RuleFits
  <2>1. Trusted("rule") /\ t \in Taken("rule") /\ ~KeepsDefault(t)
    BY <1>1 DEF Trusted, Taken, KeepsDefault
  <2>2. \A u \in Taken("rule") : u = t
    BY <1>1, <2>1 DEF Taken, OneTripEach, PanelInv, Trusted
  <2>3. t.answer.rule = served.rule /\ panel.seen.default = served.default
    BY <2>1, <2>2 DEF PanelInv, RuleFits
  <2>4. Taken("rule")' = {}
    BY <1>1, <1>4, <2>2 DEF Taken
  <2> QED BY <1>1, <1>2, <2>3, <2>4 DEF RuleFits
<1> QED BY <1>5, <1>7, <1>8, <1>9, <1>10, <1>11 DEF PanelInv, ListsFit

LEMMA DefaultAnsweredKeeps ==
    ASSUME PanelInv, NEW t \in trips, DefaultAnswered(t) PROVE PanelInv'
<1>1. /\ PanelForm /\ AskFits(t.ask) /\ t.at = "taken" /\ t.answer \in Stored
      /\ t.ask.op = "keepDefault" /\ Section(t.ask) = "rule"
      /\ UNCHANGED <<served, mixed, moved>> /\ trips' = trips \ {t} /\ panel \in Panels
      /\ panel' = [panel EXCEPT !.seen.default = t.answer.default, !.busy = None]
  BY SectionSays DEF PanelInv, PanelForm, TripFits, DefaultAnswered
<1>2. /\ panel' \in Panels
      /\ panel'.seen.default = t.answer.default /\ panel'.seen.rule = panel.seen.rule
      /\ panel'.seen.types = panel.seen.types /\ panel'.seen.lists = panel.seen.lists
      /\ panel'.seen.active = panel.seen.active /\ panel'.editor = panel.editor
      /\ panel'.type = panel.type /\ panel'.draft = panel.draft
  <2>1. t.answer.default \in PanelRules \cup {None} /\ panel.seen \in Stored
    BY <1>1 DEF Stored, Panels
  <2> DEFINE seen == [panel.seen EXCEPT !.default = t.answer.default]
  <2>2. seen \in Stored /\ seen.default = t.answer.default /\ seen.rule = panel.seen.rule
        /\ seen.types = panel.seen.types /\ seen.lists = panel.seen.lists /\ seen.active = panel.seen.active
    BY <2>1 DEF Stored
  <2>3. panel' = [panel EXCEPT !.seen = seen, !.busy = None]
    BY <1>1 DEF Panels
  <2> HIDE DEF seen
  <2>4. panel' \in Panels /\ panel'.seen = seen /\ panel'.editor = panel.editor
        /\ panel'.type = panel.type /\ panel'.draft = panel.draft
    BY <1>1, <2>2, <2>3 DEF Panels
  <2> QED BY <2>2, <2>4
<1>3. /\ OneTripEach' /\ \A u \in trips' : TripFits(u)
      /\ \A s : s # "rule" => Taken(s)' = Taken(s)
      /\ "rule" \notin mixed => Taken("rule")' = {} /\ Taken("rule") \subseteq {t}
  BY <1>1, TripGone
<1>4. PanelForm'
  BY <1>1, <1>2, <1>3 DEF PanelForm
<1>5. ListsFit' /\ EditorFits'
  <2>1. Section(t.ask) \in {"rule", "type"}
    BY <1>1
  <2>2. (\A u \in trips : u = t \/ u \in trips') /\ (\A u \in trips' : u \in trips)
    BY <1>1
  <2>3. served' = served /\ mixed' = mixed
    BY <1>1
  <2> QED BY <1>2, <2>1, <2>2, <2>3, ListsApart
<1>6. TypesFit'
  BY <1>1, <1>2, <1>3, TypesStay DEF PanelInv
<1>7. DraftFits'
  BY <1>1, <1>2 DEF PanelInv, DraftFits
<1>8. RuleFits'
  <2> SUFFICES ASSUME Trusted("rule")' PROVE RuleFits'
    BY DEF RuleFits
  <2>1. Trusted("rule") /\ t \in Taken("rule") /\ KeepsDefault(t)
    BY <1>1 DEF Trusted, Taken, KeepsDefault
  <2>2. Taken("rule")' = {} /\ Taken("rule") \subseteq {t}
    BY <1>3, <2>1 DEF Trusted
  <2>3. t.answer.default = served.default /\ panel.seen.rule = served.rule
    BY <2>1, <2>2 DEF PanelInv, RuleFits
  <2> QED BY <1>1, <1>2, <2>2, <2>3 DEF RuleFits
<1> QED BY <1>3, <1>4, <1>5, <1>6, <1>7, <1>8 DEF PanelInv, ListsFit

LEMMA TypeAnsweredKeeps ==
    ASSUME PanelInv, NEW t \in trips, TypeAnswered(t) PROVE PanelInv'
<1> DEFINE k == t.ask.type
           r == t.answer.types[k]
<1>1. /\ PanelForm /\ AskFits(t.ask) /\ t.at = "taken" /\ t.answer \in Stored
      /\ t.ask.op = "type" /\ Section(t.ask) = "type"
      /\ UNCHANGED <<served, mixed>> /\ trips' = trips \ {t} /\ panel \in Panels
      /\ panel' = [panel EXCEPT !.seen.types[k] = r, !.draft = [of |-> k, rule |-> r], !.busy = None]
      /\ moved' = IF served.types[k] = r THEN moved \ {k} ELSE moved
  BY SectionSays DEF PanelInv, PanelForm, TripFits, TypeAnswered
<1>2. k \in PanelTypes /\ r \in PanelRules /\ panel.seen \in Stored
  BY <1>1 DEF AskFits, Stored, Panels
<1>3. /\ panel' \in Panels
      /\ panel'.seen.types = [panel.seen.types EXCEPT ![k] = r] /\ panel'.seen.rule = panel.seen.rule
      /\ panel'.seen.default = panel.seen.default /\ panel'.seen.lists = panel.seen.lists
      /\ panel'.seen.active = panel.seen.active /\ panel'.editor = panel.editor
      /\ panel'.type = panel.type /\ panel'.draft.of = k
  <2> DEFINE seen  == [panel.seen EXCEPT !.types[k] = r]
             draft == [of |-> k, rule |-> r]
  <2>1. seen \in Stored /\ seen.types = [panel.seen.types EXCEPT ![k] = r]
        /\ seen.default = panel.seen.default /\ seen.rule = panel.seen.rule
        /\ seen.lists = panel.seen.lists /\ seen.active = panel.seen.active
    BY <1>2 DEF Stored
  <2>2. draft \in Draft /\ draft.of = k
    BY <1>2 DEF Draft
  <2>3. panel' = [panel EXCEPT !.seen = seen, !.draft = draft, !.busy = None]
    BY <1>1 DEF Panels
  <2> HIDE DEF seen, draft
  <2>4. panel' \in Panels /\ panel'.seen = seen /\ panel'.editor = panel.editor
        /\ panel'.type = panel.type /\ panel'.draft = draft
    BY <1>1, <2>1, <2>2, <2>3 DEF Panels
  <2> QED BY <2>1, <2>2, <2>4
<1>4. /\ OneTripEach' /\ \A u \in trips' : TripFits(u)
      /\ \A s : s # "type" => Taken(s)' = Taken(s)
      /\ "type" \notin mixed => Taken("type")' = {} /\ Taken("type") \subseteq {t}
  BY <1>1, TripGone
<1>5. PanelForm'
  BY <1>1, <1>3, <1>4 DEF PanelForm
<1>6. ListsFit' /\ EditorFits'
  <2>1. Section(t.ask) \in {"rule", "type"}
    BY <1>1
  <2>2. (\A u \in trips : u = t \/ u \in trips') /\ (\A u \in trips' : u \in trips)
    BY <1>1
  <2>3. served' = served /\ mixed' = mixed
    BY <1>1
  <2> QED BY <1>3, <2>1, <2>2, <2>3, ListsApart
<1>7. RuleFits'
  BY <1>1, <1>3, <1>4, RuleStays DEF PanelInv
<1>8. DraftFits'
  BY <1>1, <1>3 DEF PanelInv, DraftFits
<1>9. TypesFit'
  <2> SUFFICES ASSUME Trusted("type")', NEW j \in PanelTypes \ moved'
               PROVE  panel'.seen.types[j] = served'.types[j] /\ Taken("type")' = {}
    BY DEF TypesFit
  <2>1. Trusted("type") /\ t \in Taken("type")
    BY <1>1 DEF Trusted, Taken
  <2>2. Taken("type")' = {} /\ Taken("type") \subseteq {t}
    BY <1>4, <2>1 DEF Trusted
  <2>3. CASE j = k
    <3>1. served.types[k] = r
      BY <1>1, <1>2, <2>1, <2>3 DEF PanelInv, TypesFit
    <3> QED BY <1>1, <1>2, <1>3, <2>2, <2>3, <3>1 DEF Stored
  <2>4. CASE j # k
    <3>1. j \notin moved /\ panel.seen.types[j] = served.types[j]
      BY <1>1, <2>1, <2>2, <2>4 DEF PanelInv, TypesFit
    <3> QED BY <1>1, <1>2, <1>3, <2>2, <2>4, <3>1 DEF Stored
  <2> QED BY <2>3, <2>4
<1> QED BY <1>4, <1>5, <1>6, <1>7, <1>8, <1>9 DEF PanelInv, ListsFit

----------------------------------------------------------------------------
(* The settings screen: what is typed, chosen and sent *)

LEMMA DraftingKeeps ==
    ASSUME PanelInv,
           \/ \E t \in PanelTypes : SelectTypeConfig(t)
           \/ \E r \in PanelRules : EditTypeDraft(r) \/ EditRule(r)
           \/ ResetToCommon
    PROVE  PanelInv'
<1>1. panel \in Panels /\ mixed \subseteq Lists \cup {"rule", "type", "lost"}
  BY DEF PanelInv, PanelForm
<1>2. CASE \E t \in PanelTypes : SelectTypeConfig(t)
  <2>1. PICK t \in PanelTypes : SelectTypeConfig(t)
    BY <1>2
  <2>2. Chosen(t) \in Draft /\ Chosen(t).of = t
    BY <1>1 DEF Chosen, Draft, Panels, Stored
  <2>3. panel' = [panel EXCEPT !.type = t, !.draft = Chosen(t)]
    BY <2>1 DEF SelectTypeConfig
  <2>4. /\ panel' \in Panels /\ panel'.seen = panel.seen /\ panel'.editor = panel.editor
        /\ panel'.type = t /\ panel'.draft.of = t
    BY <1>1, <2>2, <2>3 DEF Panels
  <2>5. /\ UNCHANGED <<served, trips, moved>> /\ mixed \subseteq mixed' /\ mixed' \subseteq mixed \cup {"type"}
        /\ "type" \notin mixed' => \A u \in trips : u.ask.op # "type"
    BY <2>1 DEF SelectTypeConfig
  <2>6. DraftFits'
    BY <2>4, <2>5 DEF DraftFits
  <2>7. EditorFits'
    BY <2>4, <2>5 DEF PanelInv, EditorFits, Trusted
  <2> QED BY <1>1, <2>4, <2>5, <2>6, <2>7, ScreenKeeps
<1>3. ASSUME NEW r \in PanelRules, EditTypeDraft(r) \/ EditRule(r) \/ ResetToCommon
      PROVE  PanelInv'
  <2>1. \E s \in PanelRules : \/ panel' = [panel EXCEPT !.draft.rule = s]
                              \/ panel' = [panel EXCEPT !.rule = s]
    BY <1>1, <1>3 DEF EditTypeDraft, EditRule, ResetToCommon, Panels
  <2>2. /\ panel' \in Panels /\ panel'.seen = panel.seen /\ panel'.editor = panel.editor
        /\ panel'.type = panel.type /\ panel'.draft.of = panel.draft.of
    BY <1>1, <2>1 DEF Panels, Draft
  <2>3. UNCHANGED <<served, trips, mixed, moved>>
    BY <1>3 DEF EditTypeDraft, EditRule, ResetToCommon
  <2>4. DraftFits' /\ EditorFits'
    BY <2>2, <2>3 DEF PanelInv, DraftFits, EditorFits, Trusted
  <2> QED BY <1>1, <2>2, <2>3, <2>4, ScreenKeeps
<1>4. PanelRules # {}
  BY <1>1 DEF Panels
<1> QED BY <1>2, <1>3, <1>4

LEMMA BeginKeeps ==
    ASSUME PanelInv, NEW l \in Lists, NEW e \in PanelEntries, BeginEdit(l, e) PROVE PanelInv'
<1>1. panel \in Panels /\ mixed \subseteq Lists \cup {"rule", "type", "lost"}
  BY DEF PanelInv, PanelForm
<1>2. /\ panel' = [panel EXCEPT !.editor[l] = e] /\ UNCHANGED <<served, trips, moved>>
      /\ mixed \subseteq mixed' /\ mixed' \subseteq mixed \cup {l} /\ e \in panel.seen.lists[l]
      /\ l \notin mixed' => \A t \in trips : ~(t.ask.op = "remove" /\ t.ask.list = l)
  BY DEF BeginEdit
<1>3. /\ panel' \in Panels /\ panel'.seen = panel.seen /\ panel'.type = panel.type
      /\ panel'.draft = panel.draft /\ panel'.editor = [panel.editor EXCEPT ![l] = e]
  BY <1>1, <1>2 DEF Panels
<1>4. DraftFits'
  BY <1>2, <1>3 DEF PanelInv, DraftFits, Lists
<1>5. EditorFits'
  <2> SUFFICES ASSUME Trusted("targets")' PROVE EditorFits'
    BY DEF EditorFits
  <2>1. Trusted("targets")
    BY <1>2 DEF Trusted
  <2>2. CASE l = "targets"
    <3>1. \A t \in trips : ~OfTargets(t, "remove")
      BY <1>2, <2>2 DEF OfTargets, Trusted
    <3>2. panel'.editor["targets"] = e
      BY <1>1, <1>3, <2>2 DEF Panels
    <3> QED BY <1>2, <1>3, <2>1, <2>2, <3>1, <3>2 DEF PanelInv, EditorFits
  <2>3. CASE l # "targets"
    <3>1. panel'.editor["targets"] = panel.editor["targets"]
      BY <1>1, <1>3, <2>3 DEF Panels, Lists
    <3> QED BY <1>2, <1>3, <2>1, <3>1 DEF PanelInv, EditorFits
  <2> QED BY <2>2, <2>3
<1> QED BY <1>1, <1>2, <1>3, <1>4, <1>5, ScreenKeeps

LEMMA CancelKeeps ==
    ASSUME PanelInv, NEW l \in Lists, CancelEdit(l) PROVE PanelInv'
<1>1. panel \in Panels /\ mixed \subseteq Lists \cup {"rule", "type", "lost"}
  BY DEF PanelInv, PanelForm
<1>2. panel' = [panel EXCEPT !.editor[l] = None] /\ UNCHANGED <<served, trips, mixed, moved>>
  BY DEF CancelEdit
<1>3. /\ panel' \in Panels /\ panel'.seen = panel.seen /\ panel'.type = panel.type
      /\ panel'.draft = panel.draft /\ panel'.editor = [panel.editor EXCEPT ![l] = None]
  BY <1>1, <1>2 DEF Panels
<1>4. DraftFits'
  BY <1>2, <1>3 DEF PanelInv, DraftFits
<1>5. panel'.editor["targets"] \in {None, panel.editor["targets"]}
  BY <1>1, <1>3 DEF Panels, Lists
<1>6. EditorFits'
  BY <1>2, <1>3, <1>5 DEF PanelInv, EditorFits, Trusted
<1> QED BY <1>1, <1>2, <1>3, <1>4, <1>6, ScreenKeeps

LEMMA SaveRuleKeeps ==
    ASSUME PanelInv, SaveTypeConfig \/ \E op \in {"rule", "default"} : SaveRule(op) PROVE PanelInv'
<1>1. panel \in Panels
  BY DEF PanelInv, PanelForm
<1>2. CASE SaveTypeConfig
  <2>1. PICK a : a = [Empty EXCEPT !.type = panel.type, !.draft = panel.draft, !.rule = panel.draft.rule]
    OBVIOUS
  <2>2. a = [op |-> "type", list |-> None, entry |-> None, with |-> None,
             type |-> panel.type, draft |-> panel.draft, rule |-> panel.draft.rule]
    BY <2>1 DEF Empty
  <2>3. AskFits(a) /\ a.op = "type" /\ a.type = panel.type /\ a.draft = panel.draft
    BY <1>1, <2>2 DEF AskFits, Trip, Panels, Draft
  <2>4. Sends(a) /\ UNCHANGED <<served, moved>>
    BY <1>2, <2>1 DEF SaveTypeConfig
  <2> QED BY <2>3, <2>4, SendsKeeps
<1>3. ASSUME NEW op \in {"rule", "default"}, SaveRule(op) PROVE PanelInv'
  <2>1. PICK a : a = [Empty EXCEPT !.op = op, !.rule = panel.rule]
    OBVIOUS
  <2>2. a = [op |-> op, list |-> None, entry |-> None, with |-> None,
             type |-> None, draft |-> None, rule |-> panel.rule]
    BY <2>1 DEF Empty
  <2>3. AskFits(a) /\ a.op \in {"rule", "default"}
    BY <1>1, <2>2 DEF AskFits, Trip, Panels
  <2>4. Sends(a) /\ UNCHANGED <<served, moved>>
    BY <1>3, <2>1 DEF SaveRule
  <2> QED BY <2>3, <2>4, SendsKeeps
<1> QED BY <1>2, <1>3

LEMMA SaveListKeeps ==
    ASSUME PanelInv,
           NEW l \in Lists, NEW e \in PanelEntries,
           AddEntry(l, e) \/ SaveEntry(l, e) \/ RemoveEntry(l, e) \/ SelectTarget(e)
    PROVE  PanelInv'
<1>1. panel \in Panels
  BY DEF PanelInv, PanelForm
<1>2. CASE AddEntry(l, e)
  <2>1. PICK a : a = [Empty EXCEPT !.op = "add", !.list = l, !.entry = e]
    OBVIOUS
  <2>2. a = [op |-> "add", list |-> l, entry |-> e, with |-> None,
             type |-> None, draft |-> None, rule |-> None]
    BY <2>1 DEF Empty
  <2>3. AskFits(a) /\ a.op = "add"
    BY <2>2 DEF AskFits, Trip
  <2>4. Sends(a) /\ UNCHANGED <<served, moved>>
    BY <1>2, <2>1 DEF AddEntry
  <2> QED BY <2>3, <2>4, SendsKeeps
<1>3. CASE SaveEntry(l, e)
  <2>1. PICK a : a = [Empty EXCEPT !.op = "save", !.list = l, !.entry = panel.editor[l], !.with = e]
    OBVIOUS
  <2>2. a = [op |-> "save", list |-> l, entry |-> panel.editor[l], with |-> e,
             type |-> None, draft |-> None, rule |-> None]
    BY <2>1 DEF Empty
  <2>3. panel.editor[l] # None /\ panel.editor[l] \in PanelEntries
    BY <1>1, <1>3 DEF SaveEntry, Panels
  <2>4. AskFits(a) /\ a.op = "save" /\ a.list = l /\ a.entry = panel.editor[l]
    BY <2>2, <2>3 DEF AskFits, Trip
  <2>5. Sends(a) /\ UNCHANGED <<served, moved>>
    BY <1>3, <2>1 DEF SaveEntry
  <2> QED BY <2>3, <2>4, <2>5, SendsKeeps
<1>4. CASE RemoveEntry(l, e)
  <2>1. PICK a : a = [Empty EXCEPT !.op = "remove", !.list = l, !.entry = e, !.with = panel.editor[l]]
    OBVIOUS
  <2>2. a = [op |-> "remove", list |-> l, entry |-> e, with |-> panel.editor[l],
             type |-> None, draft |-> None, rule |-> None]
    BY <2>1 DEF Empty
  <2>3. panel.editor[l] \in PanelEntries \cup {None}
    BY <1>1 DEF Panels
  <2>4. AskFits(a) /\ a.op = "remove" /\ a.list = l /\ a.with = panel.editor[l]
    BY <2>2, <2>3 DEF AskFits, Trip
  <2>5. Sends(a) /\ UNCHANGED <<served, moved>>
    BY <1>4, <2>1 DEF RemoveEntry
  <2> QED BY <2>4, <2>5, SendsKeeps
<1>5. CASE SelectTarget(e)
  <2>1. PICK a : a = [Empty EXCEPT !.op = "select", !.list = "targets", !.entry = e]
    OBVIOUS
  <2>2. a = [op |-> "select", list |-> "targets", entry |-> e, with |-> None,
             type |-> None, draft |-> None, rule |-> None]
    BY <2>1 DEF Empty
  <2>3. AskFits(a) /\ a.op = "select"
    BY <2>2 DEF AskFits, Trip, Lists
  <2>4. Sends(a) /\ UNCHANGED <<served, moved>>
    BY <1>5, <2>1 DEF SelectTarget
  <2> QED BY <2>3, <2>4, SendsKeeps
<1> QED BY <1>2, <1>3, <1>4, <1>5

LEMMA PanelStart == PanelInit => PanelInv
<1> SUFFICES ASSUME PanelInit PROVE PanelInv
  OBVIOUS
<1>1. PICK t \in PanelTypes, rule \in PanelRules, own \in PanelRules :
        panel = [ seen |-> served, rule |-> rule, type |-> t, draft |-> [of |-> t, rule |-> own],
                  editor |-> [l \in Lists |-> None], busy |-> None ]
  BY DEF PanelInit, Opened
<1>2. served \in Stored /\ trips = {} /\ mixed = {} /\ moved = {}
  BY DEF PanelInit
<1>3. panel \in Panels
  BY <1>1, <1>2 DEF Panels, Draft
<1>4. /\ panel.seen = served /\ panel.type = t /\ panel.draft.of = t
      /\ panel.editor["targets"] = None
  BY <1>1 DEF Lists
<1>5. PanelForm /\ OneTripEach /\ DraftFits /\ EditorFits
  BY <1>2, <1>3, <1>4 DEF PanelForm, OneTripEach, DraftFits, EditorFits
<1>6. \A s : Taken(s) = {}
  BY <1>2 DEF Taken
<1>7. RuleFits /\ TypesFit /\ \A l \in Lists : ListFits(l)
  BY <1>4, <1>6 DEF RuleFits, TypesFit, ListFits, SameList
<1> QED BY <1>5, <1>7 DEF PanelInv

LEMMA PanelKeeps == ASSUME PanelInv, PanelNext \/ UNCHANGED <<panelVars, spent>> PROVE PanelInv'
<1>1. CASE RulesNext
  BY <1>1, DraftingKeeps, SaveRuleKeeps, RuleAnsweredKeeps, DefaultAnsweredKeeps, TypeAnsweredKeeps DEF RulesNext
<1>2. CASE ListsNext
  <2>1. CASE \E e \in PanelEntries : SelectTarget(e)
    <3>1. "targets" \in Lists
      BY DEF Lists
    <3> QED BY <2>1, <3>1, SaveListKeeps
  <2> QED BY <1>2, <2>1, BeginKeeps, CancelKeeps, SaveListKeeps, ListAnsweredKeeps DEF ListsNext
<1>3. CASE \E t \in trips : TripEnds(t)
  BY <1>3, ActsKeeps, DeclinesKeeps, RefusedKeeps, LostKeeps DEF TripEnds
<1>4. CASE UNCHANGED <<panelVars, spent>>
  BY <1>4 DEF panelVars, PanelInv, PanelForm, OneTripEach, ListFits, RuleFits, TypesFit, DraftFits, EditorFits,
              Taken, Trusted, SameList
<1> QED BY <1>1, <1>2, <1>3, <1>4 DEF PanelNext

----------------------------------------------------------------------------
(* The editors of 시공종류: definitions *)

\* No other client has written, no answer was lost, and no save was asked for
\* while a load was under way.
Calm == ~crossedLoad /\ Happened("other") + Happened("lost") = 0

LayoutEditor ==
    [ shown : [EditTypes -> Wordings \cup {None}],
      saved : [EditTypes -> Wordings \cup {None}],
      type  : EditTypes,
      loads : {<< >>, <<None>>} \cup {<<l>> : l \in [EditTypes -> Wordings]},
      save  : SaveOf(Wordings) ]

LayoutsInv ==
    /\ layouts \in [EditTypes -> Wordings] /\ editor \in LayoutEditor
    /\ Calm =>
         IF editor.loads = << >>
         THEN layouts = IF SaveStored(editor)
                        THEN [editor.saved EXCEPT ![editor.save.type] = editor.save.value] ELSE editor.saved
         ELSE editor.save = None /\ editor.loads \in {<<None>>, <<layouts>>}

ConfigLoad == [EditTypes -> Config] \cup {None}

FieldEditor ==
    [ known : [EditTypes -> Config \cup {None}],
      type  : EditTypes \cup {None},
      draft : Config \cup {None},
      loads : Seq(ConfigLoad),
      save  : SaveOf(Config) ]

\* Everything that may be saved has the folder rule of its 시공종류.
RulesStay ==
    /\ \A t \in EditTypes : configs[t].rule = FirstRules[t]
    /\ \A t \in EditTypes : fields.known[t] # None => fields.known[t].rule = FirstRules[t]
    /\ \A i \in DOMAIN fields.loads : fields.loads[i] # None
         => \A t \in EditTypes : fields.loads[i][t].rule = FirstRules[t]
    /\ fields.draft # None => fields.draft.rule = FirstRules[fields.type]
    /\ fields.save # None  => fields.save.value.rule = FirstRules[fields.save.type]

FieldsInv ==
    /\ configs \in [EditTypes -> Config] /\ fields \in FieldEditor
    /\ fields.draft # None => fields.type # None
    /\ Calm =>
         IF fields.loads = << >>
         THEN configs = IF SaveStored(fields)
                        THEN [fields.known EXCEPT ![fields.save.type] = fields.save.value] ELSE fields.known
         ELSE fields.save = None /\ \A i \in DOMAIN fields.loads : fields.loads[i] \in {None, configs}
    /\ Happened("other") = 0 => RulesStay

EditorsInv == IsABag(spent) /\ LayoutsInv /\ FieldsInv

----------------------------------------------------------------------------
(* Counting rare events *)

LEMMA SpendCounts ==
    ASSUME IsABag(spent), NEW k, Spend(k)
    PROVE  /\ IsABag(spent)' /\ Happened(k)' = Happened(k) + 1
           /\ \A j : j # k => Happened(j)' = Happened(j)
           /\ \A j : Happened(j) \in Nat /\ Happened(j)' \in Nat
<1>1. /\ \A j \in DOMAIN spent : spent[j] \in Nat /\ spent[j] > 0
      /\ spent = [j \in DOMAIN spent |-> spent[j]]
  BY DEF IsABag
<1>2. spent' = [j \in (DOMAIN spent \cup {k}) |->
                   (IF j \in DOMAIN spent THEN spent[j] ELSE 0) + (IF j = k THEN 1 ELSE 0)]
  BY DEF Spend, (+), SetToBag
<1>3. /\ DOMAIN spent' = DOMAIN spent \cup {k}
      /\ spent'[k] = (IF k \in DOMAIN spent THEN spent[k] ELSE 0) + 1
      /\ \A j \in DOMAIN spent \ {k} : spent'[j] = spent[j]
  BY <1>1, <1>2
<1>4. IsABag(spent)'
  BY <1>1, <1>2, <1>3 DEF IsABag
<1>5. Happened(k)' = Happened(k) + 1
  BY <1>3 DEF Happened, BagIn, BagToSet
<1>6. ASSUME NEW j PROVE /\ j # k => Happened(j)' = Happened(j)
                         /\ Happened(j) \in Nat /\ Happened(j)' \in Nat
  <2>1. Happened(j) \in Nat
    BY <1>1 DEF Happened, BagIn, BagToSet
  <2>2. CASE j = k
    BY <1>5, <2>1, <2>2
  <2>3. CASE j # k
    BY <1>3, <2>1, <2>3 DEF Happened, BagIn, BagToSet
  <2> QED BY <2>1, <2>2, <2>3
<1> QED BY <1>4, <1>5, <1>6

----------------------------------------------------------------------------
(* The editors of 시공종류: proofs *)

\* Rare events only take something away from what is said of calm screens.
LEMMA EventsStay ==
    ASSUME IsABag(spent), spent' = spent \/ \E k : Spend(k)
    PROVE  /\ IsABag(spent)' /\ (Calm' => Calm \/ crossedLoad)
           /\ Happened("other")' = 0 => Happened("other") = 0
           /\ Spend("other") => ~Calm' /\ Happened("other")' # 0
           /\ Spend("lost") => ~Calm'
<1>1. CASE spent' = spent
  <2>1. \A k : ~Spend(k)
    <3> SUFFICES ASSUME NEW k, Spend(k) PROVE FALSE
      OBVIOUS
    <3>1. Happened(k)' = Happened(k) + 1 /\ Happened(k) \in Nat
      BY SpendCounts
    <3> QED BY <1>1, <3>1 DEF Happened
  <2> QED BY <1>1, <2>1 DEF Calm, Happened
<1>2. CASE \E k : Spend(k)
  <2>1. PICK k : Spend(k)
    BY <1>2
  <2>2. /\ IsABag(spent)' /\ Happened(k)' = Happened(k) + 1
        /\ \A j : j # k => Happened(j)' = Happened(j)
        /\ \A j : Happened(j) \in Nat /\ Happened(j)' \in Nat
    BY <2>1, SpendCounts
  <2>3. ASSUME NEW j, Spend(j) PROVE Happened(j)' = Happened(j) + 1
    BY <2>3, SpendCounts
  <2>4. \A j : Happened(j)' >= Happened(j)
    BY <2>2
  <2>5. /\ Happened("other") \in Nat /\ Happened("other")' \in Nat
        /\ Happened("lost") \in Nat /\ Happened("lost")' \in Nat
    BY <2>2
  <2>6. /\ Happened("other")' >= Happened("other") /\ Happened("lost")' >= Happened("lost")
        /\ Spend("other") => Happened("other")' = Happened("other") + 1
        /\ Spend("lost") => Happened("lost")' = Happened("lost") + 1
    BY <2>3, <2>4
  <2> QED BY <2>2, <2>5, <2>6 DEF Calm
<1> QED BY <1>1, <1>2

LEMMA LayoutsKeep ==
    ASSUME IsABag(spent), LayoutsInv,
           \/ LayoutsServed \/ LayoutsArrive \/ LayoutsLost
           \/ \E t \in EditTypes : SelectLayout(t) \/ \E w \in Wordings : OthersLayout(t, w)
           \/ \E w \in Wordings : ChangeLayout(w)
           \/ SaveLayout \/ LayoutStored \/ LayoutAnswered \/ LayoutSaveFails
    PROVE  LayoutsInv' /\ (crossedLoad => crossedLoad') /\ (spent' = spent \/ \E k : Spend(k))
<1>1. layouts \in [EditTypes -> Wordings] /\ editor \in LayoutEditor
  BY DEF LayoutsInv
<1>2. CASE LayoutsServed
  <2>1. /\ editor.loads = <<None>> /\ editor' = [editor EXCEPT !.loads = <<layouts>>]
        /\ UNCHANGED <<layouts, crossedLoad, spent>>
    BY <1>2 DEF LayoutsServed
  <2>2. /\ editor' \in LayoutEditor /\ editor'.loads = <<layouts>> /\ editor'.loads # << >>
        /\ editor.loads # << >> /\ editor'.save = editor.save
    BY <1>1, <2>1 DEF LayoutEditor
  <2>3. Calm' = Calm
    BY <2>1 DEF Calm, Happened
  <2> QED BY <1>1, <2>1, <2>2, <2>3 DEF LayoutsInv
<1>3. CASE LayoutsArrive
  <2>1. PICK l : l = Head(editor.loads)
    OBVIOUS
  <2>2. /\ editor.loads # << >> /\ l # None /\ UNCHANGED <<layouts, crossedLoad, spent>>
        /\ editor' = [editor EXCEPT !.shown = l, !.saved = l, !.loads = << >>]
    BY <1>3, <2>1 DEF LayoutsArrive
  <2>3. PICK m : editor.loads = <<m>> /\ m \in [EditTypes -> Wordings] \cup {None}
    BY <1>1, <2>2 DEF LayoutEditor
  <2>4. l = m /\ l \in [EditTypes -> Wordings]
    BY <2>1, <2>2, <2>3
  <2>5. /\ editor' \in LayoutEditor /\ editor'.loads = << >> /\ editor'.save = editor.save
        /\ editor'.saved = l
    BY <1>1, <2>2, <2>4 DEF LayoutEditor
  <2>6. Calm => l = layouts /\ editor.save = None
    <3>1. editor.loads # << >>
      BY <2>3
    <3>2. Calm => editor.save = None /\ editor.loads \in {<<None>>, <<layouts>>}
      BY <3>1 DEF LayoutsInv
    <3>3. m # None
      BY <2>2, <2>4
    <3> QED BY <2>3, <2>4, <3>2, <3>3
  <2>7. Calm' = Calm
    BY <2>2 DEF Calm, Happened
  <2> QED BY <1>1, <2>2, <2>5, <2>6, <2>7 DEF LayoutsInv, SaveStored
<1>4. CASE LayoutsLost
  <2>1. /\ Spend("lost") /\ editor' = [editor EXCEPT !.loads = << >>] /\ UNCHANGED <<layouts, crossedLoad>>
    BY <1>4 DEF LayoutsLost
  <2>2. editor' \in LayoutEditor
    BY <1>1, <2>1 DEF LayoutEditor
  <2> QED BY <1>1, <2>1, <2>2, EventsStay DEF LayoutsInv
<1>5. ASSUME NEW t \in EditTypes, SelectLayout(t)
      PROVE  LayoutsInv' /\ UNCHANGED <<crossedLoad, spent>>
  <2>1. editor' = [editor EXCEPT !.type = t] /\ UNCHANGED <<layouts, crossedLoad, spent>>
    BY <1>5 DEF SelectLayout
  <2>2. /\ editor' \in LayoutEditor /\ editor'.loads = editor.loads /\ editor'.save = editor.save
        /\ editor'.saved = editor.saved
    BY <1>1, <2>1 DEF LayoutEditor
  <2>3. Calm' = Calm
    BY <2>1 DEF Calm, Happened
  <2> QED BY <1>1, <2>1, <2>2, <2>3 DEF LayoutsInv, SaveStored
<1>6. ASSUME NEW t \in EditTypes, NEW w \in Wordings, OthersLayout(t, w)
      PROVE  LayoutsInv' /\ UNCHANGED crossedLoad /\ Spend("other")
  <2>1. Spend("other") /\ layouts' = [layouts EXCEPT ![t] = w] /\ UNCHANGED <<editor, crossedLoad>>
    BY <1>6 DEF OthersLayout
  <2>2. layouts' \in [EditTypes -> Wordings]
    BY <1>1, <2>1
  <2>3. ~Calm'
    BY <2>1, EventsStay
  <2> QED BY <1>1, <2>1, <2>2, <2>3 DEF LayoutsInv
<1>7. ASSUME NEW w \in Wordings, ChangeLayout(w)
      PROVE  LayoutsInv' /\ UNCHANGED crossedLoad /\ Spend("edit")
  <2>1. /\ Spend("edit") /\ editor' = [editor EXCEPT !.shown[editor.type] = w]
        /\ UNCHANGED <<layouts, crossedLoad>>
    BY <1>7 DEF ChangeLayout
  <2>2. /\ editor' \in LayoutEditor /\ editor'.loads = editor.loads /\ editor'.save = editor.save
        /\ editor'.saved = editor.saved
    BY <1>1, <2>1 DEF LayoutEditor
  <2>3. Calm' => Calm
    BY <2>1, EventsStay DEF Calm
  <2> QED BY <1>1, <2>1, <2>2, <2>3 DEF LayoutsInv, SaveStored
<1>8. CASE SaveLayout
  <2> DEFINE v == Layout(editor.type, editor.shown)
             s == [type |-> editor.type, stored |-> FALSE, value |-> v]
  <2>1. /\ editor.save = None /\ UNCHANGED <<layouts, spent>>
        /\ editor' = [editor EXCEPT !.save = s] /\ crossedLoad' = (crossedLoad \/ editor.loads # << >>)
    BY <1>8 DEF SaveLayout
  <2>2. v \in Wordings
    BY <1>1, TypeEditorsAssumption DEF Layout, LayoutEditor
  <2>3. s \in SaveOf(Wordings) /\ ~s.stored
    BY <1>1, <2>2 DEF SaveOf, LayoutEditor
  <2> HIDE DEF s
  <2>4. /\ editor' \in LayoutEditor /\ editor'.loads = editor.loads /\ editor'.save = s
        /\ editor'.saved = editor.saved
    BY <1>1, <2>1, <2>3 DEF LayoutEditor
  <2>5. Calm' => Calm /\ editor.loads = << >>
    BY <2>1 DEF Calm, Happened
  <2> QED BY <1>1, <2>1, <2>3, <2>4, <2>5 DEF LayoutsInv, SaveStored
<1>9. CASE LayoutStored
  <2>1. /\ SaveAsked(editor) /\ layouts' = [layouts EXCEPT ![editor.save.type] = editor.save.value]
        /\ editor' = [editor EXCEPT !.save.stored = TRUE] /\ UNCHANGED <<crossedLoad, spent>>
    BY <1>9 DEF LayoutStored
  <2>2. PICK s : s = [editor.save EXCEPT !.stored = TRUE]
    OBVIOUS
  <2>3. /\ editor.save \in [type : EditTypes, value : Wordings, stored : BOOLEAN]
    BY <1>1, <2>1 DEF SaveAsked, LayoutEditor, SaveOf
  <2>4. /\ s \in SaveOf(Wordings) /\ s.type = editor.save.type /\ s.value = editor.save.value
        /\ SaveStored([editor EXCEPT !.save = s])
    <3>1. /\ s \in [type : EditTypes, value : Wordings, stored : BOOLEAN] /\ s.stored
          /\ s.type = editor.save.type /\ s.value = editor.save.value
      BY <2>2, <2>3
    <3>2. s # None
      BY <3>1, NoSaveAssumption
    <3> QED BY <1>1, <3>1, <3>2 DEF SaveOf, SaveStored, LayoutEditor
  <2>5. editor' = [editor EXCEPT !.save = s]
    BY <1>1, <2>1, <2>2 DEF LayoutEditor
  <2>6. /\ editor' \in LayoutEditor /\ editor'.loads = editor.loads /\ editor'.save = s
        /\ editor'.saved = editor.saved
    BY <1>1, <2>4, <2>5 DEF LayoutEditor
  <2>7. layouts' \in [EditTypes -> Wordings]
    BY <1>1, <2>1, <2>3
  <2>8. Calm' = Calm
    BY <2>1 DEF Calm, Happened
  <2>9. Calm => editor.loads = << >> /\ layouts = editor.saved
    BY <2>1 DEF LayoutsInv, SaveAsked, SaveStored
  <2>10. SaveStored(editor')
    BY <2>4, <2>5
  <2> QED BY <2>1, <2>4, <2>6, <2>7, <2>8, <2>9, <2>10 DEF LayoutsInv
<1>10. CASE LayoutAnswered
  <2>1. /\ SaveStored(editor) /\ UNCHANGED <<layouts, crossedLoad, spent>>
        /\ editor' = [editor EXCEPT !.shown[editor.save.type] = editor.save.value,
                                    !.saved[editor.save.type] = editor.save.value, !.save = None]
    BY <1>10 DEF LayoutAnswered
  <2>2. editor.save \in [type : EditTypes, value : Wordings, stored : BOOLEAN]
    BY <1>1, <2>1 DEF SaveStored, LayoutEditor, SaveOf
  <2>3. /\ editor'.saved = [editor.saved EXCEPT ![editor.save.type] = editor.save.value]
        /\ editor' \in LayoutEditor /\ editor'.loads = editor.loads /\ editor'.save = None
    BY <1>1, <2>1, <2>2 DEF LayoutEditor, SaveOf
  <2>4. Calm' = Calm
    BY <2>1 DEF Calm, Happened
  <2> QED BY <1>1, <2>1, <2>3, <2>4 DEF LayoutsInv, SaveStored
<1>11. CASE LayoutSaveFails
  <2>1. Spend("lost") /\ editor' = [editor EXCEPT !.save = None] /\ UNCHANGED <<layouts, crossedLoad>>
    BY <1>11 DEF LayoutSaveFails
  <2>2. editor' \in LayoutEditor
    BY <1>1, <2>1 DEF LayoutEditor, SaveOf
  <2> QED BY <1>1, <2>1, <2>2, EventsStay DEF LayoutsInv
<1>12. crossedLoad => crossedLoad'
  BY DEF LayoutsServed, LayoutsArrive, LayoutsLost, SelectLayout, OthersLayout, ChangeLayout, SaveLayout,
         LayoutStored, LayoutAnswered, LayoutSaveFails
<1>13. spent' = spent \/ \E k : Spend(k)
  BY DEF LayoutsServed, LayoutsArrive, LayoutsLost, SelectLayout, OthersLayout, ChangeLayout, SaveLayout,
         LayoutStored, LayoutAnswered, LayoutSaveFails
<1>14. LayoutsInv'
  BY <1>2, <1>3, <1>4, <1>5, <1>6, <1>7, <1>8, <1>9, <1>10, <1>11
<1> QED BY <1>12, <1>13, <1>14

LEMMA FieldsKeep ==
    ASSUME IsABag(spent), FieldsInv,
           \/ LoadConfigsAgain
           \/ \E i \in DOMAIN fields.loads : ConfigsServed(i) \/ ConfigsArrive(i) \/ ConfigsLost(i)
           \/ \E t \in EditTypes : ChooseConfig(t) \/ \E c \in Config : OthersConfig(t, c)
           \/ \E w \in Wordings : EditFields(w)
           \/ SaveConfig \/ ConfigStored \/ ConfigAnswered \/ ConfigSaveFails
    PROVE  FieldsInv' /\ (crossedLoad => crossedLoad') /\ (spent' = spent \/ \E k : Spend(k))
<1>1. /\ configs \in [EditTypes -> Config] /\ fields \in FieldEditor
      /\ fields.known \in [EditTypes -> Config \cup {None}] /\ fields.loads \in Seq(ConfigLoad)
      /\ fields.draft \in Config \cup {None} /\ fields.type \in EditTypes \cup {None}
      /\ fields.save \in SaveOf(Config) /\ (fields.draft # None => fields.type \in EditTypes)
  BY DEF FieldsInv, FieldEditor
<1>2. CASE LoadConfigsAgain
  <2>1. PICK q : q = Append(fields.loads, None)
    OBVIOUS
  <2>2. /\ Spend("reload") /\ fields' = [fields EXCEPT !.loads = q] /\ UNCHANGED configs
        /\ crossedLoad' = (crossedLoad \/ fields.save # None)
    BY <1>2, <2>1 DEF LoadConfigsAgain
  <2>3. None \in ConfigLoad
    BY DEF ConfigLoad
  <2>4. /\ q \in Seq(ConfigLoad) /\ q # << >> /\ DOMAIN q = 1 .. Len(fields.loads) + 1
        /\ \A i \in DOMAIN q : q[i] = None \/ (i \in DOMAIN fields.loads /\ q[i] = fields.loads[i])
    BY <1>1, <2>1, <2>3
  <2>5. /\ fields' \in FieldEditor /\ fields'.loads = q /\ fields'.known = fields.known
        /\ fields'.save = fields.save /\ fields'.draft = fields.draft /\ fields'.type = fields.type
    BY <1>1, <2>2, <2>4 DEF FieldEditor
  <2>6. (Calm' => Calm /\ fields.save = None) /\ (Happened("other")' = 0 => Happened("other") = 0)
    BY <2>2, EventsStay DEF Calm
  <2>7. Calm => \A i \in DOMAIN fields.loads : fields.loads[i] \in {None, configs}
    BY <1>1 DEF FieldsInv
  <2>8. Calm' => fields'.save = None /\ \A i \in DOMAIN q : q[i] \in {None, configs'}
    BY <2>2, <2>4, <2>5, <2>6, <2>7
  <2>9. RulesStay => RulesStay'
    BY <2>2, <2>4, <2>5 DEF RulesStay
  <2> QED BY <1>1, <2>2, <2>4, <2>5, <2>6, <2>8, <2>9 DEF FieldsInv
<1>3. ASSUME NEW i \in DOMAIN fields.loads, ConfigsServed(i)
      PROVE  FieldsInv' /\ UNCHANGED <<crossedLoad, spent>>
  <2>1. PICK q : q = [fields.loads EXCEPT ![i] = configs]
    OBVIOUS
  <2>2. /\ fields.loads[i] = None /\ fields' = [fields EXCEPT !.loads = q]
        /\ UNCHANGED <<configs, crossedLoad, spent>>
    BY <1>3, <2>1 DEF ConfigsServed, FieldEditor
  <2>3. configs \in ConfigLoad
    BY <1>1 DEF ConfigLoad
  <2>4. /\ q \in Seq(ConfigLoad) /\ Len(q) = Len(fields.loads) /\ DOMAIN q = DOMAIN fields.loads
        /\ \A n \in DOMAIN q : q[n] \in {configs, fields.loads[n]}
    BY <1>1, <2>1, <2>3
  <2>5. q # << >> /\ fields.loads # << >>
    BY <2>4
  <2>6. /\ fields' \in FieldEditor /\ fields'.loads = q /\ fields'.known = fields.known
        /\ fields'.save = fields.save /\ fields'.draft = fields.draft /\ fields'.type = fields.type
    BY <1>1, <2>2, <2>4 DEF FieldEditor
  <2>7. Calm' = Calm /\ Happened("other")' = Happened("other")
    BY <2>2 DEF Calm, Happened
  <2>8. RulesStay => RulesStay'
    BY <2>2, <2>4, <2>6 DEF RulesStay
  <2>9. Calm => fields.save = None /\ \A n \in DOMAIN q : q[n] \in {None, configs}
    BY <2>4, <2>5 DEF FieldsInv
  <2> QED BY <1>1, <2>2, <2>5, <2>6, <2>7, <2>8, <2>9 DEF FieldsInv
<1>4. ASSUME NEW i \in DOMAIN fields.loads, ConfigsArrive(i) \/ ConfigsLost(i)
      PROVE  FieldsInv' /\ UNCHANGED crossedLoad /\ (spent' = spent \/ Spend("lost"))
  <2>1. PICK q : q = LeftAfter(fields.loads, i)
    OBVIOUS
  <2>2. Len(fields.loads) \in Nat /\ i \in 1 .. Len(fields.loads)
    BY <1>1
  <2>3. /\ q = [n \in 1 .. Len(fields.loads) - 1 |-> IF n < i THEN fields.loads[n] ELSE fields.loads[n + 1]]
        /\ \A n \in 1 .. Len(fields.loads) - 1 : (IF n < i THEN fields.loads[n] ELSE fields.loads[n + 1]) \in ConfigLoad
    BY <1>1, <2>1, <2>2 DEF LeftAfter
  <2>4. Len(fields.loads) - 1 \in Nat
    BY <2>2
  <2>5. q \in Seq(ConfigLoad) /\ DOMAIN q = 1 .. Len(fields.loads) - 1
    BY <2>3, <2>4
  <2>6. \A n \in DOMAIN q : \E m \in DOMAIN fields.loads : q[n] = fields.loads[m]
    <3> SUFFICES ASSUME NEW n \in 1 .. Len(fields.loads) - 1
                 PROVE  \E m \in DOMAIN fields.loads : q[n] = fields.loads[m]
      BY <2>5
    <3>1. DOMAIN fields.loads = 1 .. Len(fields.loads)
      BY <1>1
    <3>2. CASE n < i
      <4>1. n \in DOMAIN fields.loads
        BY <2>2, <3>1
      <4>2. q[n] = fields.loads[n]
        BY <2>3, <3>2
      <4> QED BY <4>1, <4>2
    <3>3. CASE ~(n < i)
      <4>1. n + 1 \in DOMAIN fields.loads /\ q[n] = fields.loads[n + 1]
        BY <2>2, <2>3, <3>1, <3>3
      <4> QED BY <4>1
    <3> QED BY <3>2, <3>3
  <2>7. fields.loads # << >>
    BY <2>2
  <2>8. CASE ConfigsLost(i)
    <3>1. /\ Spend("lost") /\ fields' = [fields EXCEPT !.loads = q] /\ UNCHANGED <<configs, crossedLoad>>
      BY <2>1, <2>8 DEF ConfigsLost
    <3>2. /\ fields' \in FieldEditor /\ fields'.loads = q /\ fields'.known = fields.known
          /\ fields'.save = fields.save /\ fields'.draft = fields.draft /\ fields'.type = fields.type
      BY <1>1, <2>5, <3>1 DEF FieldEditor
    <3>3. ~Calm' /\ (Happened("other")' = 0 => Happened("other") = 0)
      BY <3>1, EventsStay
    <3>4. RulesStay => RulesStay'
      BY <2>6, <3>1, <3>2 DEF RulesStay
    <3> QED BY <1>1, <3>1, <3>2, <3>3, <3>4 DEF FieldsInv
  <2>9. CASE ConfigsArrive(i)
    <3>1. PICK first \in EditTypes :
            fields' = Redrawn([fields EXCEPT !.known = fields.loads[i], !.loads = q,
                                             !.type = IF fields.type = None THEN first ELSE fields.type])
      BY <1>1, <2>1, <2>9 DEF ConfigsArrive, FieldEditor
    <3> DEFINE k == IF fields.type = None THEN first ELSE fields.type
    <3>2. fields.loads[i] # None /\ UNCHANGED <<configs, crossedLoad, spent>>
      BY <2>9 DEF ConfigsArrive
    <3>3. fields.loads[i] \in [EditTypes -> Config] /\ k \in EditTypes
      BY <1>1, <2>2, <3>1, <3>2 DEF ConfigLoad
    <3>4. PICK d : d = IF k = None THEN None ELSE fields.loads[i][k]
      OBVIOUS
    <3>5. fields' = [fields EXCEPT !.known = fields.loads[i], !.loads = q, !.type = k, !.draft = d]
      BY <1>1, <3>1, <3>4 DEF Redrawn, FieldEditor
    <3>6. d \in Config \cup {None}
      BY <3>3, <3>4
    <3> HIDE DEF k
    <3>7. /\ fields' \in FieldEditor /\ fields'.loads = q /\ fields'.known = fields.loads[i]
          /\ fields'.save = fields.save /\ fields'.draft = d /\ fields'.type = k
      BY <1>1, <2>5, <3>3, <3>5, <3>6 DEF FieldEditor
    <3>8. Calm' = Calm /\ Happened("other")' = Happened("other")
      BY <3>2 DEF Calm, Happened
    <3>9. RulesStay => RulesStay'
      BY <2>6, <3>2, <3>3, <3>4, <3>7 DEF RulesStay
    <3>10. Calm => /\ fields.save = None /\ fields.loads[i] = configs
                   /\ \A n \in DOMAIN q : q[n] \in {None, configs}
      BY <2>6, <2>7, <3>2 DEF FieldsInv
    <3> QED BY <1>1, <3>2, <3>3, <3>4, <3>7, <3>8, <3>9, <3>10 DEF FieldsInv, SaveStored
  <2>10. UNCHANGED crossedLoad /\ (spent' = spent \/ Spend("lost"))
    BY <1>4 DEF ConfigsArrive, ConfigsLost
  <2> QED BY <1>4, <2>8, <2>9, <2>10
<1>5. ASSUME NEW t \in EditTypes, ChooseConfig(t)
      PROVE  FieldsInv' /\ UNCHANGED <<crossedLoad, spent>>
  <2>1. PICK d : d = IF t = None THEN None ELSE fields.known[t]
    OBVIOUS
  <2>2. fields.known[t] # None /\ UNCHANGED <<configs, crossedLoad, spent>>
    BY <1>5 DEF ChooseConfig
  <2>3. fields' = [fields EXCEPT !.type = t, !.draft = d]
    BY <1>1, <1>5, <2>1 DEF ChooseConfig, Redrawn, FieldEditor
  <2>4. d \in Config \cup {None}
    BY <1>1, <2>1
  <2>5. /\ fields' \in FieldEditor /\ fields'.loads = fields.loads /\ fields'.known = fields.known
        /\ fields'.save = fields.save /\ fields'.draft = d /\ fields'.type = t
    BY <1>1, <2>3, <2>4 DEF FieldEditor
  <2>6. Calm' = Calm /\ Happened("other")' = Happened("other")
    BY <2>2 DEF Calm, Happened
  <2>7. RulesStay => RulesStay'
    BY <2>1, <2>2, <2>5 DEF RulesStay
  <2> QED BY <1>1, <2>1, <2>2, <2>5, <2>6, <2>7 DEF FieldsInv, SaveStored
<1>6. ASSUME NEW t \in EditTypes, NEW c \in Config, OthersConfig(t, c)
      PROVE  FieldsInv' /\ UNCHANGED crossedLoad /\ Spend("other")
  <2>1. Spend("other") /\ configs' = [configs EXCEPT ![t] = c] /\ UNCHANGED <<fields, crossedLoad>>
    BY <1>6 DEF OthersConfig
  <2>2. configs' \in [EditTypes -> Config] /\ ~Calm' /\ Happened("other")' # 0
    BY <1>1, <2>1, EventsStay
  <2> QED BY <2>1, <2>2 DEF FieldsInv
<1>7. ASSUME NEW w \in Wordings, EditFields(w)
      PROVE  FieldsInv' /\ UNCHANGED crossedLoad /\ Spend("edit")
  <2>1. PICK d : d = [fields.draft EXCEPT !.fields = w]
    OBVIOUS
  <2>2. /\ Spend("edit") /\ UNCHANGED <<configs, crossedLoad>> /\ fields.draft \in Config
        /\ fields' = [fields EXCEPT !.draft = d]
    BY <1>1, <1>7, <2>1 DEF EditFields, FieldEditor
  <2>3. d \in Config /\ d.rule = fields.draft.rule
    BY <2>1, <2>2 DEF Config
  <2>4. /\ fields' \in FieldEditor /\ fields'.loads = fields.loads /\ fields'.known = fields.known
        /\ fields'.save = fields.save /\ fields'.draft = d /\ fields'.type = fields.type
    BY <1>1, <2>2, <2>3 DEF FieldEditor
  <2>5. (Calm' => Calm) /\ (Happened("other")' = 0 => Happened("other") = 0)
    BY <2>2, EventsStay DEF Calm
  <2>6. fields.draft # None
    BY <1>7 DEF EditFields
  <2>7. RulesStay => RulesStay'
    BY <2>2, <2>3, <2>4, <2>6 DEF RulesStay
  <2> QED BY <1>1, <2>2, <2>4, <2>5, <2>6, <2>7 DEF FieldsInv, SaveStored
<1>8. CASE SaveConfig
  <2>1. PICK s : s = [type |-> fields.type, value |-> fields.draft, stored |-> FALSE]
    OBVIOUS
  <2>2. /\ fields.save = None /\ fields.draft # None /\ UNCHANGED <<configs, spent>>
        /\ fields' = [fields EXCEPT !.save = s] /\ crossedLoad' = (crossedLoad \/ fields.loads # << >>)
    BY <1>8, <2>1 DEF SaveConfig
  <2>3. s \in SaveOf(Config) /\ ~s.stored /\ s.value = fields.draft /\ s.type = fields.type
    BY <1>1, <2>1, <2>2 DEF SaveOf
  <2>4. /\ fields' \in FieldEditor /\ fields'.loads = fields.loads /\ fields'.known = fields.known
        /\ fields'.save = s /\ fields'.draft = fields.draft /\ fields'.type = fields.type
    BY <1>1, <2>2, <2>3 DEF FieldEditor
  <2>5. (Calm' => Calm /\ fields.loads = << >>) /\ Happened("other")' = Happened("other")
    BY <2>2 DEF Calm, Happened
  <2>6. RulesStay => RulesStay'
    BY <2>2, <2>3, <2>4 DEF RulesStay
  <2> QED BY <1>1, <2>2, <2>3, <2>4, <2>5, <2>6 DEF FieldsInv, SaveStored
<1>9. CASE ConfigStored
  <2>1. PICK s : s = [fields.save EXCEPT !.stored = TRUE]
    OBVIOUS
  <2>2. /\ SaveAsked(fields) /\ configs' = [configs EXCEPT ![fields.save.type] = fields.save.value]
        /\ fields' = [fields EXCEPT !.save = s] /\ UNCHANGED <<crossedLoad, spent>>
    BY <1>1, <1>9, <2>1 DEF ConfigStored, FieldEditor
  <2>3. fields.save \in [type : EditTypes, value : Config, stored : BOOLEAN] /\ fields.save # None
    BY <1>1, <2>2 DEF SaveAsked, SaveOf
  <2>4. /\ s \in [type : EditTypes, value : Config, stored : BOOLEAN]
        /\ s.type = fields.save.type /\ s.value = fields.save.value /\ s.stored
    BY <2>1, <2>3
  <2>5. /\ fields' \in FieldEditor /\ fields'.loads = fields.loads /\ fields'.known = fields.known
        /\ fields'.save = s /\ fields'.draft = fields.draft /\ fields'.type = fields.type
    BY <1>1, <2>2, <2>4 DEF FieldEditor, SaveOf
  <2>6. configs' \in [EditTypes -> Config]
    BY <1>1, <2>2, <2>3
  <2>7. Calm' = Calm /\ Happened("other")' = Happened("other")
    BY <2>2 DEF Calm, Happened
  <2>8. Calm => fields.loads = << >> /\ configs = fields.known
    BY <2>2, <2>3 DEF FieldsInv, SaveAsked, SaveStored
  <2>9. RulesStay => RulesStay'
    BY <1>1, <2>2, <2>3, <2>4, <2>5 DEF RulesStay
  <2>10. SaveStored(fields')
    <3>1. s # None
      BY <2>4, NoSaveAssumption
    <3> QED BY <2>4, <2>5, <3>1 DEF SaveStored
  <2> QED BY <1>1, <2>2, <2>4, <2>5, <2>6, <2>7, <2>8, <2>9, <2>10 DEF FieldsInv
<1>10. CASE ConfigAnswered
  <2>1. PICK s : s = fields.save
    OBVIOUS
  <2>2. PICK n : n = [fields.known EXCEPT ![s.type] = s.value]
    OBVIOUS
  <2>3. /\ SaveStored(fields) /\ UNCHANGED <<configs, crossedLoad, spent>>
        /\ fields' = Redrawn([fields EXCEPT !.known = n, !.save = None])
    BY <1>1, <1>10, <2>1, <2>2 DEF ConfigAnswered, FieldEditor
  <2>4. s \in [type : EditTypes, value : Config, stored : BOOLEAN] /\ s # None
    BY <1>1, <2>1, <2>3 DEF SaveStored, SaveOf
  <2>5. n \in [EditTypes -> Config \cup {None}]
    BY <1>1, <2>2, <2>4
  <2>6. PICK d : d = IF fields.type = None THEN None ELSE n[fields.type]
    OBVIOUS
  <2>7. fields' = [fields EXCEPT !.known = n, !.save = None, !.draft = d]
    BY <1>1, <2>3, <2>6 DEF Redrawn, FieldEditor
  <2>8. d \in Config \cup {None}
    BY <1>1, <2>5, <2>6
  <2>9. /\ fields' \in FieldEditor /\ fields'.loads = fields.loads /\ fields'.known = n
        /\ fields'.save = None /\ fields'.draft = d /\ fields'.type = fields.type
    BY <1>1, <2>5, <2>7, <2>8 DEF FieldEditor, SaveOf
  <2>10. Calm' = Calm /\ Happened("other")' = Happened("other")
    BY <2>3 DEF Calm, Happened
  <2>11. RulesStay => \A t \in EditTypes : n[t] # None => n[t].rule = FirstRules[t]
    BY <1>1, <2>1, <2>2, <2>4 DEF RulesStay
  <2>12. RulesStay => RulesStay'
    BY <1>1, <2>3, <2>6, <2>9, <2>11 DEF RulesStay
  <2>13. Calm => fields.loads = << >> /\ configs = n
    BY <2>1, <2>2, <2>3, <2>4 DEF FieldsInv
  <2> QED BY <1>1, <2>3, <2>6, <2>9, <2>10, <2>12, <2>13 DEF FieldsInv, SaveStored
<1>11. CASE ConfigSaveFails
  <2>1. Spend("lost") /\ fields' = [fields EXCEPT !.save = None] /\ UNCHANGED <<configs, crossedLoad>>
    BY <1>11 DEF ConfigSaveFails
  <2>2. /\ fields' \in FieldEditor /\ fields'.loads = fields.loads /\ fields'.known = fields.known
        /\ fields'.save = None /\ fields'.draft = fields.draft /\ fields'.type = fields.type
    BY <1>1, <2>1 DEF FieldEditor, SaveOf
  <2>3. ~Calm' /\ (Happened("other")' = 0 => Happened("other") = 0)
    BY <2>1, EventsStay
  <2>4. RulesStay => RulesStay'
    BY <2>1, <2>2 DEF RulesStay
  <2> QED BY <1>1, <2>1, <2>2, <2>3, <2>4 DEF FieldsInv
<1>12. crossedLoad => crossedLoad'
  BY DEF LoadConfigsAgain, ConfigsServed, ConfigsArrive, ConfigsLost, ChooseConfig, OthersConfig, EditFields,
         SaveConfig, ConfigStored, ConfigAnswered, ConfigSaveFails
<1>13. spent' = spent \/ \E k : Spend(k)
  BY DEF LoadConfigsAgain, ConfigsServed, ConfigsArrive, ConfigsLost, ChooseConfig, OthersConfig, EditFields,
         SaveConfig, ConfigStored, ConfigAnswered, ConfigSaveFails
<1>14. FieldsInv'
  BY <1>2, <1>3, <1>4, <1>5, <1>6, <1>7, <1>8, <1>9, <1>10, <1>11
<1> QED BY <1>12, <1>13, <1>14

LEMMA EditorsStart == EditorsInit /\ NothingSpent => EditorsInv
<1> SUFFICES ASSUME EditorsInit, NothingSpent PROVE EditorsInv
  OBVIOUS
<1>1. IsABag(spent) /\ \A k : Happened(k) = 0
  BY DEF NothingSpent, EmptyBag, SetToBag, IsABag, Happened, BagIn, BagToSet
<1>2. /\ layouts \in [EditTypes -> Wordings] /\ editor.loads = <<None>> /\ editor.save = None
      /\ editor \in [shown : {Unknown}, saved : {Unknown}, type : EditTypes, loads : {<<None>>}, save : {None}]
  BY DEF EditorsInit
<1>3. Unknown \in [EditTypes -> Wordings \cup {None}] /\ Unknown \in [EditTypes -> Config \cup {None}]
  BY DEF Unknown
<1>4. editor \in LayoutEditor
  BY <1>2, <1>3 DEF LayoutEditor, SaveOf
<1>5. <<None>> # << >>
  OBVIOUS
<1>6. LayoutsInv
  BY <1>2, <1>4, <1>5 DEF LayoutsInv
<1>7. configs = [t \in EditTypes |-> [fields |-> DefaultLayout, rule |-> FirstRules[t]]]
  BY DEF EditorsInit
<1>8. configs \in [EditTypes -> Config] /\ \A t \in EditTypes : configs[t].rule = FirstRules[t]
  BY <1>7, TypeEditorsAssumption DEF Config
<1>9. PICK q : q = <<None>>
  OBVIOUS
<1>10. q \in Seq(ConfigLoad) /\ q # << >> /\ \A i \in DOMAIN q : q[i] = None
  <2>1. None \in ConfigLoad
    BY DEF ConfigLoad
  <2> QED BY <1>9, <2>1
<1>11. fields = [known |-> Unknown, type |-> None, draft |-> None, loads |-> q, save |-> None]
  BY <1>9 DEF EditorsInit
<1>12. fields \in FieldEditor
  BY <1>3, <1>10, <1>11 DEF FieldEditor, SaveOf
<1>13. \A t \in EditTypes : fields.known[t] = None
  BY <1>11 DEF Unknown
<1>14. RulesStay
  BY <1>8, <1>10, <1>11, <1>13 DEF RulesStay
<1>15. FieldsInv
  BY <1>8, <1>10, <1>11, <1>12, <1>14 DEF FieldsInv
<1> QED BY <1>1, <1>6, <1>15 DEF EditorsInv

LEMMA EditorsKeep ==
    ASSUME EditorsInv, LayoutsNext \/ FieldsNext PROVE EditorsInv'
<1>1. CASE LayoutsNext
  <2>1. LayoutsInv' /\ (crossedLoad => crossedLoad') /\ (spent' = spent \/ \E k : Spend(k))
    BY <1>1, LayoutsKeep DEF EditorsInv, LayoutsNext
  <2>2. UNCHANGED fieldVars
    BY <1>1 DEF LayoutsNext
  <2>3. IsABag(spent)' /\ (Calm' => Calm) /\ (Happened("other")' = 0 => Happened("other") = 0)
    BY <2>1, EventsStay DEF EditorsInv, Calm
  <2>4. FieldsInv'
    BY <2>2, <2>3 DEF EditorsInv, FieldsInv, fieldVars, RulesStay
  <2> QED BY <2>1, <2>3, <2>4 DEF EditorsInv
<1>2. CASE FieldsNext
  <2>1. FieldsInv' /\ (crossedLoad => crossedLoad') /\ (spent' = spent \/ \E k : Spend(k))
    BY <1>2, FieldsKeep DEF EditorsInv, FieldsNext
  <2>2. UNCHANGED layoutVars
    BY <1>2 DEF FieldsNext
  <2>3. IsABag(spent)' /\ (Calm' => Calm)
    BY <2>1, EventsStay DEF EditorsInv, Calm
  <2>4. LayoutsInv'
    BY <2>2, <2>3 DEF EditorsInv, LayoutsInv, layoutVars
  <2> QED BY <2>1, <2>3, <2>4 DEF EditorsInv
<1> QED BY <1>1, <1>2

\* The settings screen spends of the same budget.
LEMMA EditorsRest ==
    ASSUME EditorsInv, UNCHANGED editorsVars, spent' = spent \/ \E k : Spend(k) PROVE EditorsInv'
<1>1. IsABag(spent)' /\ (Calm' => Calm) /\ (Happened("other")' = 0 => Happened("other") = 0)
  BY EventsStay DEF EditorsInv, Calm, editorsVars
<1> QED BY <1>1 DEF EditorsInv, LayoutsInv, FieldsInv, RulesStay, editorsVars, layoutVars, fieldVars

LEMMA EditorsTrue == ASSUME EditorsInv PROVE EditorsAreTrue
<1>1. ~crossedLoad /\ Happened("other") + Happened("lost") = 0 =>
        /\ editor.loads = << >> /\ editor.save = None => editor.saved = layouts
        /\ fields.loads = << >> /\ fields.save = None => fields.known = configs
  BY DEF EditorsInv, LayoutsInv, FieldsInv, Calm, SaveStored
<1>2. Happened("other") = 0 => \A t \in EditTypes : configs[t].rule = FirstRules[t]
  BY DEF EditorsInv, FieldsInv, RulesStay
<1> QED BY <1>1, <1>2 DEF EditorsAreTrue

----------------------------------------------------------------------------
(* The settings screen and the editors of 시공종류: theorems *)

\* The screens of a company's settings, none of which waits for another.
ScreensStep ==
    \/ PanelNext /\ UNCHANGED editorsVars
    \/ (LayoutsNext \/ FieldsNext) /\ UNCHANGED panelVars

ScreensSpec == PanelInit /\ EditorsInit /\ NothingSpent /\ [][ScreensStep]_<<panelVars, editorsVars, spent>>

ScreensInv == PanelInv /\ EditorsInv

\* A step of the screen is a rare event or spends nothing.
LEMMA PanelSpends == ASSUME PanelNext PROVE spent' = spent \/ \E k : Spend(k)
<1>1. CASE RulesNext
  BY <1>1 DEF RulesNext, SelectTypeConfig, EditTypeDraft, EditRule, ResetToCommon, SaveTypeConfig, SaveRule,
              RuleAnswered, DefaultAnswered, TypeAnswered
<1>2. CASE ListsNext
  BY <1>2 DEF ListsNext, BeginEdit, AddEntry, SaveEntry, RemoveEntry, CancelEdit, SelectTarget, ListAnswered
<1>3. CASE \E t \in trips : TripEnds(t)
  BY <1>3 DEF TripEnds, ServerActs, ServerDeclines, TripRefused, TripLost
<1> QED BY <1>1, <1>2, <1>3 DEF PanelNext

LEMMA ScreensHold == ScreensSpec => []ScreensInv
<1>1. PanelInit /\ EditorsInit /\ NothingSpent => ScreensInv
  BY PanelStart, EditorsStart DEF ScreensInv
<1>2. ScreensInv /\ [ScreensStep]_<<panelVars, editorsVars, spent>> => ScreensInv'
  <2> SUFFICES ASSUME PanelInv, EditorsInv, [ScreensStep]_<<panelVars, editorsVars, spent>>
               PROVE  PanelInv' /\ EditorsInv'
    BY DEF ScreensInv
  <2>1. CASE PanelNext /\ UNCHANGED editorsVars
    BY <2>1, PanelKeeps, PanelSpends, EditorsRest
  <2>2. CASE (LayoutsNext \/ FieldsNext) /\ UNCHANGED panelVars
    <3>1. EditorsInv'
      BY <2>2, EditorsKeep
    <3>2. PanelInv'
      BY <2>2 DEF panelVars, PanelInv, PanelForm, OneTripEach, ListFits, RuleFits, TypesFit, DraftFits,
                  EditorFits, Taken, Trusted, SameList
    <3> QED BY <3>1, <3>2
  <2>3. CASE UNCHANGED <<panelVars, editorsVars, spent>>
    BY <2>3, PanelKeeps, EditorsRest
  <2> QED BY <2>1, <2>2, <2>3 DEF ScreensStep
<1> QED BY <1>1, <1>2, PTL DEF ScreensSpec

\* The settings screen, the requests it sends, the server's settings and the
\* editors of 시공종류 only take values they can have (AdminSettings.tsx,
\* SubmissionOrderSettings.tsx, ConstructionTypeFields.tsx).
THEOREM ScreensTypeCorrect == ScreensSpec => [](PanelTypeOK /\ EditorsTypeOK)
<1>1. ScreensInv => PanelTypeOK
  BY DEF ScreensInv, PanelInv, PanelForm, TripFits, AskFits, Panels, Stored, PanelTypeOK
<1>2. ScreensInv => EditorsTypeOK
  BY DEF ScreensInv, EditorsInv, LayoutsInv, FieldsInv, LayoutEditor, FieldEditor, EditorsTypeOK
<1> QED BY <1>1, <1>2, ScreensHold, PTL

\* With no request under way the settings screen shows what the server has, but
\* for what SettledScreenIsTrue names, however many requests were under way
\* before, and the editors of 시공종류 neither forget a save nor carry a folder
\* rule from one 시공종류 to another.
THEOREM SettledScreenIsTrueAlways == ScreensSpec => []SettledScreenIsTrue
<1>1. ScreensInv => SettledScreenIsTrue
  <2> SUFFICES ASSUME PanelInv, EditorsInv PROVE SettledScreenIsTrue
    BY DEF ScreensInv
  <2>1. EditorsAreTrue
    BY EditorsTrue
  <2>2. ASSUME trips = {}, "lost" \notin mixed
        PROVE  /\ \A l \in Lists \ mixed : panel.seen.lists[l] = served.lists[l]
               /\ "targets" \notin mixed => panel.seen.active = served.active
               /\ "rule" \notin mixed => panel.seen.rule = served.rule /\ panel.seen.default = served.default
               /\ "type" \notin mixed => \A t \in PanelTypes \ moved : panel.seen.types[t] = served.types[t]
    <3>1. (\A s : Taken(s) = {}) /\ (\A s : s \notin mixed => Trusted(s))
      BY <2>2 DEF Taken, Trusted
    <3>2. \A l \in Lists \ mixed : SameList(l, panel.seen)
      BY <3>1 DEF PanelInv, ListFits
    <3>3. "targets" \in Lists
      BY DEF Lists
    <3>4. "rule" \notin mixed => panel.seen.rule = served.rule /\ panel.seen.default = served.default
      BY <3>1 DEF PanelInv, RuleFits
    <3>5. "type" \notin mixed => \A t \in PanelTypes \ moved : panel.seen.types[t] = served.types[t]
      BY <3>1 DEF PanelInv, TypesFit
    <3> QED BY <3>2, <3>3, <3>4, <3>5 DEF SameList
  <2> QED BY <2>1, <2>2 DEF SettledScreenIsTrue
<1> QED BY <1>1, ScreensHold, PTL

\* No draft is saved as another 시공종류's, and an edit brings back no target
\* that was removed, unless requests met (handleSaveTypeConfig,
\* handleSaveTarget).
THEOREM SavesAreMeantAlways == ScreensSpec => SavesAreMeant
<1> DEFINE Step == \A t \in trips : t.at = "sent" /\ served' # served =>
              /\ t.ask.op = "type" /\ t \notin trips' => t.ask.draft.of = t.ask.type \/ "type" \in mixed
              /\ t.ask.op = "save" /\ t.ask.list = "targets" /\ t \notin trips'
                 => served'.lists["targets"] = served.lists["targets"]
                    \/ mixed \cap {"targets", "lost"} # {}
<1>1. ScreensInv /\ [ScreensStep]_<<panelVars, editorsVars, spent>> => [Step]_<<panelVars, spent>>
  <2> SUFFICES ASSUME PanelInv, [ScreensStep]_<<panelVars, editorsVars, spent>>,
                      NEW t \in trips, t.at = "sent", served' # served, t \notin trips'
               PROVE  /\ t.ask.op = "type" => t.ask.draft.of = t.ask.type \/ "type" \in mixed
                      /\ t.ask.op = "save" /\ t.ask.list = "targets"
                         => served'.lists["targets"] = served.lists["targets"]
                            \/ mixed \cap {"targets", "lost"} # {}
    BY DEF ScreensInv
  <2>1. t.ask.op = "type" => t.ask.draft.of = t.ask.type \/ "type" \in mixed
    BY DEF PanelInv, DraftFits
  <2>2. ServerActs(t)
    <3>1. PanelNext
      BY DEF ScreensStep, panelVars
    <3>2. ~RulesNext /\ ~ListsNext
      BY DEF RulesNext, SelectTypeConfig, EditTypeDraft, EditRule, ResetToCommon, SaveTypeConfig, SaveRule,
             RuleAnswered, DefaultAnswered, TypeAnswered,
             ListsNext, BeginEdit, AddEntry, SaveEntry, RemoveEntry, CancelEdit, SelectTarget, ListAnswered
    <3>3. PICK u \in trips : ServerActs(u)
      BY <3>1, <3>2 DEF PanelNext, TripEnds, ServerDeclines, TripRefused, TripLost
    <3> QED BY <3>3 DEF ServerActs, Told
  <2>3. ASSUME t.ask.op = "save", t.ask.list = "targets", mixed \cap {"targets", "lost"} = {}
        PROVE  served'.lists["targets"] = served.lists["targets"]
    <3>1. PanelForm /\ AskFits(t.ask) /\ served' \in SettingsAfter(t.ask)
      BY <2>2 DEF PanelInv, PanelForm, TripFits, ServerActs
    <3>2. served'.lists["targets"] = served.lists["targets"] \cup {t.ask.entry}
      BY <2>3, <3>1, TargetsSay
    <3>3. t.ask.entry \in served.lists["targets"]
      BY <2>3 DEF PanelInv, EditorFits, Trusted, OfTargets
    <3> QED BY <3>2, <3>3
  <2> QED BY <2>1, <2>3
<1> QED BY <1>1, ScreensHold, PTL DEF ScreensSpec, SavesAreMeant

----------------------------------------------------------------------------
(* The tables *)

TablesSpec == TablesInit /\ NothingSpent /\ [][TablesNext]_<<tablesVars, spent>>

\* What is ticked is shown, and a handler has only what was shown to do.
TablesInv ==
    /\ TablesTypeOK
    /\ picked \subseteq Visible(listed, filter)
    /\ \A c \in Clicks : click[c] # None => click[c] \in Click /\ click[c].left \subseteq click[c].seen

LEMMA ShowsSays ==
    ASSUME NEW l \in Listing, NEW f \in Marks \cup {None}, NEW p, Shows(l, f, p)
    PROVE  /\ listed' \in Listing /\ filter' \in Marks \cup {None}
           /\ picked' \subseteq Visible(listed', filter') /\ picked' \subseteq Entries
BY DEF Shows, Kept, Visible

\* A handler's click becomes another, or none.
LEMMA ClickGoesOn ==
    ASSUME TablesInv, NEW c \in Clicks, NEW k, click' = [click EXCEPT ![c] = k],
           k = None \/ (k \in Click /\ k.left \subseteq k.seen)
    PROVE  /\ click' \in [Clicks -> Click \cup {None}]
           /\ \A d \in Clicks : click'[d] # None => click'[d] \in Click /\ click'[d].left \subseteq click'[d].seen
BY DEF TablesInv, TablesTypeOK

LEMMA DoingFits ==
    ASSUME TablesInv, NEW w \in {"bulk", "single"}, NEW d \in {"change", "delete"},
           NEW es, es \subseteq Visible(listed, filter)
    PROVE  Doing(w, d, es) \in Click /\ Doing(w, d, es).left \subseteq Doing(w, d, es).seen
BY DEF Doing, Click, Visible

LEMMA StartKeeps ==
    ASSUME TablesInv, NEW c \in Clicks, NEW w \in {"bulk", "single"}, NEW d \in {"change", "delete"},
           NEW es, es \subseteq Visible(listed, filter),
           click' = [click EXCEPT ![c] = Doing(w, d, es)], busy' \in {None, "bulk", "single"},
           UNCHANGED <<table, entries, filter, listed, answers, picked>>
    PROVE  TablesInv'
<1>1. PICK k : k = Doing(w, d, es)
  OBVIOUS
<1>2. k \in Click /\ k.left \subseteq k.seen
  BY <1>1, DoingFits
<1> QED BY <1>1, <1>2, ClickGoesOn DEF TablesInv, TablesTypeOK

LEMMA EntryDoneKeeps ==
    ASSUME TablesInv, NEW c \in Clicks, NEW e \in Entries, EntryDone(c, e) \/ EntryRefused(c, e)
    PROVE  TablesInv'
<1>1. TablesTypeOK /\ click[c] \in Click /\ click[c].left \subseteq click[c].seen
  BY DEF TablesInv, EntryDone, EntryRefused
<1>2. entries' \in Listing /\ UNCHANGED <<table, filter, listed, answers, picked, busy>>
  <2>1. CASE EntryDone(c, e)
    <3>1. entries' = Applied(click[c].does, e) /\ entries[e] \in Marks /\ entries \in Listing
      BY <1>1, <2>1 DEF EntryDone, TablesTypeOK, Listing
    <3>2. Other(entries[e]) \in Marks
      BY <3>1, MarksAssumption DEF Other
    <3> QED BY <2>1, <3>1, <3>2 DEF Applied, Listing, EntryDone
  <2>2. CASE EntryRefused(c, e)
    BY <1>1, <2>2 DEF EntryRefused, TablesTypeOK
  <2> QED BY <2>1, <2>2
<1>3. PICK last \in Listing \cup {None}, bad \in BOOLEAN :
        click' = [click EXCEPT ![c].left = @ \ {e}, ![c].latest = last, ![c].failed = bad]
  <2>1. CASE EntryDone(c, e)
    <3>1. click' = [click EXCEPT ![c].left = @ \ {e}, ![c].latest = IF table = "roster" THEN entries' ELSE None,
                                 ![c].failed = click[c].failed]
      BY <1>1, <2>1 DEF EntryDone, Click, TablesTypeOK
    <3> QED BY <1>1, <1>2, <3>1 DEF Click
  <2>2. CASE EntryRefused(c, e)
    <3>1. click' = [click EXCEPT ![c].left = @ \ {e}, ![c].latest = click[c].latest, ![c].failed = TRUE]
      BY <1>1, <2>2 DEF EntryRefused, Click, TablesTypeOK
    <3> QED BY <1>1, <3>1 DEF Click
  <2> QED BY <2>1, <2>2
<1>4. PICK k : k = [click[c] EXCEPT !.left = @ \ {e}, !.latest = last, !.failed = bad]
  OBVIOUS
<1>5. k \in Click /\ k.left \subseteq k.seen
  BY <1>1, <1>3, <1>4 DEF Click
<1>6. click' = [click EXCEPT ![c] = k]
  BY <1>1, <1>3, <1>4 DEF TablesTypeOK
<1> QED BY <1>1, <1>2, <1>5, <1>6, ClickGoesOn DEF TablesInv, TablesTypeOK

LEMMA FinishKeeps == ASSUME TablesInv, NEW c \in Clicks, Finish(c) PROVE TablesInv'
<1>1. TablesTypeOK /\ click[c] \in Click /\ click' = [click EXCEPT ![c] = None] /\ UNCHANGED <<table, entries>>
  BY DEF TablesInv, Finish
<1>2. CASE table = "orders"
  <2>1. /\ answers' = answers \cup {entries} /\ picked' = PickedAfter(click[c])
        /\ busy' \in {None, busy} /\ UNCHANGED <<listed, filter>>
    BY <1>2 DEF Finish
  <2>2. picked' \subseteq picked
    BY <2>1 DEF PickedAfter
  <2> QED BY <1>1, <2>1, <2>2, ClickGoesOn DEF TablesInv, TablesTypeOK
<1>3. CASE table # "orders"
  <2>1. PICK l : /\ l = IF click[c].latest = None THEN listed ELSE click[c].latest
                 /\ Shows(l, filter, PickedAfter(click[c]))
    BY <1>3 DEF Finish
  <2>2. l \in Listing /\ filter \in Marks \cup {None}
    BY <1>1, <2>1 DEF Click, TablesTypeOK
  <2>3. busy' = None /\ UNCHANGED answers
    BY <1>3 DEF Finish
  <2> QED BY <1>1, <2>1, <2>2, <2>3, ShowsSays, ClickGoesOn DEF TablesInv, TablesTypeOK
<1> QED BY <1>2, <1>3

LEMMA TablesKeep == ASSUME TablesInv, TablesNext \/ UNCHANGED <<tablesVars, spent>> PROVE TablesInv'
<1>1. TablesTypeOK
  BY DEF TablesInv
<1>2. ASSUME NEW f \in Marks \cup {None}, SetFilter(f) PROVE TablesInv'
  <2>1. Shows(listed, f, picked) /\ listed \in Listing
    BY <1>1, <1>2 DEF SetFilter, TablesTypeOK
  <2> QED BY <1>2, <2>1, ShowsSays DEF SetFilter, TablesInv, TablesTypeOK
<1>3. CASE TickAll
  <2>1. picked' \subseteq Visible(listed, filter) /\ UNCHANGED <<table, entries, filter, listed, answers, busy, click>>
    BY <1>3 DEF TickAll
  <2> QED BY <2>1 DEF TablesInv, TablesTypeOK, Visible
<1>4. CASE Refresh
  BY <1>4 DEF Refresh, TablesInv, TablesTypeOK, Visible
<1>5. ASSUME NEW l \in answers, ListArrives(l) PROVE TablesInv'
  <2>1. Shows(l, filter, picked) /\ l \in Listing /\ filter \in Marks \cup {None}
    BY <1>1, <1>5 DEF ListArrives, TablesTypeOK
  <2> QED BY <1>5, <2>1, ShowsSays DEF ListArrives, TablesInv, TablesTypeOK
<1>6. ASSUME NEW l \in answers, ListFails(l) PROVE TablesInv'
  BY <1>6 DEF ListFails, TablesInv, TablesTypeOK, Visible
<1>7. ASSUME NEW e \in Entries, Tick(e) PROVE TablesInv'
  <2>1. picked' \subseteq Visible(listed, filter) /\ UNCHANGED <<table, entries, filter, listed, answers, busy, click>>
    BY <1>7 DEF Tick, TablesInv
  <2> QED BY <2>1 DEF TablesInv, TablesTypeOK, Visible
<1>8. ASSUME NEW e \in Entries, EntryChanges(e) PROVE TablesInv'
  <2>1. entries' \in Listing /\ UNCHANGED <<table, filter, listed, answers, picked, busy, click>>
    BY <1>1, <1>8 DEF EntryChanges, TablesTypeOK, Listing
  <2> QED BY <2>1 DEF TablesInv, TablesTypeOK, Visible
<1>9. ASSUME NEW c \in Clicks, NEW d \in {"change", "delete"}, StartBulk(c, d) PROVE TablesInv'
  <2>1. picked \subseteq Visible(listed, filter)
    BY DEF TablesInv
  <2> QED BY <1>9, <2>1, StartKeeps DEF StartBulk
<1>10. ASSUME NEW c \in Clicks, NEW d \in {"change", "delete"}, NEW e \in Entries, StartSingle(c, d, e)
       PROVE  TablesInv'
  <2>1. {e} \subseteq Visible(listed, filter) /\ busy' \in {None, "bulk", "single"}
    BY <1>1, <1>10 DEF StartSingle, TablesTypeOK
  <2>2. PICK es : es = {e}
    OBVIOUS
  <2>3. /\ click' = [click EXCEPT ![c] = Doing("single", d, es)]
        /\ UNCHANGED <<table, entries, filter, listed, answers, picked>>
    BY <1>10, <2>2 DEF StartSingle
  <2>4. es \subseteq Visible(listed, filter) /\ "single" \in {"bulk", "single"}
    BY <2>1, <2>2
  <2>5. busy' \in {None, "bulk", "single"}
    BY <2>1
  <2> QED BY <2>3, <2>4, <2>5, StartKeeps
<1>11. CASE UNCHANGED <<tablesVars, spent>>
  BY <1>11 DEF tablesVars, TablesInv, TablesTypeOK, Visible
<1> QED BY <1>2, <1>3, <1>4, <1>5, <1>6, <1>7, <1>8, <1>9, <1>10, <1>11, FinishKeeps, EntryDoneKeeps DEF TablesNext

LEMMA TablesHold == TablesSpec => []TablesInv
<1>1. TablesInit => TablesInv
  BY DEF TablesInit, TablesInv, TablesTypeOK, Listing, Visible
<1>2. TablesInv /\ [TablesNext]_<<tablesVars, spent>> => TablesInv'
  BY TablesKeep
<1> QED BY <1>1, <1>2, PTL DEF TablesSpec

\* The two tables with bulk actions only hold values they can have
\* (AdminWorkOrders.tsx, TechnicianManager.tsx).
THEOREM TablesTypeCorrect == TablesSpec => []TablesTypeOK
<1>1. TablesInv => TablesTypeOK
  BY DEF TablesInv
<1> QED BY <1>1, TablesHold, PTL

\* A bulk action or a single edit touches only what was on the screen when it
\* was confirmed (bulkRemove, bulkStatus, bulkPatch).
THEOREM OnlyWhatWasSeenAlways == TablesSpec => OnlyWhatWasSeen
<1> DEFINE Step == \A c \in Clicks, e \in Entries :
              (click[c] # None /\ click'[c] # click[c] /\ entries'[e] # entries[e]) => e \in click[c].seen
<1>1. TablesInv /\ [TablesNext]_<<tablesVars, spent>> => [Step]_tablesVars
  <2> SUFFICES ASSUME TablesInv, TablesNext, NEW c \in Clicks, NEW e \in Entries,
                      click[c] # None, click'[c] # click[c], entries'[e] # entries[e]
               PROVE  e \in click[c].seen
    BY DEF tablesVars
  <2>1. ~UNCHANGED entries /\ ~UNCHANGED click
    OBVIOUS
  <2>2. PICK b \in Clicks, f \in Entries : EntryDone(b, f)
    BY <2>1 DEF TablesNext, SetFilter, TickAll, Refresh, ListArrives, ListFails, Tick, EntryChanges, Finish,
                StartBulk, StartSingle, EntryRefused
  <2>3. c = b /\ e = f
    BY <2>2 DEF EntryDone, Applied, TablesInv, TablesTypeOK, Listing
  <2> QED BY <2>2, <2>3 DEF EntryDone, TablesInv
<1> QED BY <1>1, TablesHold, PTL DEF TablesSpec, OnlyWhatWasSeen

----------------------------------------------------------------------------
(* Sequences *)

LEMMA LeastNat == ASSUME NEW T, T \subseteq Nat, T # {} PROVE \E x \in T : \A y \in T : x <= y
<1> DEFINE R == OpToRel(<, Nat)
<1>1. IsWellFoundedOn(R, Nat)
  BY NatLessThanWellFounded
<1>2. \A x, y \in Nat : x < y => <<x, y>> \in R
  BY DEF OpToRel
<1> HIDE DEF R
<1>3. \E x \in T : \A y \in T : ~ (<<y, x>> \in R)
  BY <1>1, WFMin
<1>4. PICK x \in T : \A y \in T : ~ (<<y, x>> \in R)
  BY <1>3
<1>5. ASSUME NEW y \in T PROVE x <= y
  <2>1. x \in Nat /\ y \in Nat /\ ~(y < x)
    BY <1>2, <1>4
  <2> QED BY <2>1
<1> QED BY <1>5

\* The first entries of s that are in keep, one after the other.
Firsts(f, s, keep, n) ==
    f = [k \in 0 .. n |-> IF k = 0 THEN << >>
                          ELSE IF s[k] \in keep THEN Append(f[k - 1], s[k]) ELSE f[k - 1]]

LEMMA FirstsExist == ASSUME NEW s, NEW keep, NEW n \in Nat PROVE \E f : Firsts(f, s, keep, n)
<1> DEFINE Bad == {k \in Nat : ~ \E f : Firsts(f, s, keep, k)}
<1> SUFFICES ASSUME Bad # {} PROVE FALSE
  OBVIOUS
<1>1. PICK k \in Bad : \A j \in Bad : k <= j
  BY LeastNat
<1>2. k # 0
  <2>1. Firsts([j \in 0 .. 0 |-> << >>], s, keep, 0)
    BY DEF Firsts
  <2> QED BY <2>1
<1>3. k - 1 \in Nat /\ ~(k <= k - 1)
  BY <1>2
<1>4. PICK f : Firsts(f, s, keep, k - 1)
  BY <1>1, <1>3
<1> DEFINE h == [j \in 0 .. k |-> IF j = 0 THEN << >>
                                  ELSE IF s[j] \in keep THEN Append(f[j - 1], s[j]) ELSE f[j - 1]]
<1>5. ASSUME NEW j \in 0 .. k - 1 PROVE h[j] = f[j]
  <2>1. j \in 0 .. k
    BY <1>3
  <2>2. f[j] = IF j = 0 THEN << >> ELSE IF s[j] \in keep THEN Append(f[j - 1], s[j]) ELSE f[j - 1]
    BY <1>4 DEF Firsts
  <2> QED BY <2>1, <2>2
<1>6. Firsts(h, s, keep, k)
  <2>1. \A j \in 0 .. k : j # 0 => j - 1 \in 0 .. k - 1
    BY <1>3
  <2> QED BY <1>5, <2>1 DEF Firsts
<1> QED BY <1>1, <1>6

Places(at, s, keep, k, n) ==
    /\ Len(k) \in Nat /\ DOMAIN k = 1 .. Len(k) /\ at \in [1 .. Len(k) -> 1 .. n]
    /\ \A i, j \in 1 .. Len(k) : i < j => at[i] < at[j]
    /\ \A i \in 1 .. Len(k) : k[i] = s[at[i]] /\ k[i] \in keep
    /\ \A j \in 1 .. n : s[j] \in keep => \E i \in 1 .. Len(k) : at[i] = j

Built(k, s, keep, n, S) == k \in Seq(S) /\ \E at : Places(at, s, keep, k, n)

Adds(q, k, s, n, keep) == q = IF s[n] \in keep THEN Append(k, s[n]) ELSE k

LEMMA OneMore ==
    ASSUME NEW S, NEW s \in Seq(S), NEW keep, NEW n \in 1 .. Len(s),
           NEW k, Built(k, s, keep, n - 1, S), NEW q, Adds(q, k, s, n, keep)
    PROVE Built(q, s, keep, n, S)
<1> USE DEF Built, Adds
<1>0. PICK at : Places(at, s, keep, k, n - 1)
  OBVIOUS
<1>1. n \in Nat /\ n - 1 \in Nat /\ s[n] \in S /\ Len(k) \in Nat
  OBVIOUS
<1>2. CASE s[n] \notin keep
  <2>1. 1 .. n - 1 \subseteq 1 .. n /\ \A j \in 1 .. n : j # n => j \in 1 .. n - 1
    BY <1>1
  <2>2. at \in [1 .. Len(k) -> 1 .. n] /\ \A j \in 1 .. n : s[j] \in keep => \E i \in 1 .. Len(k) : at[i] = j
    BY <1>0, <1>2, <2>1 DEF Places
  <2>3. Places(at, s, keep, k, n)
    BY <1>0, <2>2 DEF Places
  <2> QED BY <1>2, <2>3
<1>3. CASE s[n] \in keep
  <2> DEFINE m == Len(k) + 1
             b == [i \in 1 .. m |-> IF i = m THEN n ELSE at[i]]
  <2>1. q \in Seq(S) /\ Len(q) = m /\ DOMAIN q = 1 .. m /\ q[m] = s[n] /\ \A i \in 1 .. Len(k) : q[i] = k[i]
    BY <1>1, <1>3
  <2>2. \A i \in 1 .. m : i # m => i \in 1 .. Len(k)
    BY <1>1
  <2>3. \A i \in 1 .. Len(k) : at[i] \in 1 .. n - 1
    BY <1>0 DEF Places
  <2>4. b \in [1 .. m -> 1 .. n] /\ \A i, j \in 1 .. m : i < j => b[i] < b[j]
    BY <1>0, <1>1, <2>2, <2>3 DEF Places
  <2>5. \A i \in 1 .. m : q[i] = s[b[i]] /\ q[i] \in keep
    BY <1>0, <1>3, <2>1, <2>2 DEF Places
  <2>6. \A j \in 1 .. n : s[j] \in keep => \E i \in 1 .. m : b[i] = j
    <3> SUFFICES ASSUME NEW j \in 1 .. n, s[j] \in keep PROVE \E i \in 1 .. m : b[i] = j
      OBVIOUS
    <3>1. CASE j = n
      BY <1>1, <3>1
    <3>2. CASE j # n
      <4>1. j \in 1 .. n - 1
        BY <1>1, <3>2
      <4>2. PICK i \in 1 .. Len(k) : at[i] = j
        BY <1>0, <4>1 DEF Places
      <4> QED BY <1>1, <4>2
    <3> QED BY <3>1, <3>2
  <2>7. Places(b, s, keep, q, n)
    <3> HIDE DEF b
    <3> QED BY <1>1, <2>1, <2>4, <2>5, <2>6 DEF Places
  <2> QED BY <2>1, <2>7
<1> QED BY <1>2, <1>3

LEMMA FilteredHasPlaces == ASSUME NEW S, NEW s \in Seq(S), NEW keep
    PROVE Filtered(s, keep) \in Seq(S) /\ \E at : Places(at, s, keep, Filtered(s, keep), Len(s))
<1> DEFINE Is(g) == g = [n \in 0 .. Len(s) |-> IF n = 0 THEN << >>
                          ELSE IF s[n] \in keep THEN Append(g[n - 1], s[n]) ELSE g[n - 1]]
           f == CHOOSE g : Is(g)
<1>1. Len(s) \in Nat
  OBVIOUS
<1>2. \E g : Is(g)
  <2>1. PICK g : Firsts(g, s, keep, Len(s))
    BY <1>1, FirstsExist
  <2>2. Is(g)
    BY <2>1 DEF Firsts
  <2> QED BY <2>2
<1>3. Is(f)
  BY <1>2
<1>4. Filtered(s, keep) = f[Len(s)]
  BY DEF Filtered
<1> HIDE DEF f
<1> DEFINE Bad == {n \in 0 .. Len(s) : ~Built(f[n], s, keep, n, S)}
<1>5. Bad = {}
  <2> SUFFICES ASSUME Bad # {} PROVE FALSE
    OBVIOUS
  <2>1. Bad \subseteq Nat
    BY <1>1
  <2>2. PICK k \in Bad : \A j \in Bad : k <= j
    BY <2>1, LeastNat
  <2>3. Built(f[0], s, keep, 0, S)
    <3>1. f[0] = << >>
      BY <1>1, <1>3
    <3>2. Places(<< >>, s, keep, << >>, 0)
      BY DEF Places
    <3> QED BY <3>1, <3>2 DEF Built
  <2>4. k \in 1 .. Len(s) /\ k - 1 \in 0 .. Len(s) /\ ~(k <= k - 1)
    BY <1>1, <2>2, <2>3
  <2>5. Built(f[k - 1], s, keep, k - 1, S)
    BY <2>2, <2>4
  <2>6. Adds(f[k], f[k - 1], s, k, keep)
    <3>1. f[k] = IF k = 0 THEN << >> ELSE IF s[k] \in keep THEN Append(f[k - 1], s[k]) ELSE f[k - 1]
      BY <1>3, <1>1, <2>4
    <3> QED BY <2>4, <3>1 DEF Adds
  <2>7. Built(f[k], s, keep, k, S)
    BY <2>4, <2>5, <2>6, OneMore
  <2> QED BY <2>2, <2>7
<1> QED BY <1>1, <1>4, <1>5 DEF Built

----------------------------------------------------------------------------
(* Periods *)

Texts == {0, Unfinished} \cup Days
Periods == (Days \X Days) \cup {All}

RangeInv == RangeTypeOK /\ BoxesShowTheRange

LEMMA MeantSays == ASSUME NEW a \in Texts, NEW b \in Texts
    PROVE /\ Meant(<<a, b>>) \in Periods
          /\ a \in Days /\ b \in Days /\ a <= b => Meant(<<a, b>>) = <<a, b>>
  BY DaysAssumption DEF Texts, Periods, Meant, Ordered, IsDay, Unfinished, All

LEMMA AllIsMeant == Meant(All) = All
  BY DEF Meant, IsDay, All

LEMMA OrderedSays == ASSUME NEW a \in Days, NEW b \in Days
    PROVE Ordered(a, b) \in Periods /\ Ordered(a, b) \in Texts \X Texts /\ Meant(Ordered(a, b)) = Ordered(a, b)
<1>1. a \in Nat /\ b \in Nat
  BY DaysAssumption
<1>2. a \in Texts /\ b \in Texts
  BY DEF Texts
<1>3. CASE a <= b
  BY <1>2, <1>3, MeantSays DEF Ordered, Periods
<1>4. CASE ~(a <= b)
  BY <1>1, <1>2, <1>4, MeantSays DEF Ordered, Periods
<1> QED BY <1>3, <1>4

LEMMA FromOutsideKeeps ==
    ASSUME RangeInv, NEW r \in Periods, r \in Texts \X Texts, Meant(r) = r, FromOutside(r),
           anchor' \in Days \cup {0}, calendar' \in BOOLEAN
    PROVE RangeInv'
<1>1. RangeTypeOK'
  BY DEF RangeInv, RangeTypeOK, FromOutside, Texts, Periods
<1>2. BoxesShowTheRange'
  <2>1. CASE r # range /\ r # committed
    BY <2>1 DEF FromOutside, BoxesShowTheRange
  <2>2. CASE r # range /\ r = committed
    BY <2>2 DEF FromOutside, BoxesShowTheRange
  <2>3. CASE r = range
    BY <2>3 DEF FromOutside, BoxesShowTheRange, RangeInv, RangeTypeOK
  <2> QED BY <2>1, <2>2, <2>3
<1> QED BY <1>1, <1>2 DEF RangeInv

LEMMA SetBoxKeeps ==
    ASSUME RangeInv, NEW i \in {1, 2}, NEW text \in Texts, SetBox(i, text)
    PROVE RangeInv'
<1>1. boxes \in Texts \X Texts
  BY DEF RangeInv, RangeTypeOK, Texts
<1>2. boxes' \in Texts \X Texts
  BY <1>1 DEF SetBox
<1>3. boxes' = <<boxes'[1], boxes'[2]>> /\ boxes'[1] \in Texts /\ boxes'[2] \in Texts
  BY <1>2
<1>4. Meant(boxes') \in Periods
  BY <1>3, MeantSays
<1> QED BY <1>2, <1>4 DEF SetBox, RangeInv, RangeTypeOK, BoxesShowTheRange, Texts, Periods

LEMMA RangeStart == RangeInit => RangeInv
<1> SUFFICES ASSUME RangeInit PROVE RangeInv
  OBVIOUS
<1>1. Meant(boxes) = range
  BY AllIsMeant DEF RangeInit, All
<1>2. RangeTypeOK
  BY DEF RangeInit, RangeTypeOK, All
<1> QED BY <1>1, <1>2 DEF RangeInv, BoxesShowTheRange

LEMMA RangeKeeps == ASSUME RangeInv, RangeNext \/ UNCHANGED rangeVars PROVE RangeInv'
<1>1. ASSUME NEW i \in {1, 2}, NEW text \in {0, Unfinished} \cup Days, SetBox(i, text) PROVE RangeInv'
  BY <1>1, SetBoxKeeps DEF Texts
<1>2. ASSUME NEW r \in {Ordered(a, b) : a, b \in Days} \cup {All}, Preset(r) PROVE RangeInv'
  <2>1. r \in Periods /\ r \in Texts \X Texts /\ Meant(r) = r
    <3>1. CASE r = All
      BY <3>1, AllIsMeant DEF Periods, Texts, All
    <3>2. CASE \E a, b \in Days : r = Ordered(a, b)
      BY <3>2, OrderedSays
    <3> QED BY <1>2, <3>1, <3>2
  <2>2. anchor' \in Days \cup {0} /\ calendar' \in BOOLEAN /\ FromOutside(r)
    BY <1>2 DEF Preset, RangeInv, RangeTypeOK
  <2> QED BY <2>1, <2>2, FromOutsideKeeps
<1>3. CASE OpenCalendar \/ PressElsewhere
  <2>1. /\ anchor' = 0 /\ calendar' \in BOOLEAN
        /\ range' = range /\ boxes' = boxes /\ committed' = committed /\ typed' = typed
    BY <1>3 DEF OpenCalendar, PressElsewhere
  <2> QED BY <2>1 DEF RangeInv, RangeTypeOK, BoxesShowTheRange
<1>4. ASSUME NEW d \in Days, PickFirst(d) PROVE RangeInv'
  <2>1. <<d, d>> = Ordered(d, d)
    BY DEF Ordered
  <2>2. <<d, d>> \in Periods /\ <<d, d>> \in Texts \X Texts /\ Meant(<<d, d>>) = <<d, d>>
    BY <2>1, OrderedSays
  <2>3. anchor' \in Days \cup {0} /\ calendar' \in BOOLEAN /\ FromOutside(<<d, d>>)
    BY <1>4 DEF PickFirst, RangeInv, RangeTypeOK
  <2> QED BY <2>2, <2>3, FromOutsideKeeps
<1>5. ASSUME NEW d \in Days, PickLast(d) PROVE RangeInv'
  <2>1. anchor \in Days
    BY <1>5 DEF PickLast, RangeInv, RangeTypeOK
  <2>2. anchor' \in Days \cup {0} /\ calendar' \in BOOLEAN /\ FromOutside(Ordered(anchor, d))
    BY <1>5 DEF PickLast
  <2> QED BY <2>1, <2>2, OrderedSays, FromOutsideKeeps
<1>6. CASE UNCHANGED rangeVars
  BY <1>6 DEF rangeVars, RangeInv, RangeTypeOK, BoxesShowTheRange
<1> QED BY <1>1, <1>2, <1>3, <1>4, <1>5, <1>6 DEF RangeNext

----------------------------------------------------------------------------
(* The calendar *)

Last0 == Len(MonthLengths)

LEMMA LengthsSay == Last0 \in Nat /\ Last0 > 2 /\ \A i \in 1 .. Last0 : MonthLengths[i] \in 28 .. 31
  BY CalendarAssumption DEF Last0

StartsTo(f, n) ==
    /\ f \in [1 .. n -> Nat \ {0}]
    /\ \A m \in 1 .. n : f[m] = IF m = 1 THEN 1 ELSE f[m - 1] + MonthLengths[m - 1]

LEMMA StartsExist == ASSUME NEW n \in 0 .. Last0 + 1 PROVE \E f : StartsTo(f, n)
<1> DEFINE Bad == {k \in 0 .. Last0 + 1 : ~ \E f : StartsTo(f, k)}
<1> SUFFICES ASSUME Bad # {} PROVE FALSE
  OBVIOUS
<1>1. Last0 \in Nat
  BY LengthsSay
<1>12. Bad \subseteq Nat
  BY <1>1
<1>2. PICK k \in Bad : \A j \in Bad : k <= j
  BY <1>12, LeastNat
<1>3. k \in 0 .. Last0 + 1 /\ ~ \E f : StartsTo(f, k)
  BY <1>2
<1>4. k # 0
  <2>1. StartsTo([m \in 1 .. 0 |-> 1], 0)
    BY DEF StartsTo
  <2> QED BY <2>1, <1>3
<1>5. k - 1 \in 0 .. Last0 + 1 /\ ~(k <= k - 1)
  BY <1>1, <1>3, <1>4
<1>6. PICK f : StartsTo(f, k - 1)
  BY <1>2, <1>5
<1> DEFINE h == [m \in 1 .. k |-> IF m = 1 THEN 1 ELSE f[m - 1] + MonthLengths[m - 1]]
<1>7. \A m \in 1 .. k : m # 1 => m - 1 \in 1 .. k - 1 /\ f[m - 1] \in Nat \ {0} /\ MonthLengths[m - 1] \in 28 .. 31
  BY <1>1, <1>3, <1>6, LengthsSay DEF StartsTo
<1>8. h \in [1 .. k -> Nat \ {0}]
  BY <1>7
<1>9. \A m \in 1 .. k - 1 : h[m] = f[m]
  BY <1>3, <1>6 DEF StartsTo
<1>10. \A m \in 1 .. k : h[m] = IF m = 1 THEN 1 ELSE h[m - 1] + MonthLengths[m - 1]
  BY <1>7, <1>9
<1>11. StartsTo(h, k)
  BY <1>8, <1>10 DEF StartsTo
<1> QED BY <1>3, <1>11

LEMMA StartsSay == StartsTo(MonthStart, Last0 + 1)
<1>1. Last0 + 1 \in 0 .. Last0 + 1
  BY LengthsSay
<1>2. PICK f : StartsTo(f, Last0 + 1)
  BY <1>1, StartsExist
<1> DEFINE Is(g) == g = [m \in 1 .. Len(MonthLengths) + 1 |-> IF m = 1 THEN 1 ELSE g[m - 1] + MonthLengths[m - 1]]
<1>3. Is(f)
  BY <1>2 DEF StartsTo, Last0
<1>4. MonthStart = CHOOSE g : Is(g)
  BY DEF MonthStart
<1>5. Is(MonthStart)
  BY <1>3, <1>4
<1>6. \A m \in 1 .. Last0 + 1 : MonthStart[m] = IF m = 1 THEN 1 ELSE MonthStart[m - 1] + MonthLengths[m - 1]
  BY <1>5 DEF Last0
<1> DEFINE Bad == {m \in 1 .. Last0 + 1 : MonthStart[m] \notin Nat \ {0}}
<1>7. Bad = {}
  <2> SUFFICES ASSUME Bad # {} PROVE FALSE
    OBVIOUS
  <2>1. Bad \subseteq Nat
    BY LengthsSay
  <2>2. PICK k \in Bad : \A j \in Bad : k <= j
    BY <2>1, LeastNat
  <2>3. k # 1
    BY <2>2, <1>6
  <2>4. k - 1 \in 1 .. Last0 /\ ~(k <= k - 1)
    BY <2>2, <2>3, LengthsSay
  <2>5. MonthStart[k - 1] \in Nat \ {0}
    BY <2>2, <2>4, LengthsSay
  <2>6. MonthStart[k] \in Nat \ {0}
    BY <2>2, <2>3, <2>4, <2>5, <1>6, LengthsSay
  <2> QED BY <2>2, <2>6
<1>8. MonthStart = [m \in 1 .. Last0 + 1 |-> MonthStart[m]]
  BY <1>5 DEF Last0
<1> QED BY <1>6, <1>7, <1>8 DEF StartsTo

LEMMA NextStart == ASSUME NEW m \in 1 .. Last0
    PROVE /\ MonthStart[m] \in Nat \ {0} /\ MonthStart[m + 1] \in Nat \ {0}
          /\ MonthStart[m + 1] - MonthStart[m] \in 28 .. 31
<1>1. m \in 1 .. Last0 + 1 /\ m + 1 \in 1 .. Last0 + 1 /\ m + 1 # 1 /\ (m + 1) - 1 = m
  BY LengthsSay
<1>2. MonthStart[m + 1] = MonthStart[m] + MonthLengths[m]
  BY <1>1, StartsSay DEF StartsTo
<1>3. MonthStart[m] \in Nat \ {0} /\ MonthStart[m + 1] \in Nat \ {0}
  BY <1>1, StartsSay DEF StartsTo
<1> QED BY <1>2, <1>3, LengthsSay

\* Months follow each other.
LEMMA StartsGrow == ASSUME NEW m \in 1 .. Last0, NEW n \in 1 .. Last0 + 1, m < n
    PROVE MonthStart[m + 1] <= MonthStart[n]
<1> DEFINE Bad == {k \in m + 1 .. Last0 + 1 : ~(MonthStart[m + 1] <= MonthStart[k])}
<1>1. Bad \subseteq Nat
  BY LengthsSay
<1> SUFFICES ASSUME Bad # {} PROVE FALSE
  BY LengthsSay
<1>2. PICK k \in Bad : \A j \in Bad : k <= j
  BY <1>1, LeastNat
<1>3. k # m + 1
  BY <1>2, NextStart
<1>4. k - 1 \in m + 1 .. Last0 + 1 /\ ~(k <= k - 1) /\ k - 1 \in 1 .. Last0 /\ (k - 1) + 1 = k
  BY <1>2, <1>3, LengthsSay
<1>5. MonthStart[m + 1] <= MonthStart[k - 1]
  BY <1>2, <1>4
<1>6. MonthStart[k] - MonthStart[k - 1] \in 28 .. 31 /\ MonthStart[k - 1] \in Nat /\ MonthStart[k] \in Nat
  BY <1>4, NextStart
<1> QED BY <1>2, <1>5, <1>6, NextStart

LEMMA OneMonth == ASSUME NEW m \in 1 .. Last0, NEW d \in DaysOf(m) PROVE MonthOf(d) = m /\ d \in Nat
<1>1. DOMAIN MonthLengths = 1 .. Last0
  BY CalendarAssumption DEF Last0
<1>2. ASSUME NEW n \in 1 .. Last0, d \in DaysOf(n) PROVE n = m
  <2>1. MonthStart[m] <= d /\ d < MonthStart[m + 1] /\ MonthStart[n] <= d /\ d < MonthStart[n + 1] /\ d \in Nat
    BY <1>2, NextStart DEF DaysOf
  <2>2. ~(m < n)
    BY <2>1, NextStart, StartsGrow, LengthsSay
  <2>3. ~(n < m)
    BY <2>1, NextStart, StartsGrow, LengthsSay
  <2> QED BY <2>2, <2>3, LengthsSay
<1>3. d \in Nat
  BY NextStart DEF DaysOf
<1> QED BY <1>1, <1>2, <1>3 DEF MonthOf

LEMMA DayHasMonth == ASSUME NEW d \in CalendarDays
    PROVE MonthOf(d) \in Months /\ d \in DaysOf(MonthOf(d)) /\ MonthOf(d) \in 2 .. Last0 - 1 /\ d \in Nat
<1>1. PICK m \in Months : d \in DaysOf(m)
  BY DEF CalendarDays
<1>2. m \in 2 .. Last0 - 1 /\ m \in 1 .. Last0
  BY LengthsSay DEF Months, Last0
<1> QED BY <1>1, <1>2, OneMonth

LEMMA FirstOfMonth == ASSUME NEW m \in 1 .. Last0 PROVE MonthStart[m] \in DaysOf(m) /\ MonthOf(MonthStart[m]) = m
  BY NextStart, OneMonth DEF DaysOf

LEMMA MonthsStep == ASSUME NEW n \in {-1, 1}, dayAnchor \in CalendarDays, dayView = "month", MoveView(n)
    PROVE MonthOf(dayAnchor') = MonthOf(dayAnchor) + n
<1>1. MonthOf(dayAnchor) + n \in 1 .. Last0
  BY DayHasMonth, LengthsSay
<1>2. dayAnchor' = MonthStart[MonthOf(dayAnchor) + n]
  BY DEF MoveView, Moved, AddMonths
<1> QED BY <1>1, <1>2, FirstOfMonth

GridOK ==
    /\ shift \in 0 .. 6 /\ dayView \in {"month", "week", "day"}
    /\ dayAnchor \in CalendarDays /\ openDay \in CalendarDays \cup {None}

WeekdaySays(d) == Weekday(d) \in 0 .. 6 /\ StartOfWeek(d) = d - Weekday(d) /\ Weekday(StartOfWeek(d)) = 0

LEMMA WeeksBegin == ASSUME NEW d \in Nat, shift \in 0 .. 6 PROVE WeekdaySays(d)
<1>1. StartOfWeek(d) = d - Weekday(d)
  BY DEF StartOfWeek, AddDays, Weekday
<1>2. (d + shift) % 7 \in 0 .. 6 /\ ((d - ((d + shift) % 7)) + shift) % 7 = 0
  OBVIOUS
<1> QED BY <1>1, <1>2 DEF Weekday, WeekdaySays

LEMMA SundaysAre == ASSUME NEW b \in Int, shift \in 0 .. 6, Weekday(b) = 0, NEW j \in Nat, Weekday(b + j) = 0
    PROVE \E k \in Nat : j = 7 * k
<1>1. (b + shift) % 7 = 0 /\ (b + j + shift) % 7 = 0
  BY DEF Weekday
<1>2. j % 7 = 0
  BY <1>1
<1>3. j = 7 * (j \div 7) /\ j \div 7 \in Nat
  BY <1>2
<1> QED BY <1>3

RowSays(cells, b, n) ==
    /\ DOMAIN cells = 1 .. n /\ cells \in Seq(Int) /\ Len(cells) = n
    /\ \A i \in 1 .. n : cells[i] = b + i - 1
    /\ Elements(cells) = b .. b + n - 1

LEMMA RowOfDays == ASSUME NEW b \in Int, NEW n \in Nat PROVE RowSays(FromDay(b, n), b, n)
<1>1. FromDay(b, n) = [i \in 1 .. n |-> b + (i - 1)]
  BY DEF FromDay, AddDays
<1>2. Elements(FromDay(b, n)) \subseteq b .. b + n - 1
  BY <1>1 DEF Elements
<1>3. ASSUME NEW d \in b .. b + n - 1 PROVE d \in Elements(FromDay(b, n))
  <2>1. d - b + 1 \in 1 .. n /\ b + ((d - b + 1) - 1) = d
    OBVIOUS
  <2> QED BY <1>1, <2>1 DEF Elements
<1>4. \A i \in 1 .. n : b + (i - 1) = b + i - 1 /\ b + i - 1 \in Int
  OBVIOUS
<1>5. FromDay(b, n) \in Seq(Int) /\ Len(FromDay(b, n)) = n
  BY <1>1, <1>4
<1>6. Elements(FromDay(b, n)) = b .. b + n - 1
  BY <1>2, <1>3
<1>7. DOMAIN FromDay(b, n) = 1 .. n /\ \A i \in 1 .. n : FromDay(b, n)[i] = b + i - 1
  BY <1>1, <1>4
<1> QED BY <1>5, <1>6, <1>7 DEF RowSays

\* The view of a month has five or six weeks, as its days need.
LEMMA MonthShown ==
    ASSUME NEW d \in CalendarDays, shift \in 0 .. 6, NEW s, s = MonthStart[MonthOf(d)],
           NEW e, e = MonthStart[MonthOf(d) + 1], NEW b, b = StartOfWeek(s)
    PROVE /\ s \in Nat \ {0} /\ e \in Nat /\ e - s \in 28 .. 31 /\ d \in s .. e - 1
          /\ b \in Int /\ s - b \in 0 .. 6 /\ s - b = Weekday(s) /\ Weekday(b) = 0
          /\ \/ MonthCells(d) = FromDay(b, 42) /\ b + 35 < e
             \/ MonthCells(d) = FromDay(b, 35) /\ e <= b + 35
<1> DEFINE m == MonthOf(d)
<1>1. m \in 2 .. Last0 - 1 /\ m \in 1 .. Last0 /\ m + 1 \in 1 .. Last0 /\ d \in DaysOf(m)
  BY DayHasMonth, LengthsSay
<1>2. s \in Nat \ {0} /\ e \in Nat /\ e - s \in 28 .. 31
  BY <1>1, NextStart
<1>3. MonthStart[m + 2] \in Nat /\ MonthStart[m + 2] - e \in 28 .. 31
  <2>1. (m + 1) + 1 = m + 2
    BY <1>1
  <2> QED BY <1>1, <2>1, NextStart
<1>4. WeekdaySays(s)
  BY <1>2, WeeksBegin
<1>5. b \in Int /\ s - b \in 0 .. 6 /\ s - b = Weekday(s) /\ Weekday(b) = 0
  BY <1>2, <1>4 DEF WeekdaySays
<1>6. d \in s .. e - 1
  BY <1>1 DEF DaysOf
<1> DEFINE cells == FromDay(b, 42)
<1>7. /\ \A i \in 36 .. 42 : cells[i] = b + i - 1
      /\ cells \in Seq(Int) /\ Len(cells) = 42 /\ cells = [i \in 1 .. 42 |-> b + (i - 1)]
  <2>1. RowSays(cells, b, 42)
    BY <1>5, RowOfDays
  <2>2. \A i \in 36 .. 42 : i \in 1 .. 42
    OBVIOUS
  <2>3. cells = [i \in 1 .. 42 |-> b + (i - 1)]
    BY DEF FromDay, AddDays
  <2> HIDE DEF cells
  <2> QED BY <2>1, <2>2, <2>3 DEF RowSays
<1> HIDE DEF cells
<1>8. ASSUME NEW i \in 36 .. 42 PROVE MonthOf(cells[i]) = m <=> cells[i] < e
  <2>1. cells[i] \in Int /\ s <= cells[i] /\ cells[i] < MonthStart[m + 2]
    <3>1. i \in Nat /\ 36 <= i /\ i <= 42 /\ cells[i] = b + i - 1
      BY <1>7
    <3>2. b <= s /\ s <= b + 6 /\ s + 56 <= MonthStart[m + 2]
      BY <1>2, <1>3, <1>5
    <3> QED BY <1>2, <1>3, <1>5, <3>1, <3>2
  <2>2. CASE cells[i] < e
    <3>1. cells[i] \in DaysOf(m)
      BY <1>2, <2>1, <2>2 DEF DaysOf
    <3> QED BY <1>1, <2>2, <3>1, OneMonth
  <2>3. CASE ~(cells[i] < e)
    <3>1. cells[i] \in DaysOf(m + 1)
      <4>1. (m + 1) + 1 = m + 2
        BY <1>1
      <4> QED BY <1>2, <1>3, <2>1, <2>3, <4>1 DEF DaysOf
    <3>2. MonthOf(cells[i]) = m + 1
      BY <1>1, <3>1, OneMonth
    <3> QED BY <1>1, <2>3, <3>2
  <2> QED BY <2>2, <2>3
<1>9. CASE b + 35 < e
  <2>1. cells[36] < e /\ 36 \in 36 .. 42
    BY <1>7, <1>9
  <2>2. \E i \in 36 .. 42 : MonthOf(cells[i]) = m
    BY <1>8, <2>1
  <2>3. MonthCells(d) = cells
    BY <2>2 DEF MonthCells, cells
  <2> QED BY <1>2, <1>5, <1>6, <1>9, <2>3 DEF cells
<1>10. CASE ~(b + 35 < e)
  <2>1. \A i \in 36 .. 42 : ~(cells[i] < e)
    <3> TAKE i \in 36 .. 42
    <3>1. cells[i] = b + i - 1
      BY <1>7
    <3> QED BY <1>2, <1>5, <1>10, <3>1
  <2>2. ~ \E i \in 36 .. 42 : MonthOf(cells[i]) = m
    BY <1>8, <2>1
  <2>3. MonthCells(d) = SubSeq(cells, 1, 35)
    BY <2>2 DEF MonthCells, cells
  <2>4. SubSeq(cells, 1, 35) = [i \in 1 .. 35 |-> b + (i - 1)]
    <3>1. SubSeq(cells, 1, 35) = [i \in 1 .. 35 |-> cells[i]]
      BY <1>7
    <3>2. \A i \in 1 .. 35 : cells[i] = b + (i - 1)
      BY <1>7
    <3> QED BY <3>1, <3>2
  <2>5. MonthCells(d) = FromDay(b, 35)
    BY <2>3, <2>4 DEF FromDay, AddDays
  <2> QED BY <1>2, <1>5, <1>6, <1>10, <2>5
<1> QED BY <1>9, <1>10

GridInv == GridOK /\ (openDay # None => openDay \in Elements(Cells))

LEMMA MonthCellsSay ==
    ASSUME NEW d \in CalendarDays, shift \in 0 .. 6, NEW s, s = MonthStart[MonthOf(d)],
           NEW e, e = MonthStart[MonthOf(d) + 1], NEW b, b = StartOfWeek(s)
    PROVE /\ \E n \in {35, 42} : RowSays(MonthCells(d), b, n) /\ s - b \in 0 .. 6 /\ e <= b + n
          /\ \A i \in DOMAIN MonthCells(d) : Weekday(MonthCells(d)[i]) = 0 =>
                  \/ (MonthCells(d)[i] .. (MonthCells(d)[i] + 6)) \cap DaysOf(MonthOf(d)) # {}
                  \/ e - s = 28 /\ Weekday(s) = 0
<1> DEFINE cells == MonthCells(d)
<1>1. /\ s \in Nat \ {0} /\ e \in Nat /\ e - s \in 28 .. 31 /\ d \in s .. e - 1
      /\ b \in Int /\ s - b \in 0 .. 6 /\ s - b = Weekday(s) /\ Weekday(b) = 0
      /\ \/ cells = FromDay(b, 42) /\ b + 35 < e
         \/ cells = FromDay(b, 35) /\ e <= b + 35
  BY MonthShown
<1> HIDE DEF cells
<1>2. PICK n \in {35, 42} : RowSays(cells, b, n) /\ e <= b + n /\ (n = 42 => b + 35 < e)
  <2>1. CASE cells = FromDay(b, 42) /\ b + 35 < e
    <3>1. RowSays(cells, b, 42)
      BY <1>1, <2>1, RowOfDays
    <3>2. e <= b + 42
      BY <1>1
    <3> QED BY <2>1, <3>1, <3>2
  <2>2. CASE cells = FromDay(b, 35) /\ e <= b + 35
    <3>1. RowSays(cells, b, 35)
      BY <1>1, <2>2, RowOfDays
    <3> QED BY <2>2, <3>1
  <2> QED BY <1>1, <2>1, <2>2
<1>3. ASSUME NEW i \in DOMAIN cells, Weekday(cells[i]) = 0, ~(e - s = 28 /\ Weekday(s) = 0)
      PROVE (cells[i] .. (cells[i] + 6)) \cap DaysOf(MonthOf(d)) # {}
  <2>1. i \in 1 .. n /\ cells[i] = b + (i - 1) /\ i - 1 \in Nat
    <3>1. i \in 1 .. n /\ cells[i] = b + i - 1
      BY <1>2, <1>3 DEF RowSays
    <3>2. b + i - 1 = b + (i - 1) /\ i - 1 \in Nat
      BY <1>1, <3>1
    <3> QED BY <3>1, <3>2
  <2>2. PICK k \in Nat : i - 1 = 7 * k
    BY <1>1, <1>3, <2>1, SundaysAre
  <2>3. k \in 0 .. 5 /\ (k = 5 => b + 35 < e)
    BY <1>2, <2>1, <2>2
  <2>4. cells[i] = b + 7 * k
    BY <2>1, <2>2
  <2> DEFINE x == IF k = 0 THEN s ELSE cells[i]
  <2>5. x \in cells[i] .. (cells[i] + 6)
    BY <1>1, <2>3, <2>4
  <2>6. x \in s .. e - 1
    <3>1. CASE k = 0
      BY <1>1, <3>1
    <3>2. CASE k \in 1 .. 3
      BY <1>1, <2>4, <3>2
    <3>3. CASE k = 4
      BY <1>1, <1>3, <2>4, <3>3
    <3>4. CASE k = 5
      BY <1>1, <2>3, <2>4, <3>4
    <3> QED BY <2>3, <3>1, <3>2, <3>3, <3>4
  <2>7. x \in DaysOf(MonthOf(d))
    BY <2>6 DEF DaysOf
  <2> QED BY <2>5, <2>7
<1> QED BY <1>1, <1>2, <1>3 DEF cells

LEMMA MonthIsWhole ==
    ASSUME GridInv, dayView = "month"
    PROVE /\ dayAnchor \in Elements(Cells)
          /\ Weekday(Cells[1]) = 0 /\ Len(Cells) % 7 = 0
          /\ DaysOf(MonthOf(dayAnchor)) \subseteq Elements(Cells)
          /\ DaysOf(MonthOf(dayAnchor)) \subseteq Elements(PickerCells(MonthOf(dayAnchor)))
          /\ Weekday(PickerCells(MonthOf(dayAnchor))[1]) = 0
          /\ \A i \in DOMAIN Cells : Weekday(Cells[i]) = 0 =>
                  \/ (Cells[i] .. (Cells[i] + 6)) \cap DaysOf(MonthOf(dayAnchor)) # {}
                  \/ Cardinality(DaysOf(MonthOf(dayAnchor))) = 28 /\ Weekday(MonthStart[MonthOf(dayAnchor)]) = 0
<1> DEFINE d == dayAnchor
           s == MonthStart[MonthOf(d)]
           e == MonthStart[MonthOf(d) + 1]
           b == StartOfWeek(s)
<1>1. d \in CalendarDays /\ shift \in 0 .. 6
  BY DEF GridInv, GridOK
<1>2. /\ s \in Nat \ {0} /\ e \in Nat /\ e - s \in 28 .. 31 /\ d \in s .. e - 1
      /\ b \in Int /\ s - b \in 0 .. 6 /\ s - b = Weekday(s) /\ Weekday(b) = 0
  BY <1>1, MonthShown
<1>3. Cells = MonthCells(d)
  BY DEF Cells
<1>4. PICK n \in {35, 42} : RowSays(Cells, b, n) /\ s - b \in 0 .. 6 /\ e <= b + n
  BY <1>1, <1>3, MonthCellsSay
<1>5. RowSays(PickerCells(MonthOf(d)), b, 42)
  <2>1. PickerCells(MonthOf(d)) = FromDay(b, 42)
    BY DEF PickerCells, StartOfWeek
  <2> QED BY <1>2, <2>1, RowOfDays
<1>6. DaysOf(MonthOf(d)) = s .. e - 1
  BY DEF DaysOf
<1>7. Cardinality(DaysOf(MonthOf(d))) = e - s
  <2>1. s \in Int /\ e - 1 \in Int /\ ~(s > e - 1) /\ ((e - 1) - s) + 1 = e - s
    BY <1>2
  <2>2. Cardinality(s .. e - 1) = IF s > e - 1 THEN 0 ELSE ((e - 1) - s) + 1
    BY <2>1, FS_Interval
  <2> QED BY <1>6, <2>1, <2>2
<1>8. \A i \in DOMAIN Cells : Weekday(Cells[i]) = 0 =>
                  \/ (Cells[i] .. (Cells[i] + 6)) \cap DaysOf(MonthOf(d)) # {}
                  \/ e - s = 28 /\ Weekday(s) = 0
  BY <1>1, <1>3, MonthCellsSay
<1> HIDE DEF s, e, b
<1>9. s .. e - 1 \subseteq b .. b + n - 1 /\ s .. e - 1 \subseteq b .. b + 42 - 1 /\ Len(Cells) = n
  BY <1>2, <1>4 DEF RowSays
<1>10. Len(Cells) % 7 = 0
  BY <1>4, <1>9
<1>11. Cells[1] = b /\ PickerCells(MonthOf(d))[1] = b
  <2>1. 1 \in 1 .. n /\ 1 \in 1 .. 42 /\ b + 1 - 1 = b
    BY <1>2, <1>4
  <2>2. Cells[1] = b + 1 - 1 /\ PickerCells(MonthOf(d))[1] = b + 1 - 1
    BY <1>4, <1>5, <2>1 DEF RowSays
  <2> QED BY <2>1, <2>2
<1>12. Elements(Cells) = b .. b + n - 1 /\ Elements(PickerCells(MonthOf(d))) = b .. b + 42 - 1
  BY <1>4, <1>5 DEF RowSays
<1> QED BY <1>2, <1>6, <1>7, <1>8, <1>9, <1>10, <1>11, <1>12 DEF s

LEMMA GridIsWholeThen == GridInv => GridIsWhole
<1> SUFFICES ASSUME GridInv PROVE GridIsWhole
  OBVIOUS
<1>1. dayAnchor \in CalendarDays /\ dayAnchor \in Nat /\ shift \in 0 .. 6
  BY DayHasMonth DEF GridInv, GridOK
<1>2. CASE dayView = "month"
  BY <1>2, MonthIsWhole DEF GridIsWhole, GridInv
<1>3. CASE dayView = "week"
  <2> DEFINE b == StartOfWeek(dayAnchor)
  <2>1. b \in Int /\ b = dayAnchor - Weekday(dayAnchor) /\ Weekday(dayAnchor) \in 0 .. 6 /\ Weekday(b) = 0
    BY <1>1, WeeksBegin DEF WeekdaySays
  <2>2. Cells = FromDay(b, 7)
    BY <1>3 DEF Cells
  <2>3. RowSays(Cells, b, 7)
    BY <2>1, <2>2, RowOfDays
  <2> HIDE DEF b
  <2>4. Cells[1] = b + 1 - 1 /\ Len(Cells) = 7 /\ Elements(Cells) = b .. b + 7 - 1
    BY <2>3 DEF RowSays
  <2>5. dayAnchor \in b .. b + 7 - 1 /\ b + 1 - 1 = b /\ 7 % 7 = 0
    BY <1>1, <2>1
  <2> QED BY <1>3, <2>1, <2>4, <2>5 DEF GridIsWhole, GridInv
<1>4. CASE dayView = "day"
  <2>1. Cells = <<dayAnchor>>
    BY <1>4 DEF Cells
  <2>2. dayAnchor \in Elements(Cells)
    BY <2>1 DEF Elements
  <2> QED BY <1>4, <2>2 DEF GridIsWhole, GridInv
<1> QED BY <1>2, <1>3, <1>4 DEF GridInv, GridOK

LEMMA GridStart == GridInit => GridInv
<1>1. 2 \in Months /\ 2 \in 1 .. Last0
  BY LengthsSay DEF Months, Last0
<1>2. MonthStart[2] \in CalendarDays
  BY <1>1, FirstOfMonth DEF CalendarDays
<1> QED BY <1>2 DEF GridInit, GridInv, GridOK

LEMMA GridKeeps == ASSUME GridInv, GridNext \/ UNCHANGED gridVars PROVE GridInv'
<1> USE DEF GridInv, GridOK
<1>1. ASSUME openDay = None, openDay' = None, shift' = shift, dayAnchor' \in CalendarDays,
             dayView' \in {"month", "week", "day"}
      PROVE GridInv'
  BY <1>1
<1>2. ASSUME NEW n \in {-1, 1}, MoveView(n) PROVE GridInv'
  BY <1>1, <1>2 DEF MoveView, DayClosed
<1>3. CASE Today
  <2>1. 2 \in Months /\ 2 \in 1 .. Last0
    BY LengthsSay DEF Months, Last0
  <2>2. MonthStart[2] \in CalendarDays
    BY <2>1, FirstOfMonth DEF CalendarDays
  <2> QED BY <1>1, <1>3, <2>2 DEF Today, DayClosed
<1>4. ASSUME NEW v \in {"month", "week", "day"}, SetView(v) PROVE GridInv'
  BY <1>1, <1>4 DEF SetView, DayClosed
<1>5. ASSUME NEW i \in DOMAIN Cells, ClickDay(Cells[i]) PROVE GridInv'
  BY <1>1, <1>5 DEF ClickDay, DayClosed
<1>6. ASSUME NEW i \in DOMAIN Cells, DoubleClick(Cells[i]) PROVE GridInv'
  <2> DEFINE d == Cells[i]
  <2>1. /\ openDay' = d /\ d \in CalendarDays /\ shift' = shift /\ dayView' = dayView
        /\ dayAnchor' = IF dayView = "month" THEN d ELSE dayAnchor
        /\ dayView = "month" => MonthOf(d) = MonthOf(dayAnchor)
    BY <1>6 DEF DoubleClick, DayClosed
  <2>2. d \in Elements(Cells)
    BY DEF Elements
  <2>3. Cells' = Cells
    <3>1. CASE dayView = "month"
      <4>1. dayAnchor' = d /\ MonthOf(dayAnchor') = MonthOf(dayAnchor)
        BY <2>1, <3>1
      <4>2. MonthCells(dayAnchor)' = MonthCells(dayAnchor)
        BY <2>1, <4>1 DEF MonthCells, FromDay, StartOfWeek, AddDays, Weekday
      <4> QED BY <2>1, <3>1, <4>2 DEF Cells
    <3>2. CASE dayView # "month"
      BY <2>1, <3>2 DEF Cells, FromDay, StartOfWeek, AddDays, Weekday
    <3> QED BY <3>1, <3>2
  <2>4. d \in Elements(Cells)'
    BY <2>2, <2>3 DEF Elements
  <2> QED BY <2>1, <2>4
<1>7. CASE CloseDay
  BY <1>7 DEF CloseDay
<1>8. CASE UNCHANGED gridVars
  <2>1. Elements(Cells)' = Elements(Cells)
    BY <1>8 DEF gridVars, Elements, Cells, MonthCells, FromDay, StartOfWeek, AddDays, Weekday
  <2> QED BY <1>8, <2>1 DEF gridVars
<1> QED BY <1>2, <1>3, <1>4, <1>5, <1>6, <1>7, <1>8 DEF GridNext

ScheduleOK ==
    /\ edition \in DOMAIN Editions /\ drawn \in 0 .. Len(Editions)
    /\ ofTypes \subseteq CalendarTypes /\ ofSite \in SiteKinds \cup {None}
    /\ fetches \in Seq(0 .. Len(Editions)) /\ fetching \in BOOLEAN

ScheduleInv == ScheduleOK /\ FilterIsOnOffer

LEMMA EditionsSay ==
    /\ Len(Editions) \in Nat /\ DOMAIN Editions = 1 .. Len(Editions) /\ 1 \in DOMAIN Editions
    /\ \A e \in 0 .. Len(Editions) : \A o \in DrawnOrders(e) : o.site \in SiteKinds \cup {None}
<1>1. Len(Editions) \in Nat /\ DOMAIN Editions = 1 .. Len(Editions) /\ 1 \in DOMAIN Editions
  BY CalendarAssumption
<1>2. ASSUME NEW e \in 0 .. Len(Editions), NEW o \in DrawnOrders(e) PROVE o.site \in SiteKinds \cup {None}
  <2>1. e \in DOMAIN Editions /\ o \in Editions[e]
    BY <1>1, <1>2 DEF DrawnOrders
  <2>2. Editions[e] \subseteq [type : CalendarTypes, site : SiteKinds \cup {None}]
    BY <1>1, <2>1, CalendarAssumption
  <2> QED BY <2>1, <2>2
<1> QED BY <1>1, <1>2

LEMMA SiteStaysSays ==
    ASSUME NEW e \in 0 .. Len(Editions), NEW types, NEW site
    PROVE LET s == SiteStays(site, e, types)
          IN  s \in SiteKinds \cup {None} /\ (s # None => \E o \in DrawnOrders(e) : OfType(o, types) /\ o.site = s)
  BY EditionsSay DEF SiteStays, SiteTypeOptions

LEMMA ScheduleStart == ScheduleInit => ScheduleInv
<1> SUFFICES ASSUME ScheduleInit PROVE ScheduleInv
  OBVIOUS
<1>1. fetches \in Seq(0 .. Len(Editions))
  BY EditionsSay DEF ScheduleInit
<1> QED BY <1>1, EditionsSay DEF ScheduleInit, ScheduleInv, ScheduleOK, FilterIsOnOffer

LEMMA ScheduleKeeps == ASSUME ScheduleInv, ScheduleNext \/ UNCHANGED scheduleVars PROVE ScheduleInv'
<1> DEFINE Rounds == 0 .. Len(Editions)
<1> USE DEF ScheduleInv, ScheduleOK
<1>0. Len(Editions) \in Nat /\ DOMAIN Editions = 1 .. Len(Editions)
  BY EditionsSay
<1>1. ASSUME NEW types \in SUBSET CalendarTypes, ChooseTypes(types) PROVE ScheduleInv'
  <2>1. ofTypes' = types /\ ofSite' = SiteStays(ofSite, drawn, types) /\ UNCHANGED <<edition, drawn, fetches, fetching>>
    BY <1>1 DEF ChooseTypes
  <2>2. ofSite' \in SiteKinds \cup {None} /\ (ofSite' # None => \E o \in DrawnOrders(drawn) : OfType(o, types) /\ o.site = ofSite')
    BY <2>1, SiteStaysSays
  <2> QED BY <2>1, <2>2 DEF FilterIsOnOffer
<1>2. ASSUME NEW s \in SiteKinds, PickSite(s) PROVE ScheduleInv'
  <2>1. \E o \in DrawnOrders(drawn) : OfType(o, ofTypes) /\ o.site = s
    BY <1>2 DEF PickSite, SiteTypeOptions
  <2>2. ofSite' \in {None, s} /\ UNCHANGED <<edition, drawn, ofTypes, fetches, fetching>>
    BY <1>2 DEF PickSite
  <2> QED BY <2>1, <2>2 DEF FilterIsOnOffer
<1>3. ASSUME FetchBegins, UNCHANGED <<edition, drawn, ofTypes, ofSite>> PROVE ScheduleInv'
  <2>1. fetches' \in Seq(Rounds)
    BY <1>3, <1>0 DEF FetchBegins
  <2> QED BY <1>3, <2>1 DEF FetchBegins, FilterIsOnOffer
<1>4. CASE ToggleDone \/ \E fromTable \in BOOLEAN : RefreshCalendar(fromTable)
  BY <1>3, <1>4 DEF ToggleDone, RefreshCalendar
<1>5. CASE StoreMovesOn
  BY <1>5, <1>0 DEF StoreMovesOn, FilterIsOnOffer
<1>6. ASSUME NEW i \in DOMAIN fetches, FetchServed(i) PROVE ScheduleInv'
  <2>1. fetches' = [fetches EXCEPT ![i] = edition] /\ edition \in Rounds
    BY <1>6, <1>0 DEF FetchServed
  <2>2. fetches' \in Seq(Rounds)
    BY <2>1
  <2> QED BY <1>6, <2>2 DEF FetchServed, FilterIsOnOffer
<1>7. ASSUME NEW i \in DOMAIN fetches, FetchGone(i)
      PROVE fetches' \in Seq(Rounds) /\ fetching' = FALSE
  <2>1. i \in 1 .. Len(fetches) /\ Len(fetches) \in Nat
    BY <1>7
  <2>0. fetches \in Seq(Rounds)
    OBVIOUS
  <2> HIDE DEF Rounds, ScheduleInv, ScheduleOK
  <2>5. SubSeq(fetches, 1, i - 1) \in Seq(Rounds)
    BY <2>0, <2>1
  <2>6. SubSeq(fetches, i + 1, Len(fetches)) \in Seq(Rounds)
    BY <2>0, <2>1
  <2>3. fetches' = SubSeq(fetches, 1, i - 1) \o SubSeq(fetches, i + 1, Len(fetches)) /\ fetching' = FALSE
    BY <1>7 DEF FetchGone
  <2>4. \A s, q \in Seq(Rounds) : s \o q \in Seq(Rounds)
    OBVIOUS
  <2> QED BY <2>3, <2>4, <2>5, <2>6
<1>8. ASSUME NEW i \in DOMAIN fetches, FetchArrives(i) PROVE ScheduleInv'
  <2>1. /\ drawn' = fetches[i] /\ ofSite' = SiteStays(ofSite, drawn', ofTypes)
        /\ FetchGone(i) /\ UNCHANGED <<edition, ofTypes>>
    BY <1>8 DEF FetchArrives
  <2>2. drawn' \in Rounds
    BY <2>1
  <2>3. ofSite' \in SiteKinds \cup {None} /\ (ofSite' # None => \E o \in DrawnOrders(drawn') : OfType(o, ofTypes) /\ o.site = ofSite')
    BY <2>1, <2>2, SiteStaysSays
  <2> QED BY <1>7, <2>1, <2>2, <2>3 DEF FilterIsOnOffer
<1>9. ASSUME NEW i \in DOMAIN fetches, FetchFails(i) PROVE ScheduleInv'
  BY <1>7, <1>9 DEF FetchFails, FilterIsOnOffer
<1>10. CASE UNCHANGED scheduleVars
  BY <1>10 DEF scheduleVars, FilterIsOnOffer
<1> QED BY <1>1, <1>2, <1>4, <1>5, <1>6, <1>8, <1>9, <1>10 DEF ScheduleNext

LEMMA CalendarTrue == ASSUME GridInv, ScheduleInv PROVE CalendarTypeOK /\ CalendarIsRight
  BY GridIsWholeThen DEF GridInv, GridOK, ScheduleInv, ScheduleOK, CalendarTypeOK, CalendarIsRight

LEMMA GridRests == GridNext => UNCHANGED scheduleVars
  BY DEF GridNext, MoveView, Today, SetView, ClickDay, DoubleClick, CloseDay, DayClosed

LEMMA ScheduleRests == ScheduleNext => UNCHANGED gridVars
  BY DEF ScheduleNext, ChooseTypes, PickSite, ToggleDone, RefreshCalendar, StoreMovesOn, FetchServed, FetchArrives, FetchFails

----------------------------------------------------------------------------
(* The lists: what has to hold *)

Ids(rows) == {rows[i].id : i \in DOMAIN rows}
Distinct(s) == \A i, j \in DOMAIN s : i # j => s[i] # s[j]
Falling(s) == \A i, j \in DOMAIN s : i < j => s[j] < s[i]
Once(rows) == \A i, j \in DOMAIN rows : i # j => rows[i].id # rows[j].id

\* Known: it was added at some time.
Known(r) == mark[r] # None

\* What the rows of a list depend on.
World == [shelf |-> shelf, mark |-> mark, asking |-> asking, changing |-> changing,
          paging |-> paging, list |-> listName]

Asks(w, r, f) == f = None \/ w.mark[r] = f

\* The place of a record among those that fit.
Pos(w, r, f) == Cardinality({q \in Elements(w.shelf) : Asks(w, q, f) /\ r <= q})

\* What a page that begins at n still has.
Left(w, r, n, f) == n # None /\ IF w.paging = "token" THEN r < n ELSE n < Pos(w, r, f)

\* Changed in the store, and not yet on the screen.
Altered(w, r) == w.changing # None /\ w.changing.done /\ w.changing.id = r

RowsRight(w, rows, due) ==
    \A i \in DOMAIN rows :
       /\ rows[i].mark = w.mark[rows[i].id] \/ Altered(w, rows[i].id)
       /\ Asks(w, rows[i].id, w.asking) \/ rows[i].id \notin due \/ Altered(w, rows[i].id)

PagesGoOn(w, rows, nxt, due, more) ==
    /\ \A r \in due : r \in Elements(w.shelf) /\ Asks(w, r, w.asking)
    /\ \A r \in due \ Ids(rows) : Left(w, r, nxt, w.asking)
    /\ nxt # None /\ w.paging = "token" => \A r \in Ids(rows) : nxt <= r
    /\ nxt # None /\ w.paging # "token" /\ ~more => \A r \in Ids(rows) : Pos(w, r, w.asking) <= nxt

ShowsRight(w, rows, nxt, due, more) ==
    /\ RowsRight(w, rows, due)
    /\ Once(rows) \/ (more /\ w.paging = "offset" /\ w.list = "logs")
    /\ w.list = "logs" => PagesGoOn(w, rows, nxt, due, more)
    /\ w.list # "logs" => due \subseteq Ids(rows)

\* Nothing under way will replace the rows, and nothing did what was unexpected.
Settled == ~muddled /\ \A l \in Loads : loads[l] # None => loads[l].append

ShelfInv ==
    /\ Distinct(shelf) /\ \A r \in Elements(shelf) : Known(r)
    /\ \A q, r \in RecordIds : q < r /\ Known(r) => Known(q)
    /\ listName = "logs" => Falling(shelf)

ChangeInv ==
    changing # None =>
      /\ listName = "issues"
      /\ changing.does = "create" /\ ~changing.done => New(changing.id)
      /\ changing.does # "create" \/ changing.done => Known(changing.id)
      /\ changing.done => mark[changing.id] = changing.mark
      /\ changing.does = "create" /\ Settled => changing.id \notin Ids(visible)

NextOf(l) == IF listName = "logs" THEN loads[l].next ELSE None

LoadInv(l) ==
    loads[l] # None =>
      /\ \A r \in Ids(loads[l].page) : Known(r)
      /\ IF loads[l].append THEN listName = "logs" /\ loads[l].from # None ELSE loads[l].from = None
      /\ loads[l].alone =>
           /\ \A k \in Loads : k # l => loads[k] = None
           /\ changing = None /\ loads[l].filter = asking
           /\ loads[l].append => loads[l].from = nextPage
           /\ loads[l].answered /\ ~loads[l].append =>
                ShowsRight(World, loads[l].page, NextOf(l), loads[l].owed, loads[l].grown)
           /\ loads[l].answered /\ loads[l].append /\ ~muddled =>
                ShowsRight(World, visible \o loads[l].page, NextOf(l), owed, grown)

RecordsInv ==
    /\ RecordsTypeOK /\ ShelfInv /\ ChangeInv
    /\ \A l \in Loads : LoadInv(l)
    /\ \A r \in Ids(visible) : Known(r)
    /\ listName # "logs" => nextPage = None
    /\ Settled => ShowsRight(World, visible, nextPage, owed, grown)

----------------------------------------------------------------------------
(* The lists: sequences of records *)

LEMMA FilteredSays ==
    ASSUME NEW S, NEW s \in Seq(S), NEW keep
    PROVE /\ Filtered(s, keep) \in Seq(S)
          /\ Elements(Filtered(s, keep)) = Elements(s) \cap keep
          /\ Distinct(s) => Distinct(Filtered(s, keep))
<1> DEFINE q == Filtered(s, keep)
<1>1. q \in Seq(S)
  BY FilteredHasPlaces
<1>2. PICK at : Places(at, s, keep, q, Len(s))
  BY FilteredHasPlaces
<1> HIDE DEF q
<1>3. Len(s) \in Nat /\ DOMAIN s = 1 .. Len(s) /\ Len(q) \in Nat /\ DOMAIN q = 1 .. Len(q)
  BY <1>1
<1>4. \A i \in 1 .. Len(q) : at[i] \in 1 .. Len(s) /\ q[i] = s[at[i]] /\ q[i] \in keep
  BY <1>2 DEF Places
<1>5. Elements(q) = Elements(s) \cap keep
  <2>1. Elements(q) \subseteq Elements(s) \cap keep
    BY <1>3, <1>4 DEF Elements
  <2>2. ASSUME NEW x \in Elements(s), x \in keep PROVE x \in Elements(q)
    <3>1. PICK j \in 1 .. Len(s) : x = s[j]
      BY <1>3 DEF Elements
    <3>2. PICK i \in 1 .. Len(q) : at[i] = j
      BY <1>2, <2>2, <3>1 DEF Places
    <3> QED BY <1>3, <1>4, <3>1, <3>2 DEF Elements
  <2> QED BY <2>1, <2>2
<1>6. ASSUME Distinct(s), NEW i \in 1 .. Len(q), NEW j \in 1 .. Len(q), i # j PROVE q[i] # q[j]
  <2>1. at[i] # at[j]
    <3>1. i < j \/ j < i
      BY <1>6
    <3> QED BY <1>2, <1>4, <3>1 DEF Places
  <2> QED BY <1>3, <1>4, <1>6, <2>1 DEF Distinct
<1>7. Distinct(s) => Distinct(q)
  BY <1>3, <1>6 DEF Distinct
<1> QED BY <1>1, <1>5, <1>7 DEF q

LEMMA FilteredFalls ==
    ASSUME NEW s \in Seq(RecordIds), NEW keep, Falling(s)
    PROVE Falling(Filtered(s, keep))
<1> DEFINE q == Filtered(s, keep)
<1>1. q \in Seq(RecordIds)
  BY FilteredHasPlaces
<1>2. PICK at : Places(at, s, keep, q, Len(s))
  BY FilteredHasPlaces
<1> HIDE DEF q
<1>3. Len(s) \in Nat /\ DOMAIN s = 1 .. Len(s) /\ Len(q) \in Nat /\ DOMAIN q = 1 .. Len(q)
  BY <1>1
<1>4. \A i \in 1 .. Len(q) : at[i] \in 1 .. Len(s) /\ q[i] = s[at[i]]
  BY <1>2 DEF Places
<1>5. ASSUME NEW i \in 1 .. Len(q), NEW j \in 1 .. Len(q), i < j PROVE q[j] < q[i]
  <2>1. at[i] < at[j]
    BY <1>2, <1>5 DEF Places
  <2> QED BY <1>3, <1>4, <2>1 DEF Falling
<1> QED BY <1>3, <1>5 DEF Falling, q

LEMMA FilteredOnce ==
    ASSUME NEW s \in Seq(Row), NEW keep
    PROVE /\ Once(s) => Once(Filtered(s, keep))
          /\ \A i \in DOMAIN Filtered(s, keep) : \E j \in DOMAIN s : Filtered(s, keep)[i] = s[j] /\ s[j] \in keep
          /\ \A j \in DOMAIN s : s[j] \in keep => \E i \in DOMAIN Filtered(s, keep) : Filtered(s, keep)[i] = s[j]
<1> DEFINE q == Filtered(s, keep)
<1>1. q \in Seq(Row)
  BY FilteredHasPlaces
<1>2. PICK at : Places(at, s, keep, q, Len(s))
  BY FilteredHasPlaces
<1> HIDE DEF q
<1>3. Len(s) \in Nat /\ DOMAIN s = 1 .. Len(s) /\ Len(q) \in Nat /\ DOMAIN q = 1 .. Len(q)
  BY <1>1
<1>4. \A i \in 1 .. Len(q) : at[i] \in 1 .. Len(s) /\ q[i] = s[at[i]] /\ q[i] \in keep
  BY <1>2 DEF Places
<1>5. ASSUME Once(s), NEW i \in 1 .. Len(q), NEW j \in 1 .. Len(q), i # j PROVE q[i].id # q[j].id
  <2>1. at[i] # at[j]
    <3>1. i < j \/ j < i
      BY <1>5
    <3> QED BY <1>2, <1>4, <3>1 DEF Places
  <2> QED BY <1>3, <1>4, <1>5, <2>1 DEF Once
<1>6. ASSUME NEW j \in 1 .. Len(s), s[j] \in keep PROVE \E i \in 1 .. Len(q) : q[i] = s[j]
  BY <1>2, <1>4, <1>6 DEF Places
<1> QED BY <1>3, <1>4, <1>5, <1>6 DEF Once, q

LEMMA CountDistinct ==
    ASSUME NEW S, NEW s \in Seq(S), Distinct(s)
    PROVE IsFiniteSet(Elements(s)) /\ Cardinality(Elements(s)) = Len(s)
<1>1. Len(s) \in Nat /\ DOMAIN s = 1 .. Len(s)
  OBVIOUS
<1>2. s \in [1 .. Len(s) -> Elements(s)]
  BY <1>1 DEF Elements
<1>3. s \in Bijection(1 .. Len(s), Elements(s))
  BY <1>1, <1>2 DEF Bijection, Injection, Surjection, IsInjective, Distinct, Elements
<1>4. IsFiniteSet(1 .. Len(s)) /\ Cardinality(1 .. Len(s)) = Len(s)
  <2>1. Cardinality(1 .. Len(s)) = IF 1 > Len(s) THEN 0 ELSE Len(s) - 1 + 1
    BY <1>1, FS_Interval
  <2>2. IsFiniteSet(1 .. Len(s))
    BY <1>1, FS_Interval
  <2> QED BY <1>1, <2>1, <2>2
<1>5. ExistsBijection(1 .. Len(s), Elements(s))
  BY <1>3 DEF ExistsBijection
<1> QED BY <1>4, <1>5, FS_Bijection

LEMMA FallingPlace ==
    ASSUME NEW s \in Seq(RecordIds), Falling(s), NEW i \in 1 .. Len(s)
    PROVE /\ Distinct(s)
          /\ Cardinality({q \in Elements(s) : s[i] <= q}) = i
<1>1. Len(s) \in Nat /\ DOMAIN s = 1 .. Len(s) /\ i \in Nat
  OBVIOUS
<1>2. \A j \in 1 .. Len(s) : s[j] \in Nat
  BY RecordsAssumption DEF RecordIds
<1>3. Distinct(s)
  <2> SUFFICES ASSUME NEW j \in 1 .. Len(s), NEW k \in 1 .. Len(s), j # k PROVE s[j] # s[k]
    BY <1>1 DEF Distinct
  <2>1. j < k \/ k < j
    OBVIOUS
  <2> QED BY <1>1, <1>2, <2>1 DEF Falling
<1> DEFINE T == {q \in Elements(s) : s[i] <= q}
           f == [j \in 1 .. i |-> s[j]]
<1>4. \A j \in 1 .. Len(s) : s[i] <= s[j] <=> j \in 1 .. i
  <2> TAKE j \in 1 .. Len(s)
  <2>1. CASE j < i
    BY <1>1, <1>2, <2>1 DEF Falling
  <2>2. CASE j = i
    BY <1>1, <1>2, <2>2
  <2>3. CASE i < j
    BY <1>1, <1>2, <2>3 DEF Falling
  <2> QED BY <2>1, <2>2, <2>3
<1>5. 1 .. i \subseteq 1 .. Len(s)
  BY <1>1
<1>6. f \in [1 .. i -> T]
  BY <1>1, <1>4, <1>5 DEF Elements
<1>7. \A q \in T : \E j \in 1 .. i : f[j] = q
  <2> TAKE q \in T
  <2>1. PICK j \in 1 .. Len(s) : q = s[j]
    BY <1>1 DEF Elements
  <2>2. j \in 1 .. i
    BY <1>4, <2>1
  <2> QED BY <2>1, <2>2
<1>8. \A j, k \in 1 .. i : j # k => f[j] # f[k]
  BY <1>1, <1>3, <1>5 DEF Distinct
<1>9. f \in Bijection(1 .. i, T)
  <2> HIDE DEF f, T
  <2> QED BY <1>6, <1>7, <1>8 DEF Bijection, Injection, Surjection, IsInjective
<1>10. ExistsBijection(1 .. i, T)
  BY <1>9 DEF ExistsBijection
<1>11. IsFiniteSet(1 .. i) /\ Cardinality(1 .. i) = i
  <2>1. Cardinality(1 .. i) = IF 1 > i THEN 0 ELSE i - 1 + 1
    BY <1>1, FS_Interval
  <2>2. IsFiniteSet(1 .. i)
    BY <1>1, FS_Interval
  <2> QED BY <1>1, <2>1, <2>2
<1>12. Cardinality(T) = i
  BY <1>10, <1>11, FS_Bijection
<1> QED BY <1>3, <1>12

\* The part of a list on one page.
OnPage(page, s, start) ==
    /\ page \in Seq(RecordIds) /\ Len(page) <= PageSize /\ start + Len(page) <= IF start < Len(s) THEN Len(s) ELSE start
    /\ \A i \in 1 .. Len(page) : start + i \in 1 .. Len(s) /\ page[i] = s[start + i]
    /\ \A j \in 1 .. Len(s) : start < j /\ j <= start + PageSize => j - start \in 1 .. Len(page)

LEMMA FirstOfSays ==
    ASSUME NEW s \in Seq(RecordIds), NEW start \in Nat
    PROVE OnPage(FirstOf(s, start), s, start)
<1>1. Len(s) \in Nat /\ PageSize \in Nat \ {0}
  BY RecordsAssumption
<1> DEFINE n == IF start + PageSize < Len(s) THEN start + PageSize ELSE Len(s)
           page == FirstOf(s, start)
<1>2. page = SubSeq(s, start + 1, n) /\ n \in Nat /\ n <= Len(s)
  BY <1>1 DEF FirstOf
<1>3. CASE start < n
  <2>1. page \in Seq(RecordIds) /\ Len(page) = n - start /\ \A i \in 1 .. n - start : page[i] = s[start + i]
    <3>1. \A i \in (start + 1) .. n : i \in 1 .. Len(s)
      BY <1>1, <1>2
    <3>2. Len(page) = n - start
      BY <1>1, <1>2, <1>3
    <3>3. \A i \in 1 .. n - start : page[i] = s[(start + 1) + i - 1] /\ (start + 1) + i - 1 = start + i
      BY <1>1, <1>2, <1>3
    <3>4. page \in Seq(RecordIds)
      BY <1>2, <3>1
    <3> QED BY <3>2, <3>3, <3>4
  <2> HIDE DEF page
  <2>2. start + Len(page) = n /\ start < Len(s) /\ Len(page) <= PageSize
    BY <1>1, <1>2, <1>3, <2>1
  <2>3. \A i \in 1 .. n - start : start + i \in 1 .. Len(s)
    BY <1>1, <1>2, <1>3
  <2>4. \A j \in 1 .. Len(s) : start < j /\ j <= start + PageSize => j - start \in 1 .. n - start
    BY <1>1, <1>2, <1>3
  <2>5. OnPage(page, s, start)
    BY <1>1, <1>2, <2>1, <2>2, <2>3, <2>4 DEF OnPage
  <2> QED BY <2>5 DEF page
<1>4. CASE ~(start < n)
  <2>1. page = << >>
    BY <1>1, <1>2, <1>4
  <2> HIDE DEF page
  <2>2. Len(s) <= start
    BY <1>1, <1>4
  <2>3. OnPage(page, s, start)
    BY <1>1, <2>1, <2>2 DEF OnPage
  <2> QED BY <2>3 DEF page
<1> QED BY <1>3, <1>4

----------------------------------------------------------------------------
(* The lists: what the server has *)

LEMMA MatchingSays ==
    ASSUME NEW f, shelf \in Seq(RecordIds), Distinct(shelf)
    PROVE /\ Matching(f) \in Seq(RecordIds) /\ Distinct(Matching(f))
          /\ Elements(Matching(f)) = {r \in Elements(shelf) : Fits(r, f)}
          /\ Falling(shelf) => Falling(Matching(f))
<1> DEFINE keep == {r \in RecordIds : Fits(r, f)}
<1>1. Matching(f) = Filtered(shelf, keep)
  BY DEF Matching
<1>2. Elements(shelf) \subseteq RecordIds
  BY DEF Elements
<1>3. Elements(shelf) \cap keep = {r \in Elements(shelf) : Fits(r, f)}
  BY <1>2
<1> HIDE DEF keep
<1> QED BY <1>1, <1>3, FilteredSays, FilteredFalls

LEMMA PageSays ==
    ASSUME NEW s \in Seq(RecordIds), Distinct(s), NEW start \in Nat
    PROVE /\ FirstOf(s, start) \in Seq(RecordIds) /\ Distinct(FirstOf(s, start))
          /\ Elements(FirstOf(s, start)) \subseteq Elements(s)
<1> DEFINE page == FirstOf(s, start)
<1>1. OnPage(page, s, start)
  BY FirstOfSays
<1> HIDE DEF page
<1>2. page \in Seq(RecordIds) /\ DOMAIN page = 1 .. Len(page) /\ DOMAIN s = 1 .. Len(s)
  BY <1>1 DEF OnPage
<1>3. \A i \in 1 .. Len(page) : start + i \in 1 .. Len(s) /\ page[i] = s[start + i]
  BY <1>1 DEF OnPage
<1>4. Elements(page) \subseteq Elements(s)
  BY <1>2, <1>3 DEF Elements
<1>5. ASSUME NEW i \in 1 .. Len(page), NEW j \in 1 .. Len(page), i # j PROVE page[i] # page[j]
  <2>1. start + i # start + j
    BY <1>5
  <2> QED BY <1>2, <1>3, <2>1 DEF Distinct
<1>6. Distinct(page)
  BY <1>2, <1>5 DEF Distinct
<1> QED BY <1>2, <1>4, <1>6 DEF page

LEMMA FewRecords ==
    ASSUME NEW s \in Seq(RecordIds), Distinct(s)
    PROVE Len(s) \in 0 .. MaxRecords
<1>1. MaxRecords \in Nat
  BY RecordsAssumption
<1>2. IsFiniteSet(RecordIds) /\ Cardinality(RecordIds) = MaxRecords
  <2>1. Cardinality(1 .. MaxRecords) = IF 1 > MaxRecords THEN 0 ELSE MaxRecords - 1 + 1
    BY <1>1, FS_Interval
  <2>2. IsFiniteSet(1 .. MaxRecords)
    BY <1>1, FS_Interval
  <2> QED BY <1>1, <2>1, <2>2 DEF RecordIds
<1>3. Elements(s) \in SUBSET RecordIds
  BY DEF Elements
<1>4. Cardinality(Elements(s)) <= MaxRecords
  BY <1>2, <1>3, FS_Subset
<1>5. Cardinality(Elements(s)) = Len(s) /\ Len(s) \in Nat
  BY CountDistinct
<1> QED BY <1>1, <1>4, <1>5

\* What every answer has.
Served(p, f) ==
    /\ p = [page |-> p.page, next |-> p.next] /\ p.next \in ListCursors
    /\ p.page \in Seq(RecordIds) /\ Distinct(p.page)
    /\ \A r \in Elements(p.page) : r \in Elements(shelf) /\ Fits(r, f)

LEMMA ServedSays ==
    ASSUME NEW f, NEW from \in ListCursors, shelf \in Seq(RecordIds), Distinct(shelf),
           paging \in {"offset", "token"}, NEW p \in ServedPages(f, from)
    PROVE Served(p, f)
<1>1. MaxRecords \in Nat /\ PageSize \in Nat \ {0} /\ None \notin 0 .. MaxRecords
  BY RecordsAssumption
<1>2. Matching(f) \in Seq(RecordIds) /\ Distinct(Matching(f)) /\ Len(Matching(f)) \in 0 .. MaxRecords
  BY MatchingSays, FewRecords
<1>3. Elements(Matching(f)) = {r \in Elements(shelf) : Fits(r, f)}
  BY MatchingSays
<1>4. CASE paging = "offset"
  <2> DEFINE start == IF from = None THEN 0 ELSE from
             next == NextOffset(start)
  <2>1. start \in Nat /\ next = start + PageSize
    BY <1>1 DEF ListCursors, NextOffset
  <2>2. p = [page |-> FirstOf(Matching(f), start), next |-> IF next < Len(Matching(f)) THEN next ELSE None]
    BY <1>4 DEF ServedPages, OffsetPage
  <2> HIDE DEF start
  <2>3. p.next \in ListCursors
    BY <1>1, <1>2, <2>1, <2>2 DEF ListCursors
  <2> QED BY <1>2, <1>3, <2>1, <2>2, <2>3, PageSays DEF Served
<1>5. CASE paging # "offset" /\ listName = "history"
  <2>1. p = [page |-> Filtered(FirstOf(shelf, 0), {r \in RecordIds : Fits(r, f)}), next |-> None]
    BY <1>5 DEF ServedPages, NarrowedPage
  <2> DEFINE s == FirstOf(shelf, 0)
             keep == {r \in RecordIds : Fits(r, f)}
  <2>2. s \in Seq(RecordIds) /\ Distinct(s) /\ Elements(s) \subseteq Elements(shelf)
    BY PageSays
  <2> HIDE DEF s
  <2>3. Filtered(s, keep) \in Seq(RecordIds) /\ Distinct(Filtered(s, keep)) /\ Elements(Filtered(s, keep)) = Elements(s) \cap keep
    BY <2>2, FilteredSays
  <2>4. p.page = Filtered(s, keep) /\ p.next = None /\ p = [page |-> p.page, next |-> p.next]
    BY <2>1 DEF s
  <2> QED BY <2>2, <2>3, <2>4 DEF Served, ListCursors
<1>6. CASE paging # "offset" /\ listName # "history"
  <2> DEFINE keep == {r \in RecordIds : from = None \/ r < from}
             rest == Filtered(Matching(f), keep)
             page == FirstOf(rest, 0)
             final == IF page = << >> THEN None ELSE page[Len(page)]
  <2>1. p \in {[page |-> page, next |-> n] : n \in IF Len(rest) > PageSize THEN {final} ELSE {final, None}}
    BY <1>6 DEF ServedPages, TokenPages
  <2>2. rest \in Seq(RecordIds) /\ Distinct(rest) /\ Elements(rest) = Elements(Matching(f)) \cap keep
    BY <1>2, FilteredSays
  <2> HIDE DEF rest
  <2>3. page \in Seq(RecordIds) /\ Distinct(page) /\ Elements(page) \subseteq Elements(rest)
    BY <2>2, PageSays
  <2> HIDE DEF page
  <2>4. final \in ListCursors
    <3>1. page # << >> => page[Len(page)] \in RecordIds
      BY <2>3
    <3> QED BY <1>1, <3>1 DEF ListCursors, RecordIds
  <2>5. p = [page |-> page, next |-> p.next] /\ p.next \in {final, None} /\ p.page = page
    BY <2>1
  <2> QED BY <1>3, <2>2, <2>3, <2>4, <2>5 DEF Served, ListCursors
<1> QED BY <1>4, <1>5, <1>6

LEMMA WorldSays ==
    /\ World.shelf = shelf /\ World.mark = mark /\ World.asking = asking
    /\ World.changing = changing /\ World.paging = paging /\ World.list = listName
    /\ \A r, f : Asks(World, r, f) <=> Fits(r, f)
  BY DEF World, Asks, Fits

\* What a page of the logs has, as to where it begins.
LogServed(p, f, from) ==
    /\ \A r \in Elements(p.page) : from # None => Left(World, r, from, f)
    /\ \A r \in Elements(shelf) : Asks(World, r, f) /\ (from = None \/ Left(World, r, from, f))
                                    => r \in Elements(p.page) \/ Left(World, r, p.next, f)
    /\ p.next # None =>
         IF paging = "token"
         THEN /\ \A r \in Elements(p.page) : p.next <= r
              /\ from # None => p.next <= from
         ELSE /\ \A r \in Elements(p.page) : Pos(World, r, f) <= p.next
              /\ from # None => from <= p.next

LEMMA PlaceSays ==
    ASSUME NEW f, shelf \in Seq(RecordIds), Falling(shelf), Distinct(shelf), NEW i \in 1 .. Len(Matching(f))
    PROVE Pos(World, Matching(f)[i], f) = i
<1> DEFINE s == Matching(f)
<1>1. s \in Seq(RecordIds) /\ Falling(s) /\ Elements(s) = {r \in Elements(shelf) : Asks(World, r, f)}
  BY MatchingSays, WorldSays
<1> HIDE DEF s
<1>2. {q \in Elements(World.shelf) : Asks(World, q, f) /\ s[i] <= q} = {q \in Elements(s) : s[i] <= q}
  BY <1>1, WorldSays
<1>3. i \in 1 .. Len(s)
  BY DEF s
<1>4. Cardinality({q \in Elements(s) : s[i] <= q}) = i
  BY <1>1, <1>3, FallingPlace
<1>5. Pos(World, s[i], f) = i
  BY <1>2, <1>4 DEF Pos
<1> QED BY <1>5 DEF s

LEMMA OffsetLogs ==
    ASSUME NEW f, NEW from \in ListCursors, shelf \in Seq(RecordIds), Falling(shelf), Distinct(shelf),
           paging = "offset", NEW p \in ServedPages(f, from)
    PROVE LogServed(p, f, from)
<1> DEFINE s == Matching(f)
           start == IF from = None THEN 0 ELSE from
           next == NextOffset(start)
           page == FirstOf(s, start)
<1>1. s \in Seq(RecordIds) /\ Elements(s) = {r \in Elements(shelf) : Asks(World, r, f)} /\ Len(s) \in Nat
  BY MatchingSays, WorldSays
<1>2. MaxRecords \in Nat /\ PageSize \in Nat \ {0} /\ None \notin 0 .. MaxRecords
  BY RecordsAssumption
<1>3. start \in Nat /\ next = start + PageSize /\ (from # None => start = from)
  BY <1>2 DEF ListCursors, NextOffset
<1>4. p.page = page /\ p.next = IF next < Len(s) THEN next ELSE None
  BY DEF ServedPages, OffsetPage
<1>5. OnPage(page, s, start)
  BY <1>1, <1>3, FirstOfSays
<1>6. \A i \in 1 .. Len(s) : Pos(World, s[i], f) = i
  BY PlaceSays
<1> HIDE DEF s, start, next, page
<1>7. DOMAIN page = 1 .. Len(page) /\ DOMAIN s = 1 .. Len(s) /\ Len(page) \in Nat /\ Len(page) <= PageSize
  BY <1>1, <1>2, <1>5 DEF OnPage
<1>8. ASSUME NEW r \in Elements(page) PROVE start < Pos(World, r, f) /\ Pos(World, r, f) <= start + PageSize
  <2>1. PICK i \in 1 .. Len(page) : r = page[i]
    BY <1>7 DEF Elements
  <2>2. start + i \in 1 .. Len(s) /\ r = s[start + i]
    BY <1>5, <2>1 DEF OnPage
  <2>3. Pos(World, r, f) = start + i
    BY <1>6, <2>2
  <2> QED BY <1>2, <1>3, <1>7, <2>1, <2>3
<1>9. ASSUME NEW r \in Elements(shelf), Asks(World, r, f), from = None \/ Left(World, r, from, f)
      PROVE r \in Elements(page) \/ Left(World, r, p.next, f)
  <2>1. PICK j \in 1 .. Len(s) : r = s[j]
    BY <1>1, <1>7, <1>9 DEF Elements
  <2>2. Pos(World, r, f) = j
    BY <1>6, <2>1
  <2>3. start < j
    BY <1>9, <2>2, WorldSays DEF Left, start
  <2>4. CASE j <= start + PageSize
    <3>1. j - start \in 1 .. Len(page) /\ start + (j - start) = j
      BY <1>3, <1>5, <2>1, <2>3, <2>4 DEF OnPage
    <3>2. page[j - start] = s[j]
      BY <1>5, <3>1 DEF OnPage
    <3> QED BY <1>7, <2>1, <3>1, <3>2 DEF Elements
  <2>5. CASE ~(j <= start + PageSize)
    <3>0. start + PageSize < j /\ j <= Len(s) /\ start + PageSize \in Nat /\ j \in Nat
      BY <1>1, <1>2, <1>3, <2>1, <2>5
    <3>1. next < Len(s) /\ p.next = next /\ next < j
      BY <1>1, <1>3, <1>4, <3>0
    <3>2. next # None
      <4>1. Len(s) \in 0 .. MaxRecords
        BY MatchingSays, FewRecords DEF s
      <4> QED BY <1>2, <1>3, <3>1, <4>1
    <3> QED BY <2>2, <3>1, <3>2, WorldSays DEF Left
  <2> QED BY <1>2, <1>3, <2>1, <2>4, <2>5
<1>10. \A r \in Elements(page) : from # None => Left(World, r, from, f)
  BY <1>3, <1>8, WorldSays DEF Left
<1>11. p.next # None => /\ \A r \in Elements(page) : Pos(World, r, f) <= p.next
                        /\ from # None => from <= p.next
  BY <1>2, <1>3, <1>4, <1>8
<1> QED BY <1>4, <1>9, <1>10, <1>11 DEF LogServed

LEMMA TokenLogs ==
    ASSUME NEW f, NEW from \in ListCursors, shelf \in Seq(RecordIds), Falling(shelf), Distinct(shelf),
           paging = "token", listName = "logs", NEW p \in ServedPages(f, from)
    PROVE LogServed(p, f, from)
<1> DEFINE s == Matching(f)
           keep == {r \in RecordIds : from = None \/ r < from}
           rest == Filtered(s, keep)
           page == FirstOf(rest, 0)
           final == IF page = << >> THEN None ELSE page[Len(page)]
<1>1. s \in Seq(RecordIds) /\ Falling(s) /\ Elements(s) = {r \in Elements(shelf) : Asks(World, r, f)}
  BY MatchingSays, WorldSays
<1>2. MaxRecords \in Nat /\ PageSize \in Nat \ {0} /\ None \notin 0 .. MaxRecords
  BY RecordsAssumption
<1>3. p \in {[page |-> page, next |-> n] : n \in IF Len(rest) > PageSize THEN {final} ELSE {final, None}}
  BY DEF ServedPages, TokenPages
<1>4. p.page = page /\ p.next \in {final, None} /\ (Len(rest) > PageSize => p.next = final)
  BY <1>3
<1> HIDE DEF s
<1>5. rest \in Seq(RecordIds) /\ Falling(rest) /\ Elements(rest) = Elements(s) \cap keep
  BY <1>1, FilteredSays, FilteredFalls
<1> HIDE DEF rest
<1>6. OnPage(page, rest, 0)
  BY <1>5, FirstOfSays
<1> HIDE DEF page
<1>7. /\ page \in Seq(RecordIds) /\ DOMAIN page = 1 .. Len(page) /\ Len(page) \in Nat
      /\ DOMAIN rest = 1 .. Len(rest) /\ Len(rest) \in Nat
      /\ \A i \in 1 .. Len(rest) : rest[i] \in RecordIds /\ rest[i] \in Nat
  BY <1>2, <1>5, <1>6 DEF OnPage, RecordIds
<1>8. \A i \in 1 .. Len(page) : i \in 1 .. Len(rest) /\ page[i] = rest[i]
  BY <1>6, <1>7 DEF OnPage
<1>9. page # << >> => Len(page) \in 1 .. Len(page) /\ final = rest[Len(page)] /\ final \in RecordIds /\ final # None
  <2> SUFFICES ASSUME page # << >> PROVE Len(page) \in 1 .. Len(page) /\ final = rest[Len(page)] /\ final \in RecordIds /\ final # None
    OBVIOUS
  <2>1. Len(page) \in 1 .. Len(page)
    BY <1>7
  <2> QED BY <1>2, <1>7, <1>8, <2>1 DEF RecordIds
<1>10. ASSUME NEW r \in Elements(page) PROVE r \in RecordIds /\ (from = None \/ r < from) /\ final <= r
  <2>1. PICK i \in 1 .. Len(page) : r = page[i]
    BY <1>7 DEF Elements
  <2>2. r = rest[i] /\ i \in 1 .. Len(rest)
    BY <1>8, <2>1
  <2>3. r \in keep
    BY <1>5, <1>7, <2>2 DEF Elements
  <2>4. final <= r
    <3>1. page # << >> /\ Len(page) \in 1 .. Len(rest)
      BY <1>7, <1>8, <2>1
    <3>2. CASE i = Len(page)
      BY <1>7, <1>9, <2>2, <3>1, <3>2
    <3>3. CASE i # Len(page)
      <4>0. Len(page) \in Nat
        BY <1>7
      <4>1. i < Len(page)
        BY <4>0, <2>1, <3>3
      <4> QED BY <1>5, <1>7, <1>9, <2>2, <3>1, <4>1 DEF Falling
    <3> QED BY <3>2, <3>3
  <2> QED BY <2>3, <2>4
<1>11. ASSUME NEW r \in Elements(shelf), Asks(World, r, f), from = None \/ Left(World, r, from, f)
      PROVE r \in Elements(page) \/ Left(World, r, p.next, f)
  <2>1. r \in Elements(rest)
    <3>1. r \in Elements(s) /\ r \in RecordIds
      BY <1>1, <1>11 DEF Elements
    <3>2. from = None \/ r < from
      BY <1>11, WorldSays DEF Left
    <3> QED BY <1>5, <3>1, <3>2
  <2>2. PICK j \in 1 .. Len(rest) : r = rest[j]
    BY <1>7, <2>1 DEF Elements
  <2>3. CASE j <= PageSize
    <3>1. j \in 1 .. Len(page)
      BY <1>2, <1>6, <2>2, <2>3 DEF OnPage
    <3> QED BY <1>7, <1>8, <2>2, <3>1 DEF Elements
  <2>4. CASE ~(j <= PageSize)
    <3>1. Len(rest) > PageSize /\ PageSize \in 1 .. Len(rest) /\ PageSize < j
      BY <1>2, <1>7, <2>2, <2>4
    <3>2. Len(page) = PageSize
      <4>1. PageSize - 0 \in 1 .. Len(page) /\ Len(page) <= PageSize
        BY <1>2, <1>6, <3>1 DEF OnPage
      <4>2. Len(page) \in Nat
        BY <1>7
      <4> QED BY <1>2, <4>1, <4>2
    <3>3. page # << >>
      BY <1>2, <1>7, <3>2
    <3>4. r < final
      BY <1>5, <1>7, <1>9, <2>2, <3>1, <3>2, <3>3 DEF Falling
    <3> QED BY <1>4, <1>9, <3>1, <3>3, <3>4, WorldSays DEF Left
  <2> QED BY <1>2, <2>2, <2>3, <2>4
<1>12. \A r \in Elements(page) : from # None => Left(World, r, from, f)
  BY <1>10, WorldSays DEF Left
<1>13. p.next # None => /\ \A r \in Elements(page) : p.next <= r
                        /\ from # None => p.next <= from
  <2> SUFFICES ASSUME p.next # None PROVE /\ \A r \in Elements(page) : p.next <= r
                                          /\ from # None => p.next <= from
    OBVIOUS
  <2>1. p.next = final /\ page # << >>
    BY <1>4
  <2>2. final \in Elements(page) /\ final \in RecordIds
    BY <1>7, <1>8, <1>9, <2>1 DEF Elements
  <2>3. from # None => final < from /\ from \in 0 .. MaxRecords
    BY <1>10, <2>2 DEF ListCursors
  <2> QED BY <1>2, <1>10, <2>1, <2>2, <2>3 DEF RecordIds
<1> QED BY <1>4, <1>11, <1>12, <1>13 DEF LogServed

RowsOf(page) == [i \in DOMAIN page |-> RowOf(page[i])]

LEMMA RowsSay ==
    ASSUME NEW page \in Seq(RecordIds), mark \in [RecordIds -> RecordMarks \cup {None}],
           \A r \in Elements(page) : Known(r)
    PROVE /\ RowsOf(page) \in Seq(Row) /\ DOMAIN RowsOf(page) = DOMAIN page
          /\ \A i \in DOMAIN page : RowsOf(page)[i].id = page[i] /\ RowsOf(page)[i].mark = mark[page[i]]
          /\ Ids(RowsOf(page)) = Elements(page)
          /\ Distinct(page) => Once(RowsOf(page))
<1> DEFINE rows == RowsOf(page)
<1>1. DOMAIN page = 1 .. Len(page) /\ Len(page) \in Nat
  OBVIOUS
<1>2. rows = [i \in 1 .. Len(page) |-> [id |-> page[i], mark |-> mark[page[i]]]]
  BY <1>1 DEF RowsOf, RowOf
<1>3. \A i \in 1 .. Len(page) : page[i] \in RecordIds /\ mark[page[i]] \in RecordMarks
  BY <1>1 DEF Known, Elements
<1> HIDE DEF rows
<1>4. rows \in Seq(Row)
  BY <1>1, <1>2, <1>3 DEF Row
<1>5. DOMAIN rows = DOMAIN page /\ \A i \in DOMAIN page : rows[i].id = page[i] /\ rows[i].mark = mark[page[i]]
  BY <1>1, <1>2
<1>6. Ids(rows) = Elements(page) /\ (Distinct(page) => Once(rows))
  BY <1>5 DEF Ids, Elements, Distinct, Once
<1> QED BY <1>4, <1>5, <1>6 DEF rows

LEMMA ConcatSays ==
    ASSUME NEW u \in Seq(Row), NEW v \in Seq(Row)
    PROVE /\ u \o v \in Seq(Row)
          /\ \A i \in DOMAIN (u \o v) : \/ i \in DOMAIN u /\ (u \o v)[i] = u[i]
                                        \/ i - Len(u) \in DOMAIN v /\ (u \o v)[i] = v[i - Len(u)] /\ ~(i \in DOMAIN u)
          /\ Ids(u \o v) = Ids(u) \cup Ids(v)
          /\ Once(u) /\ Once(v) /\ Ids(u) \cap Ids(v) = {} => Once(u \o v)
<1> DEFINE s == u \o v
<1>1. s \in Seq(Row) /\ Len(s) = Len(u) + Len(v) /\ Len(u) \in Nat /\ Len(v) \in Nat
  OBVIOUS
<1>2. DOMAIN s = 1 .. Len(u) + Len(v) /\ DOMAIN u = 1 .. Len(u) /\ DOMAIN v = 1 .. Len(v)
  OBVIOUS
<1>3. \A i \in 1 .. Len(u) + Len(v) : s[i] = IF i <= Len(u) THEN u[i] ELSE v[i - Len(u)]
  OBVIOUS
<1> HIDE DEF s
<1>4. \A i \in DOMAIN s : \/ i \in DOMAIN u /\ s[i] = u[i]
                          \/ i - Len(u) \in DOMAIN v /\ s[i] = v[i - Len(u)] /\ ~(i \in DOMAIN u)
  BY <1>1, <1>2, <1>3
<1>5. (\A i \in DOMAIN u : i \in DOMAIN s /\ s[i] = u[i]) /\ \A i \in DOMAIN v : i + Len(u) \in DOMAIN s /\ s[i + Len(u)] = v[i]
  <2>1. ASSUME NEW i \in DOMAIN u PROVE i \in DOMAIN s /\ s[i] = u[i]
    BY <1>1, <1>2, <1>3
  <2>2. ASSUME NEW i \in DOMAIN v PROVE i + Len(u) \in DOMAIN s /\ s[i + Len(u)] = v[i]
    <3>1. i + Len(u) \in 1 .. Len(u) + Len(v) /\ ~(i + Len(u) <= Len(u)) /\ (i + Len(u)) - Len(u) = i
      BY <1>1, <1>2
    <3> QED BY <1>2, <1>3, <3>1
  <2> QED BY <2>1, <2>2
<1>6. Ids(s) = Ids(u) \cup Ids(v)
  <2>1. Ids(s) \subseteq Ids(u) \cup Ids(v)
    BY <1>4 DEF Ids
  <2>2. Ids(u) \cup Ids(v) \subseteq Ids(s)
    BY <1>5 DEF Ids
  <2> QED BY <2>1, <2>2
<1>7. ASSUME Once(u), Once(v), Ids(u) \cap Ids(v) = {}, NEW i \in DOMAIN s, NEW j \in DOMAIN s, i # j PROVE s[i].id # s[j].id
  <2>1. i \in Nat /\ j \in Nat /\ (i - Len(u) # j - Len(u))
    BY <1>1, <1>2, <1>7
  <2>2. \A k \in DOMAIN u : u[k].id \in Ids(u)
    BY DEF Ids
  <2>3. \A k \in DOMAIN v : v[k].id \in Ids(v)
    BY DEF Ids
  <2> QED BY <1>4, <1>7, <2>1, <2>2, <2>3 DEF Once
<1>8. Once(u) /\ Once(v) /\ Ids(u) \cap Ids(v) = {} => Once(s)
  BY <1>7 DEF Once
<1> QED BY <1>1, <1>4, <1>6, <1>8 DEF s

LEMMA IdsAreRecords == ASSUME NEW rows \in Seq(Row) PROVE \A r \in Ids(rows) : r \in RecordIds
<1>1. \A i \in DOMAIN rows : rows[i] \in Row
  OBVIOUS
<1>2. \A i \in DOMAIN rows : rows[i].id \in RecordIds
  BY <1>1 DEF Row
<1> QED BY <1>2 DEF Ids

LEMMA FirstPageShows ==
    ASSUME RecordsTypeOK, ShelfInv, changing = None,
           NEW p \in ServedPages(asking, None), NEW more,
           NEW due, due = IF listName = "logs" THEN Elements(Matching(asking)) ELSE Elements(p.page)
    PROVE ShowsRight(World, RowsOf(p.page), IF listName = "logs" THEN p.next ELSE None, due, more)
<1> DEFINE rows == RowsOf(p.page)
<1>1. /\ shelf \in Seq(RecordIds) /\ Distinct(shelf) /\ paging \in {"offset", "token"}
      /\ mark \in [RecordIds -> RecordMarks \cup {None}] /\ \A r \in Elements(shelf) : Known(r)
      /\ listName = "logs" => Falling(shelf)
  BY DEF RecordsTypeOK, ShelfInv
<1>2. Served(p, asking)
  BY <1>1, ServedSays DEF ListCursors
<1>3. p.page \in Seq(RecordIds) /\ Distinct(p.page) /\ \A r \in Elements(p.page) : r \in Elements(shelf) /\ Fits(r, asking) /\ Known(r)
  BY <1>1, <1>2 DEF Served
<1>4. /\ DOMAIN rows = DOMAIN p.page /\ Ids(rows) = Elements(p.page) /\ Once(rows)
      /\ \A i \in DOMAIN p.page : rows[i].id = p.page[i] /\ rows[i].mark = mark[p.page[i]]
  BY <1>1, <1>3, RowsSay
<1> HIDE DEF rows
<1>5. RowsRight(World, rows, due)
  <2>1. \A i \in DOMAIN rows : rows[i].id \in Elements(p.page) /\ rows[i].mark = mark[rows[i].id]
    BY <1>4 DEF Elements
  <2> QED BY <1>3, <2>1, WorldSays DEF RowsRight
<1>6. CASE listName = "logs"
  <2>1. LogServed(p, asking, None)
    BY <1>1, <1>6, OffsetLogs, TokenLogs DEF ListCursors
  <2>2. due = {r \in Elements(shelf) : Fits(r, asking)}
    BY <1>1, <1>6, MatchingSays
  <2>3. PagesGoOn(World, rows, p.next, due, more)
    BY <1>1, <1>4, <2>1, <2>2, WorldSays DEF PagesGoOn, LogServed
  <2> QED BY <1>4, <1>5, <1>6, <2>3, WorldSays DEF ShowsRight, rows
<1>7. CASE listName # "logs"
  BY <1>4, <1>5, <1>7, WorldSays DEF ShowsRight, rows
<1> QED BY <1>6, <1>7

LEMMA NextPageShows ==
    ASSUME RecordsTypeOK, ShelfInv, changing = None, listName = "logs", NEW from \in ListCursors, from # None,
           NEW p \in ServedPages(asking, from), ShowsRight(World, visible, from, owed, grown)
    PROVE ShowsRight(World, visible \o RowsOf(p.page), p.next, owed, grown)
<1> DEFINE rows == RowsOf(p.page)
           all == visible \o rows
<1>1. /\ shelf \in Seq(RecordIds) /\ Distinct(shelf) /\ paging \in {"offset", "token"} /\ visible \in Seq(Row)
      /\ mark \in [RecordIds -> RecordMarks \cup {None}] /\ \A r \in Elements(shelf) : Known(r)
      /\ Falling(shelf) /\ Len(visible) \in Nat
  BY DEF RecordsTypeOK, ShelfInv
<1>2. Served(p, asking)
  BY <1>1, ServedSays
<1>3. p.page \in Seq(RecordIds) /\ Distinct(p.page) /\ \A r \in Elements(p.page) : r \in Elements(shelf) /\ Fits(r, asking) /\ Known(r)
  BY <1>1, <1>2 DEF Served
<1>4. /\ DOMAIN rows = DOMAIN p.page /\ Ids(rows) = Elements(p.page) /\ Once(rows) /\ rows \in Seq(Row)
      /\ \A i \in DOMAIN p.page : rows[i].id = p.page[i] /\ rows[i].mark = mark[p.page[i]]
  BY <1>1, <1>3, RowsSay
<1>5. LogServed(p, asking, from)
  BY <1>1, OffsetLogs, TokenLogs
<1> HIDE DEF rows
<1>6. /\ \A i \in DOMAIN all : \/ i \in DOMAIN visible /\ all[i] = visible[i]
                               \/ i - Len(visible) \in DOMAIN rows /\ all[i] = rows[i - Len(visible)]
      /\ Ids(all) = Ids(visible) \cup Ids(rows)
      /\ Once(visible) /\ Once(rows) /\ Ids(visible) \cap Ids(rows) = {} => Once(all)
  BY <1>1, <1>4, ConcatSays
<1> HIDE DEF all
<1>7. RowsRight(World, all, owed)
  <2>1. \A i \in DOMAIN rows : rows[i].mark = mark[rows[i].id] /\ Fits(rows[i].id, asking)
    <3>1. \A i \in DOMAIN rows : rows[i].id \in Elements(p.page) /\ rows[i].mark = mark[rows[i].id]
      BY <1>4 DEF Elements
    <3> QED BY <1>3, <3>1
  <2>2. RowsRight(World, visible, owed)
    BY DEF ShowsRight
  <2> QED BY <1>6, <2>1, <2>2, WorldSays DEF RowsRight
<1>8. PagesGoOn(World, visible, from, owed, grown)
  BY WorldSays DEF ShowsRight
<1>9. MaxRecords \in Nat /\ PageSize \in Nat \ {0} /\ None \notin 0 .. MaxRecords /\ from \in Nat
  BY RecordsAssumption DEF ListCursors
<1>10. \A r \in Ids(visible) \cup Ids(rows) : r \in Nat /\ r \in RecordIds
  <2>1. \A r \in Ids(visible) : r \in RecordIds
    BY <1>1, IdsAreRecords
  <2>2. \A r \in Ids(rows) : r \in RecordIds
    BY <1>4, IdsAreRecords
  <2> QED BY <1>9, <2>1, <2>2 DEF RecordIds
<1>11. \A r : Pos(World, r, asking) \in Nat
  <2> TAKE r
  <2>1. IsFiniteSet(Elements(shelf))
    BY <1>1, CountDistinct
  <2>2. {q \in Elements(World.shelf) : Asks(World, q, asking) /\ r <= q} \in SUBSET Elements(shelf)
    BY WorldSays
  <2>3. IsFiniteSet({q \in Elements(World.shelf) : Asks(World, q, asking) /\ r <= q})
    BY <2>1, <2>2, FS_Subset
  <2> QED BY <2>3, FS_CardinalityType DEF Pos
<1>12. p.next # None => p.next \in Nat
  BY <1>2, <1>9 DEF Served, ListCursors
<1>13. PagesGoOn(World, all, p.next, owed, grown)
  <2>1. \A r \in owed : r \in Elements(shelf) /\ Asks(World, r, asking)
    BY <1>8, WorldSays DEF PagesGoOn
  <2>2. \A r \in owed \ Ids(all) : Left(World, r, p.next, asking)
    BY <1>4, <1>5, <1>6, <1>8, <2>1, WorldSays DEF PagesGoOn, LogServed
  <2>3. p.next # None /\ paging = "token" => \A r \in Ids(all) : p.next <= r
    BY <1>4, <1>5, <1>6, <1>8, <1>9, <1>10, <1>12, WorldSays DEF PagesGoOn, LogServed
  <2>4. p.next # None /\ paging # "token" /\ ~grown => \A r \in Ids(all) : Pos(World, r, asking) <= p.next
    BY <1>4, <1>5, <1>6, <1>8, <1>9, <1>11, <1>12, WorldSays DEF PagesGoOn, LogServed
  <2> QED BY <2>1, <2>2, <2>3, <2>4, WorldSays DEF PagesGoOn
<1>14. Once(all) \/ (grown /\ paging = "offset")
  <2> SUFFICES ASSUME ~(grown /\ paging = "offset") PROVE Once(all)
    OBVIOUS
  <2>1. Once(visible)
    BY WorldSays DEF ShowsRight
  <2>2. ASSUME NEW r \in Ids(visible), r \in Ids(rows) PROVE FALSE
    <3>1. Left(World, r, from, asking)
      BY <1>4, <1>5, <2>2 DEF LogServed
    <3>2. CASE paging = "token"
      <4>1. r < from /\ from <= r
        BY <1>8, <3>1, <3>2, WorldSays DEF PagesGoOn, Left
      <4> QED BY <1>9, <1>10, <4>1
    <3>3. CASE paging # "token"
      <4>1. from < Pos(World, r, asking) /\ Pos(World, r, asking) <= from
        BY <1>1, <1>8, <3>1, <3>3, WorldSays DEF PagesGoOn, Left
      <4> QED BY <1>9, <1>11, <4>1
    <3> QED BY <3>2, <3>3
  <2> QED BY <1>4, <1>6, <2>1, <2>2
<1> QED BY <1>7, <1>13, <1>14, WorldSays DEF ShowsRight, all, rows

----------------------------------------------------------------------------
(* The lists: every step *)

LEMMA LoadFields == ASSUME NEW a \in Load
    PROVE /\ a # None
          /\ a = [ filter |-> a.filter, append |-> a.append, from |-> a.from, alone |-> a.alone, grown |-> a.grown,
                   owed |-> a.owed, answered |-> a.answered, page |-> a.page, next |-> a.next ]
          /\ a.filter \in ListFilters /\ a.append \in BOOLEAN /\ a.from \in ListCursors /\ a.alone \in BOOLEAN
          /\ a.grown \in BOOLEAN /\ a.owed \subseteq RecordIds /\ a.answered \in BOOLEAN /\ a.page \in Seq(Row)
          /\ a.next \in ListCursors
  BY LoadAssumption DEF Load

Answered(b, a, n, q, d) == b = [a EXCEPT !.answered = TRUE, !.next = n, !.page = q, !.owed = d]
Beside(b, a, g) == b = [a EXCEPT !.alone = g]
Grown(b, a, g) == b = [a EXCEPT !.grown = g]

LEMMA LoadAnswer ==
    ASSUME NEW a \in Load, NEW d \in SUBSET RecordIds, NEW q \in Seq(Row), NEW n \in ListCursors,
           NEW b, Answered(b, a, n, q, d)
    PROVE /\ b \in Load
          /\ b.append = a.append /\ b.from = a.from /\ b.alone = a.alone /\ b.filter = a.filter /\ b.grown = a.grown
          /\ b.owed = d /\ b.answered /\ b.page = q /\ b.next = n
  BY DEF Load, Answered, Beside, Grown

LEMMA LoadBeside ==
    ASSUME NEW a \in Load, NEW g \in BOOLEAN, NEW b, Beside(b, a, g)
    PROVE /\ b \in Load
          /\ b.append = a.append /\ b.from = a.from /\ b.alone = g /\ b.filter = a.filter /\ b.grown = a.grown
          /\ b.owed = a.owed /\ b.answered = a.answered /\ b.page = a.page /\ b.next = a.next
  BY DEF Load, Answered, Beside, Grown

LEMMA LoadGrown ==
    ASSUME NEW a \in Load, NEW g \in BOOLEAN, NEW b, Grown(b, a, g)
    PROVE /\ b \in Load
          /\ b.append = a.append /\ b.from = a.from /\ b.alone = a.alone /\ b.filter = a.filter /\ b.grown = g
          /\ b.owed = a.owed /\ b.answered = a.answered /\ b.page = a.page /\ b.next = a.next
  BY DEF Load, Answered, Beside, Grown

LEMMA LoadServedKeeps == ASSUME RecordsInv, NEW l \in Loads, LoadServed(l) PROVE RecordsInv'
<1> DEFINE a == loads[l]
<1>1. /\ a \in Load /\ a.from \in ListCursors /\ ~a.answered /\ a # None
      /\ UNCHANGED <<listName, paging, shelf, mark, asking, visible, nextPage, loading, changing, muddled, grown, owed, spent>>
  BY LoadFields DEF LoadServed, RecordsInv, RecordsTypeOK
<1>2. PICK p \in ServedPages(a.filter, a.from) :
         loads' = [loads EXCEPT ![l].answered = TRUE, ![l].next = p.next,
                     ![l].page = [i \in DOMAIN p.page |-> RowOf(p.page[i])],
                     ![l].owed = IF listName = "logs" THEN Elements(Matching(a.filter)) ELSE Elements(p.page)]
  BY DEF LoadServed
<1> DEFINE due == IF listName = "logs" THEN Elements(Matching(a.filter)) ELSE Elements(p.page)
<1>3. /\ shelf \in Seq(RecordIds) /\ Distinct(shelf) /\ paging \in {"offset", "token"}
      /\ mark \in [RecordIds -> RecordMarks \cup {None}] /\ \A r \in Elements(shelf) : Known(r)
      /\ loads \in [Loads -> Load \cup {None}]
  BY DEF RecordsInv, RecordsTypeOK, ShelfInv
<1>4. Served(p, a.filter)
  BY <1>1, <1>3, ServedSays
<1>5. p.page \in Seq(RecordIds) /\ p.next \in ListCursors /\ \A r \in Elements(p.page) : Known(r)
  BY <1>3, <1>4 DEF Served
<1>6. RowsOf(p.page) \in Seq(Row) /\ Ids(RowsOf(p.page)) = Elements(p.page)
  BY <1>3, <1>5, RowsSay
<1>7. due \subseteq RecordIds
  <2>1. Elements(shelf) \subseteq RecordIds /\ Elements(p.page) \subseteq RecordIds
    BY <1>3, <1>5 DEF Elements
  <2> QED BY <1>3, <2>1, MatchingSays
<1>9. PICK b : b = [a EXCEPT !.answered = TRUE, !.next = p.next, !.page = RowsOf(p.page), !.owed = due]
  OBVIOUS
<1>18. loads' = [loads EXCEPT ![l] = b]
  BY <1>2, <1>3, <1>9 DEF RowsOf
<1> HIDE DEF due
<1>8. /\ b \in Load
      /\ b.append = a.append /\ b.from = a.from /\ b.alone = a.alone /\ b.filter = a.filter /\ b.grown = a.grown
      /\ b.owed = due /\ b.answered /\ b.page = RowsOf(p.page) /\ b.next = p.next
  <2>1. a \in Load /\ due \in SUBSET RecordIds /\ RowsOf(p.page) \in Seq(Row) /\ p.next \in ListCursors
    BY <1>1, <1>5, <1>6, <1>7
  <2>2. Answered(b, a, p.next, RowsOf(p.page), due)
    BY <1>9 DEF Answered
  <2> QED BY <2>1, <2>2, LoadAnswer
<1>10. /\ loads'[l] = b /\ \A k \in Loads : k # l => loads'[k] = loads[k]
       /\ loads' \in [Loads -> Load \cup {None}] /\ b # None
  BY <1>3, <1>8, <1>18, LoadFields
<1>12. RecordsTypeOK'
  BY <1>1, <1>10 DEF RecordsInv, RecordsTypeOK
<1>13. Settled' <=> Settled
  BY <1>1, <1>10, <1>8 DEF Settled
<1>14. World' = World
  BY <1>1 DEF World
<1>15. ShelfInv' /\ ChangeInv' /\ (\A r \in Ids(visible) : Known(r))' /\ (listName # "logs" => nextPage = None)'
       /\ (Settled => ShowsRight(World, visible, nextPage, owed, grown))'
  <2>1. ShelfInv'
    BY <1>1 DEF RecordsInv, ShelfInv, Known
  <2>2. ChangeInv'
    BY <1>1, <1>13 DEF RecordsInv, ChangeInv, Known, New
  <2> QED BY <1>1, <1>13, <1>14, <2>1, <2>2 DEF RecordsInv, Known
<1>16. ASSUME NEW k \in Loads, k # l PROVE LoadInv(k)'
  <2>1. CASE loads[k] = None
    BY <1>10, <1>16, <2>1 DEF LoadInv
  <2>2. CASE loads[k] # None
    <3>1. LoadInv(k) /\ ~loads[k].alone
      BY <1>1, <1>16, <2>2 DEF RecordsInv, LoadInv
    <3> QED BY <1>1, <1>10, <1>16, <2>2, <3>1 DEF LoadInv, Known
  <2> QED BY <2>1, <2>2
<1>17. LoadInv(l)'
  <2>1. LoadInv(l) /\ ShelfInv /\ RecordsTypeOK
    BY DEF RecordsInv
  <2>2. \A r \in Ids(b.page) : Known(r)'
    BY <1>1, <1>5, <1>6, <1>8 DEF Known
  <2>3. ASSUME b.alone, ~b.append
        PROVE ShowsRight(World, b.page, IF listName = "logs" THEN b.next ELSE None, b.owed, b.grown)
    <3>1. a.filter = asking /\ a.from = None /\ changing = None
      BY <1>1, <1>8, <2>1, <2>3 DEF LoadInv
    <3> QED BY <1>8, <2>1, <3>1, FirstPageShows DEF due
  <2>4. ASSUME b.alone, b.append, ~muddled
        PROVE ShowsRight(World, visible \o b.page, IF listName = "logs" THEN b.next ELSE None, owed, grown)
    <3>1. /\ a.filter = asking /\ a.from = nextPage /\ a.from # None /\ changing = None /\ listName = "logs"
          /\ \A k \in Loads : k # l => loads[k] = None
      BY <1>1, <1>8, <2>1, <2>4 DEF LoadInv
    <3>2. Settled
      BY <1>8, <2>4, <3>1 DEF Settled
    <3>3. ShowsRight(World, visible, a.from, owed, grown)
      BY <3>1, <3>2 DEF RecordsInv
    <3> QED BY <1>1, <1>8, <2>1, <3>1, <3>3, NextPageShows
  <2> QED BY <1>1, <1>10, <1>8, <1>14, <2>1, <2>2, <2>3, <2>4 DEF LoadInv, NextOf
<1> QED BY <1>12, <1>15, <1>16, <1>17 DEF RecordsInv

LEMMA OneLoadGone ==
    ASSUME RecordsInv, NEW l \in Loads, loads[l] # None, loads' = [loads EXCEPT ![l] = None],
           UNCHANGED <<mark, listName>>, NEW k \in Loads
    PROVE /\ loads' \in [Loads -> Load \cup {None}]
          /\ LoadInv(k)'
          /\ k # l => loads'[k] = loads[k]
<1>1. loads \in [Loads -> Load \cup {None}]
  BY DEF RecordsInv, RecordsTypeOK
<1>2. loads' \in [Loads -> Load \cup {None}] /\ loads'[l] = None /\ (k # l => loads'[k] = loads[k])
  BY <1>1
<1>3. CASE k = l
  BY <1>2, <1>3 DEF LoadInv
<1>4. CASE k # l /\ loads[k] = None
  BY <1>2, <1>4 DEF LoadInv
<1>5. CASE k # l /\ loads[k] # None
  <2>1. LoadInv(k) /\ ~loads[k].alone
    BY <1>5 DEF RecordsInv, LoadInv
  <2> QED BY <1>2, <1>5, <2>1 DEF LoadInv, Known
<1> QED BY <1>2, <1>3, <1>4, <1>5

LEMMA LoadArrivesKeeps == ASSUME RecordsInv, NEW l \in Loads, LoadArrives(l) PROVE RecordsInv'
<1> DEFINE a == loads[l]
<1>1. /\ a # None /\ a.answered /\ a \in Load
      /\ visible' = IF a.append THEN visible \o a.page ELSE a.page
      /\ nextPage' = IF listName = "logs" THEN a.next ELSE None
      /\ IF a.append THEN grown' = grown /\ owed' = owed ELSE grown' = a.grown /\ owed' = a.owed
      /\ muddled' = (~a.alone \/ (a.append /\ muddled))
      /\ loads' = [loads EXCEPT ![l] = None] /\ loading' = FALSE
      /\ UNCHANGED <<listName, paging, shelf, mark, asking, changing, spent>>
  BY DEF LoadArrives, RecordsInv, RecordsTypeOK
<1>2. a.append \in BOOLEAN /\ a.page \in Seq(Row) /\ a.next \in ListCursors /\ a.grown \in BOOLEAN /\ a.owed \subseteq RecordIds /\ a.alone \in BOOLEAN
  BY <1>1, LoadFields
<1>3. RecordsTypeOK /\ visible \in Seq(Row) /\ muddled \in BOOLEAN /\ grown \in BOOLEAN /\ owed \subseteq RecordIds
  BY DEF RecordsInv, RecordsTypeOK
<1>4. LoadInv(l) /\ \A r \in Ids(a.page) : Known(r)
  BY <1>1 DEF RecordsInv, LoadInv
<1>5. /\ visible' \in Seq(Row)
      /\ Ids(visible)' = IF a.append THEN Ids(visible) \cup Ids(a.page) ELSE Ids(a.page)
  <2>1. Ids(visible \o a.page) = Ids(visible) \cup Ids(a.page) /\ visible \o a.page \in Seq(Row)
    BY <1>2, <1>3, ConcatSays
  <2>2. Ids(visible)' = Ids(visible')
    BY DEF Ids
  <2> QED BY <1>1, <1>2, <2>1, <2>2
<1>6. \A k \in Loads : LoadInv(k)'
  BY <1>1, OneLoadGone
<1>7. loads' \in [Loads -> Load \cup {None}]
  BY <1>1, OneLoadGone
<1>8. RecordsTypeOK'
  <2>1. muddled' \in BOOLEAN /\ grown' \in BOOLEAN /\ owed' \subseteq RecordIds /\ nextPage' \in ListCursors
    BY <1>1, <1>2, <1>3 DEF ListCursors
  <2> QED BY <1>1, <1>3, <1>5, <1>7, <2>1 DEF RecordsTypeOK
<1>9. World' = World
  BY <1>1 DEF World
<1>10. ASSUME Settled' PROVE ShowsRight(World, visible, nextPage, owed, grown)'
  <2>1. a.alone /\ ~(a.append /\ muddled)
    BY <1>1, <1>10 DEF Settled
  <2>2. CASE ~a.append
    <3>1. ShowsRight(World, a.page, NextOf(l), a.owed, a.grown)
      BY <1>1, <1>4, <2>1, <2>2 DEF LoadInv
    <3> QED BY <1>1, <1>9, <2>2, <3>1 DEF NextOf
  <2>3. CASE a.append
    <3>1. ShowsRight(World, visible \o a.page, NextOf(l), owed, grown)
      BY <1>1, <1>4, <2>1, <2>3 DEF LoadInv
    <3> QED BY <1>1, <1>9, <2>3, <3>1 DEF NextOf
  <2> QED BY <1>2, <2>2, <2>3
<1>11. ChangeInv'
  <2>1. CASE changing = None
    BY <1>1, <2>1 DEF ChangeInv
  <2>2. CASE changing # None
    <3>1. ~a.alone
      BY <1>1, <1>4, <2>2 DEF LoadInv
    <3>2. ~Settled'
      BY <1>1, <3>1 DEF Settled
    <3>3. ChangeInv
      BY DEF RecordsInv
    <3> QED BY <1>1, <2>2, <3>2, <3>3 DEF ChangeInv, Known, New
  <2> QED BY <2>1, <2>2
<1>12. ShelfInv'
  BY <1>1 DEF RecordsInv, ShelfInv, Known
<1>13. (\A r \in Ids(visible) : Known(r))' /\ (listName # "logs" => nextPage = None)'
  BY <1>1, <1>4, <1>5 DEF RecordsInv, Known
<1> QED BY <1>6, <1>8, <1>10, <1>11, <1>12, <1>13 DEF RecordsInv

LEMMA LoadFailsKeeps == ASSUME RecordsInv, NEW l \in Loads, LoadFails(l) PROVE RecordsInv'
<1>1. /\ loads[l] # None /\ loads[l] \in Load /\ loads \in [Loads -> Load \cup {None}]
      /\ muddled' = (muddled \/ ~loads[l].append) /\ loads' = [loads EXCEPT ![l] = None] /\ loading' = FALSE
      /\ UNCHANGED <<listName, paging, shelf, mark, asking, visible, nextPage, changing, grown, owed>>
  BY DEF LoadFails, RecordsInv, RecordsTypeOK
<1>2. \A k \in Loads : LoadInv(k)'
  BY <1>1, OneLoadGone
<1>3. loads' \in [Loads -> Load \cup {None}] /\ \A k \in Loads : k # l => loads'[k] = loads[k]
  BY <1>1, OneLoadGone
<1>4. Settled' => Settled
  BY <1>1, <1>3 DEF Settled
<1>5. World' = World
  BY <1>1 DEF World
<1>6. RecordsTypeOK'
  <2>1. muddled' \in BOOLEAN /\ loading' \in BOOLEAN
    BY <1>1, LoadFields DEF RecordsInv, RecordsTypeOK
  <2> QED BY <1>1, <1>3, <2>1 DEF RecordsInv, RecordsTypeOK
<1>7. ShelfInv'
  BY <1>1 DEF RecordsInv, ShelfInv, Known
<1>8. ChangeInv'
  BY <1>1, <1>4 DEF RecordsInv, ChangeInv, Known, New
<1> QED BY <1>1, <1>2, <1>4, <1>5, <1>6, <1>7, <1>8 DEF RecordsInv, Known

LEMMA AskedSays ==
    ASSUME NEW f \in ListFilters, NEW append \in BOOLEAN, NEW from \in ListCursors, NEW g \in BOOLEAN,
           NEW b, Beside(b, Asked(f, append, from), g)
    PROVE /\ b \in Load /\ b # None
          /\ b.append = append /\ b.from = from /\ b.alone = g /\ b.filter = f /\ ~b.answered /\ b.page = << >>
<1>1. Asked(f, append, from) \in Load
  BY DEF Asked, Load, ListCursors
<1>2. b \in Load /\ b.append = append /\ b.from = from /\ b.alone = g /\ b.filter = f /\ ~b.answered /\ b.page = << >>
  BY <1>1, LoadBeside DEF Asked
<1> QED BY <1>2, LoadAssumption

LEMMA StartsKeeps ==
    ASSUME RecordsInv, NEW f \in ListFilters, NEW append \in BOOLEAN, NEW from \in ListCursors,
           Starts(Asked(f, append, from)), asking' = f,
           append => listName = "logs" /\ from = nextPage /\ from # None /\ f = asking,
           ~append => from = None,
           UNCHANGED <<listName, paging, shelf, mark, visible, nextPage, changing, muddled, grown, owed>>
    PROVE RecordsInv'
<1>1. loads \in [Loads -> Load \cup {None}]
  BY DEF RecordsInv, RecordsTypeOK
<1>2. PICK n \in Loads :
        /\ loads[n] = None
        /\ loads' = [l \in Loads |->
                       IF l = n THEN [Asked(f, append, from) EXCEPT !.alone = Quiet]
                       ELSE IF loads[l] = None THEN None ELSE [loads[l] EXCEPT !.alone = FALSE]]
        /\ loading' = TRUE
  BY DEF Starts
<1>3. Quiet \in BOOLEAN
  BY DEF Quiet
<1>4. /\ loads'[n] \in Load /\ loads'[n] # None
      /\ loads'[n].append = append /\ loads'[n].from = from /\ loads'[n].alone = Quiet
      /\ loads'[n].filter = f /\ ~loads'[n].answered /\ loads'[n].page = << >>
  <2>1. Beside(loads'[n], Asked(f, append, from), Quiet)
    BY <1>2 DEF Beside
  <2> QED BY <1>3, <2>1, AskedSays
<1>5. ASSUME NEW k \in Loads, k # n
      PROVE IF loads[k] = None THEN loads'[k] = None
            ELSE /\ loads'[k] \in Load /\ loads'[k] # None /\ loads'[k].append = loads[k].append
                 /\ loads'[k].from = loads[k].from /\ ~loads'[k].alone /\ loads'[k].page = loads[k].page
  <2>1. CASE loads[k] = None
    BY <1>2, <1>5, <2>1
  <2>2. CASE loads[k] # None
    <3>1. Beside(loads'[k], loads[k], FALSE) /\ loads[k] \in Load
      BY <1>1, <1>2, <1>5, <2>2 DEF Beside
    <3>2. loads'[k] \in Load /\ loads'[k].append = loads[k].append
                 /\ loads'[k].from = loads[k].from /\ loads'[k].alone = FALSE /\ loads'[k].page = loads[k].page
      BY <3>1 DEF Beside, Load
    <3> QED BY <2>2, <3>2, LoadAssumption
  <2> QED BY <2>1, <2>2
<1>6. loads' \in [Loads -> Load \cup {None}]
  <2>1. \A k \in Loads : loads'[k] \in Load \cup {None}
    BY <1>4, <1>5
  <2>2. loads' = [k \in Loads |-> loads'[k]]
    BY <1>2
  <2> QED BY <2>1, <2>2
<1>7. LoadInv(n)'
  <2>1. Ids(loads'[n].page) = {}
    BY <1>4 DEF Ids
  <2>2. Quiet => changing' = None /\ \A k \in Loads : k # n => loads'[k] = None
    BY <1>5 DEF Quiet
  <2> QED BY <1>4, <2>1, <2>2 DEF LoadInv
<1>8. ASSUME NEW k \in Loads, k # n PROVE LoadInv(k)'
  <2>1. LoadInv(k)
    BY DEF RecordsInv
  <2>2. CASE loads[k] = None
    BY <1>5, <1>8, <2>2 DEF LoadInv
  <2>3. CASE loads[k] # None
    BY <1>5, <1>8, <2>1, <2>3 DEF LoadInv, Known
  <2> QED BY <2>2, <2>3
<1>9. Settled' => append /\ Settled
  <2> SUFFICES ASSUME Settled' PROVE append /\ Settled
    OBVIOUS
  <2>1. append
    BY <1>4 DEF Settled
  <2>2. \A k \in Loads : loads[k] # None => loads[k].append
    BY <1>2, <1>5 DEF Settled
  <2> QED BY <2>1, <2>2 DEF Settled
<1>10. append => World' = World
  BY DEF World
<1>11. RecordsTypeOK'
  BY <1>2, <1>6 DEF RecordsInv, RecordsTypeOK
<1>12. ShelfInv'
  BY DEF RecordsInv, ShelfInv, Known
<1>13. ChangeInv'
  BY <1>9 DEF RecordsInv, ChangeInv, Known, New
<1> QED BY <1>7, <1>8, <1>9, <1>10, <1>11, <1>12, <1>13 DEF RecordsInv, Known

\* A record more, with a mark of its own.
More(w, v, r, m) ==
    /\ w.mark[r] = None /\ r \in RecordIds
    /\ v.shelf = <<r>> \o w.shelf /\ v.mark = [w.mark EXCEPT ![r] = m]
    /\ v.asking = w.asking /\ v.changing = w.changing /\ v.paging = w.paging /\ v.list = w.list
    /\ w.changing # None => w.changing.id # r

LEMMA ConsSays == ASSUME NEW S, NEW s \in Seq(S), NEW x \in S
    PROVE <<x>> \o s \in Seq(S) /\ Elements(<<x>> \o s) = {x} \cup Elements(s) /\ Len(<<x>> \o s) = Len(s) + 1
          /\ \A i \in 1 .. Len(s) + 1 : (<<x>> \o s)[i] = IF i = 1 THEN x ELSE s[i - 1]
<1> DEFINE t == <<x>> \o s
<1>1. t \in Seq(S) /\ Len(t) = Len(s) + 1 /\ Len(s) \in Nat /\ DOMAIN t = 1 .. Len(s) + 1 /\ DOMAIN s = 1 .. Len(s)
  OBVIOUS
<1>2. \A i \in 1 .. Len(s) + 1 : t[i] = IF i = 1 THEN x ELSE s[i - 1]
  OBVIOUS
<1> HIDE DEF t
<1>3. Elements(t) \subseteq {x} \cup Elements(s)
  <2> SUFFICES ASSUME NEW i \in 1 .. Len(s) + 1, i # 1 PROVE t[i] \in Elements(s)
    BY <1>1, <1>2 DEF Elements
  <2>1. i - 1 \in 1 .. Len(s)
    BY <1>1
  <2> QED BY <1>1, <1>2, <2>1 DEF Elements
<1>4. x \in Elements(t)
  <2>1. 1 \in 1 .. Len(s) + 1
    BY <1>1
  <2> QED BY <1>1, <1>2, <2>1 DEF Elements
<1>5. ASSUME NEW i \in 1 .. Len(s) PROVE s[i] \in Elements(t)
  <2>1. i + 1 \in 1 .. Len(s) + 1 /\ i + 1 # 1 /\ (i + 1) - 1 = i
    BY <1>1
  <2> QED BY <1>1, <1>2, <2>1 DEF Elements
<1>6. Elements(t) = {x} \cup Elements(s)
  BY <1>1, <1>3, <1>4, <1>5 DEF Elements
<1> QED BY <1>1, <1>2, <1>6 DEF t

LEMMA MoreShows ==
    ASSUME NEW w, NEW v, NEW r, NEW m, More(w, v, r, m), w.shelf \in Seq(RecordIds), Distinct(w.shelf),
           w.mark \in [RecordIds -> RecordMarks \cup {None}],
           \A q \in Elements(w.shelf) : w.mark[q] # None,
           NEW rows \in Seq(Row), \A q \in Ids(rows) : w.mark[q] # None,
           NEW nxt \in ListCursors, NEW due, NEW more, ShowsRight(w, rows, nxt, due, more),
           NEW most, most = TRUE
    PROVE ShowsRight(v, rows, nxt, due, most)
<1>1. \A q : q # r => v.mark[q] = w.mark[q]
  BY DEF More
<1>2. \A q, f : q # r => (Asks(v, q, f) <=> Asks(w, q, f))
  BY <1>1 DEF Asks
<1>3. \A q \in Ids(rows) \cup Elements(w.shelf) : q # r
  BY DEF More
<1>4. Elements(v.shelf) = {r} \cup Elements(w.shelf)
  BY ConsSays DEF More
<1>5. IsFiniteSet(Elements(w.shelf)) /\ IsFiniteSet(Elements(v.shelf))
  <2>1. IsFiniteSet(Elements(w.shelf))
    BY CountDistinct
  <2>2. Elements(v.shelf) = Elements(w.shelf) \cup {r}
    BY <1>4
  <2>3. IsFiniteSet(Elements(w.shelf) \cup {r})
    BY <2>1, FS_AddElement
  <2> QED BY <2>1, <2>2, <2>3
<1>6. ASSUME NEW q PROVE Pos(w, q, w.asking) \in Nat /\ Pos(v, q, w.asking) \in Nat /\ Pos(w, q, w.asking) <= Pos(v, q, w.asking)
  <2> DEFINE A == {x \in Elements(w.shelf) : Asks(w, x, w.asking) /\ q <= x}
             B == {x \in Elements(v.shelf) : Asks(v, x, w.asking) /\ q <= x}
  <2>1. A \in SUBSET B
    BY <1>2, <1>3, <1>4
  <2>2. B \in SUBSET Elements(v.shelf)
    OBVIOUS
  <2>3. IsFiniteSet(B)
    BY <1>5, <2>2, FS_Subset
  <2>4. IsFiniteSet(A) /\ Cardinality(A) <= Cardinality(B)
    BY <2>1, <2>3, FS_Subset
  <2>5. Cardinality(A) \in Nat /\ Cardinality(B) \in Nat
    BY <2>3, <2>4, FS_CardinalityType
  <2> QED BY <2>4, <2>5 DEF Pos
<1>7. \A q : Altered(v, q) <=> Altered(w, q)
  BY DEF Altered, More
<1>8. RowsRight(v, rows, due)
  <2>1. \A i \in DOMAIN rows : rows[i].id \in Ids(rows)
    BY DEF Ids
  <2>2. RowsRight(w, rows, due) /\ v.asking = w.asking
    BY DEF ShowsRight, More
  <2> QED BY <1>1, <1>2, <1>3, <1>7, <2>1, <2>2 DEF RowsRight
<1>9. w.list = "logs" => PagesGoOn(v, rows, nxt, due, most)
  <2> SUFFICES ASSUME w.list = "logs" PROVE PagesGoOn(v, rows, nxt, due, most)
    OBVIOUS
  <2>1. PagesGoOn(w, rows, nxt, due, more) /\ v.asking = w.asking /\ v.paging = w.paging
    BY DEF ShowsRight, More
  <2>2. \A q \in due : q \in Elements(w.shelf) /\ Asks(w, q, w.asking)
    BY <2>1 DEF PagesGoOn
  <2>3. \A q \in due : q \in Elements(v.shelf) /\ Asks(v, q, v.asking)
    BY <1>2, <1>3, <1>4, <2>1, <2>2
  <2>4. \A q \in due \ Ids(rows) : Left(v, q, nxt, v.asking)
    <3> TAKE q \in due \ Ids(rows)
    <3>1. Left(w, q, nxt, w.asking)
      BY <2>1 DEF PagesGoOn
    <3>2. nxt \in Nat
      BY <3>1, RecordsAssumption DEF Left, ListCursors
    <3> QED BY <1>6, <2>1, <3>1, <3>2 DEF Left
  <2> QED BY <2>1, <2>3, <2>4 DEF PagesGoOn
<1>10. v.list = w.list /\ v.paging = w.paging
  BY DEF More
<1> QED BY <1>8, <1>9, <1>10 DEF ShowsRight

LEMMA RecordAddedKeeps ==
    ASSUME RecordsInv, NEW r \in RecordIds, NEW m \in RecordMarks, RecordAdded(r, m)
    PROVE RecordsInv'
<1>1. /\ New(r) /\ (changing # None => changing.id # r)
      /\ shelf' = <<r>> \o shelf /\ mark' = [mark EXCEPT ![r] = m] /\ grown' = TRUE
      /\ loads' = [l \in Loads |-> IF loads[l] = None THEN None ELSE [loads[l] EXCEPT !.grown = loads[l].answered]]
      /\ UNCHANGED <<listName, paging, asking, visible, nextPage, loading, changing, muddled, owed>>
  BY DEF RecordAdded
<1>2. RecordsTypeOK /\ ShelfInv /\ ChangeInv /\ \A l \in Loads : LoadInv(l)
  BY DEF RecordsInv
<1>3. /\ shelf \in Seq(RecordIds) /\ mark \in [RecordIds -> RecordMarks \cup {None}] /\ visible \in Seq(Row)
      /\ nextPage \in ListCursors /\ loads \in [Loads -> Load \cup {None}]
  BY <1>2 DEF RecordsTypeOK
<1>4. Distinct(shelf) /\ \A q \in Elements(shelf) : mark[q] # None
  BY <1>2 DEF ShelfInv, Known
<1>5. mark[r] = None /\ m # None /\ mark'[r] = m /\ \A q : q # r => mark'[q] = mark[q]
  BY <1>1, <1>3, RecordsAssumption DEF New
<1>6. More(World, World', r, m)
  BY <1>1, <1>5 DEF More, World
<1>7. \A q : Known(q) => mark'[q] # None
  BY <1>5 DEF Known
<1>8. ASSUME NEW rows \in Seq(Row), \A q \in Ids(rows) : Known(q), NEW nxt \in ListCursors, NEW due, NEW more,
             ShowsRight(World, rows, nxt, due, more), NEW most, most = TRUE
      PROVE ShowsRight(World', rows, nxt, due, most)
  <2>1. \A q \in Ids(rows) : World.mark[q] # None
    BY <1>8, WorldSays DEF Known
  <2>2. /\ World.shelf \in Seq(RecordIds) /\ Distinct(World.shelf)
        /\ World.mark \in [RecordIds -> RecordMarks \cup {None}] /\ \A q \in Elements(World.shelf) : World.mark[q] # None
    BY <1>3, <1>4, WorldSays
  <2> QED BY <1>6, <1>8, <2>1, <2>2, MoreShows
<1>9. ASSUME NEW k \in Loads
      PROVE IF loads[k] = None THEN loads'[k] = None
            ELSE /\ loads[k] \in Load /\ loads'[k] \in Load /\ loads'[k] # None /\ loads'[k].append = loads[k].append
                 /\ loads'[k].from = loads[k].from /\ loads'[k].alone = loads[k].alone /\ loads'[k].filter = loads[k].filter
                 /\ loads'[k].page = loads[k].page /\ loads'[k].owed = loads[k].owed /\ loads'[k].next = loads[k].next
                 /\ loads'[k].answered = loads[k].answered /\ loads'[k].grown = loads[k].answered
  <2>1. CASE loads[k] = None
    BY <1>1, <2>1
  <2>2. CASE loads[k] # None
    <3>1. Grown(loads'[k], loads[k], loads[k].answered) /\ loads[k] \in Load
      BY <1>1, <1>3, <2>2 DEF Grown
    <3>2. loads[k].answered \in BOOLEAN
      BY <3>1, LoadFields
    <3> QED BY <2>2, <3>1, <3>2, LoadGrown, LoadAssumption
  <2> QED BY <2>1, <2>2
<1>10. loads' \in [Loads -> Load \cup {None}]
  <2>1. \A k \in Loads : loads'[k] \in Load \cup {None}
    BY <1>9
  <2>2. loads' = [k \in Loads |-> loads'[k]]
    BY <1>1
  <2> QED BY <2>1, <2>2
<1>11. <<r>> \o shelf \in Seq(RecordIds) /\ Elements(<<r>> \o shelf) = {r} \cup Elements(shelf) /\ Len(<<r>> \o shelf) = Len(shelf) + 1
          /\ \A i \in 1 .. Len(shelf) + 1 : (<<r>> \o shelf)[i] = IF i = 1 THEN r ELSE shelf[i - 1]
  BY <1>3, ConsSays
<1>12. RecordsTypeOK'
  <2>1. mark' \in [RecordIds -> RecordMarks \cup {None}]
    BY <1>1, <1>3
  <2> QED BY <1>1, <1>2, <1>10, <1>11, <2>1 DEF RecordsTypeOK
<1>13. ShelfInv'
  <2> DEFINE s == <<r>> \o shelf
  <2>1. DOMAIN s = 1 .. Len(shelf) + 1 /\ Len(shelf) \in Nat /\ DOMAIN shelf = 1 .. Len(shelf)
    BY <1>3
  <2> HIDE DEF s
  <2>2. \A i \in DOMAIN s : i # 1 => i - 1 \in DOMAIN shelf /\ s[i] = shelf[i - 1] /\ s[i] \in Elements(shelf)
    <3> SUFFICES ASSUME NEW i \in DOMAIN s, i # 1 PROVE i - 1 \in DOMAIN shelf /\ s[i] = shelf[i - 1] /\ s[i] \in Elements(shelf)
      OBVIOUS
    <3>1. i - 1 \in DOMAIN shelf /\ i \in 1 .. Len(shelf) + 1
      BY <2>1
    <3> QED BY <1>11, <3>1 DEF Elements, s
  <2>3. 1 \in DOMAIN s /\ s[1] = r
    BY <1>11, <2>1 DEF s
  <2>4. r \notin Elements(shelf) /\ \A q \in Elements(shelf) : q \in RecordIds /\ q < r
    <3>1. \A q \in Elements(shelf) : q \in RecordIds /\ q # r
      BY <1>3, <1>4, <1>5 DEF Elements
    <3>2. \A q \in RecordIds : r < q => mark[q] = None
      BY <1>2, <1>5 DEF ShelfInv, Known
    <3>3. \A q \in RecordIds : q < r \/ q = r \/ r < q
      BY RecordsAssumption DEF RecordIds
    <3> QED BY <1>4, <3>1, <3>2, <3>3
  <2>5. Distinct(s)
    <3> SUFFICES ASSUME NEW i \in DOMAIN s, NEW j \in DOMAIN s, i # j PROVE s[i] # s[j]
      BY DEF Distinct
    <3>1. i - 1 # j - 1
      BY <2>1
    <3> QED BY <1>4, <2>2, <2>3, <2>4, <3>1 DEF Distinct
  <2>6. listName = "logs" => Falling(s)
    <3> SUFFICES ASSUME Falling(shelf), NEW i \in DOMAIN s, NEW j \in DOMAIN s, i < j PROVE s[j] < s[i]
      BY <1>2 DEF Falling, ShelfInv
    <3>1. j # 1 /\ (i # 1 => i - 1 < j - 1)
      BY <2>1
    <3> QED BY <2>2, <2>3, <2>4, <3>1 DEF Falling
  <2>7. \A q, x \in RecordIds : q < x /\ mark'[x] # None => mark'[q] # None
    <3> SUFFICES ASSUME NEW q \in RecordIds, NEW x \in RecordIds, q < x, mark'[x] # None PROVE mark'[q] # None
      OBVIOUS
    <3>1. CASE x = r
      <4>1. q \in 1 .. r - 1
        BY <3>1, RecordsAssumption DEF RecordIds
      <4>2. mark[q] # None
        BY <1>1, <4>1 DEF New
      <4> QED BY <1>5, <4>2
    <3>2. CASE x # r
      <4>1. mark[q] # None
        BY <1>2, <1>5, <3>2 DEF ShelfInv, Known
      <4> QED BY <1>5, <4>1
    <3> QED BY <3>1, <3>2
  <2>8. \A q \in {r} \cup Elements(shelf) : mark'[q] # None
    BY <1>4, <1>5
  <2>9. shelf' = s /\ Elements(s) = {r} \cup Elements(shelf)
    BY <1>1, <1>11 DEF s
  <2> QED BY <1>1, <2>5, <2>6, <2>7, <2>8, <2>9 DEF ShelfInv, Known
<1>14. ~(changing # None /\ changing.does = "create" /\ ~changing.done)
  <2> SUFFICES ASSUME changing # None, changing.does = "create", ~changing.done PROVE FALSE
    OBVIOUS
  <2>1. New(changing.id) /\ changing.id # r /\ changing.id \in RecordIds
    BY <1>1, <1>2 DEF ChangeInv, RecordsTypeOK, Change
  <2>2. changing.id \in 1 .. r - 1 \/ r \in 1 .. changing.id - 1
    BY <2>1, RecordsAssumption DEF RecordIds
  <2> QED BY <1>1, <2>1, <2>2 DEF New
<1>15. Settled' <=> Settled
  <2>1. \A k \in Loads : (loads'[k] = None <=> loads[k] = None) /\ (loads[k] # None => loads'[k].append = loads[k].append)
    BY <1>9
  <2>2. muddled' = muddled
    BY <1>1
  <2> QED BY <2>1, <2>2 DEF Settled
<1>16. ChangeInv'
  BY <1>1, <1>2, <1>7, <1>14, <1>15 DEF ChangeInv, Known
<1>17. ASSUME Settled' PROVE ShowsRight(World, visible, nextPage, owed, grown)'
  <2>1. ShowsRight(World, visible, nextPage, owed, grown) /\ \A q \in Ids(visible) : Known(q)
    BY <1>15, <1>17 DEF RecordsInv
  <2>2. ShowsRight(World', visible, nextPage, owed, grown')
    BY <1>1, <1>3, <1>8, <2>1
  <2> QED BY <1>1, <2>2
<1>18. ASSUME NEW k \in Loads PROVE LoadInv(k)'
  <2>1. CASE loads[k] = None
    BY <1>9, <2>1 DEF LoadInv
  <2>2. CASE loads[k] # None
    <3>1. LoadInv(k) /\ \A q \in Ids(loads[k].page) : Known(q)
      BY <1>2, <2>2 DEF LoadInv
    <3>2. loads[k].page \in Seq(Row) /\ loads[k].next \in ListCursors /\ NextOf(k) \in ListCursors
      BY <1>9, <2>2, LoadFields DEF NextOf, ListCursors
    <3>3. NextOf(k)' = NextOf(k)
      <4>1. listName' = listName /\ loads'[k].next = loads[k].next
        BY <1>1, <1>9, <2>2
      <4> QED BY <4>1 DEF NextOf
    <3>4. ASSUME loads[k].alone, loads[k].answered, ~loads[k].append
          PROVE ShowsRight(World', loads[k].page, NextOf(k), loads[k].owed, loads'[k].grown)
      <4>1. ShowsRight(World, loads[k].page, NextOf(k), loads[k].owed, loads[k].grown)
        BY <2>2, <3>1, <3>4 DEF LoadInv
      <4>2. loads'[k].grown = TRUE
        <5>1. loads[k].answered \in BOOLEAN
          BY <1>9, <2>2, LoadFields
        <5> QED BY <1>9, <2>2, <3>4, <5>1
      <4> QED BY <1>8, <3>1, <3>2, <4>1, <4>2
    <3>5. ASSUME loads[k].alone, loads[k].answered, loads[k].append, ~muddled
          PROVE ShowsRight(World', visible \o loads[k].page, NextOf(k), owed, grown')
      <4>1. ShowsRight(World, visible \o loads[k].page, NextOf(k), owed, grown)
        BY <2>2, <3>1, <3>5 DEF LoadInv
      <4>2. visible \o loads[k].page \in Seq(Row) /\ Ids(visible \o loads[k].page) = Ids(visible) \cup Ids(loads[k].page)
        BY <1>3, <3>2, ConcatSays
      <4>3. \A q \in Ids(visible \o loads[k].page) : Known(q)
        BY <3>1, <4>2 DEF RecordsInv
      <4> QED BY <1>1, <1>8, <3>2, <4>1, <4>2, <4>3
    <3>6. \A q \in Loads : q # k => (loads[q] = None => loads'[q] = None)
      BY <1>9
    <3> DEFINE a == loads[k]
               b == loads'[k]
    <3>7. /\ b # None /\ b.append = a.append /\ b.from = a.from /\ b.alone = a.alone /\ b.filter = a.filter
          /\ b.page = a.page /\ b.owed = a.owed /\ b.answered = a.answered
      BY <1>9, <2>2
    <3>8. \A q \in Ids(b.page) : mark'[q] # None
      BY <1>7, <3>1, <3>7
    <3>9. IF b.append THEN listName' = "logs" /\ b.from # None ELSE b.from = None
      BY <1>1, <2>2, <3>1, <3>7 DEF LoadInv
    <3>10. b.alone => /\ \A q \in Loads : q # k => loads'[q] = None
                      /\ changing' = None /\ b.filter = asking'
                      /\ b.append => b.from = nextPage'
      BY <1>1, <2>2, <3>1, <3>6, <3>7 DEF LoadInv
    <3>11. b.alone /\ b.answered /\ ~b.append => ShowsRight(World', b.page, NextOf(k)', b.owed, b.grown)
      BY <3>3, <3>4, <3>7
    <3>12. b.alone /\ b.answered /\ b.append /\ ~muddled' => ShowsRight(World', visible' \o b.page, NextOf(k)', owed', grown')
      BY <1>1, <3>3, <3>5, <3>7
    <3> QED BY <3>8, <3>9, <3>10, <3>11, <3>12 DEF LoadInv, Known
  <2> QED BY <2>1, <2>2
<1>19. (\A q \in Ids(visible) : Known(q))' /\ (listName # "logs" => nextPage = None)'
  BY <1>1, <1>7 DEF RecordsInv, Known
<1> QED BY <1>12, <1>13, <1>16, <1>17, <1>18, <1>19 DEF RecordsInv

\* Only the logs are read in pages: elsewhere it is the rows that count.
LEMMA AsideShows ==
    ASSUME NEW w, NEW v, NEW rows, NEW nxt, NEW due, NEW more, ShowsRight(w, rows, nxt, due, more),
           w.list # "logs", v.list = w.list, RowsRight(v, rows, due)
    PROVE ShowsRight(v, rows, nxt, due, more)
  BY DEF ShowsRight

\* While an issue is changed no load counts on its answer.
LEMMA ChangingKeepsLoads ==
    ASSUME RecordsInv, changing # None \/ changing' # None, NEW k \in Loads,
           IF loads[k] = None THEN loads'[k] = None
           ELSE /\ loads'[k] # None /\ loads'[k].append = loads[k].append /\ loads'[k].from = loads[k].from
                /\ loads'[k].page = loads[k].page
                /\ loads'[k].alone = loads[k].alone \/ loads'[k].alone = FALSE
                /\ changing = None => loads'[k].alone = FALSE,
           UNCHANGED listName, \A r \in RecordIds : mark[r] # None => mark'[r] # None
    PROVE LoadInv(k)'
<1>1. LoadInv(k) /\ RecordsTypeOK
  BY DEF RecordsInv
<1>2. CASE loads[k] = None
  BY <1>2 DEF LoadInv
<1>3. CASE loads[k] # None
  <2>1. ~loads'[k].alone
    BY <1>1, <1>3 DEF LoadInv
  <2>2. loads[k] \in Load
    BY <1>1, <1>3 DEF RecordsTypeOK
  <2>3. \A r \in Ids(loads[k].page) : r \in RecordIds /\ mark[r] # None
    BY <1>1, <1>3, <2>2, LoadFields, IdsAreRecords DEF LoadInv, Known
  <2> QED BY <1>1, <1>3, <2>1, <2>3 DEF LoadInv, Known
<1> QED BY <1>2, <1>3

LEMMA ConsDistinct == ASSUME NEW S, NEW s \in Seq(S), NEW x \in S, Distinct(s), x \notin Elements(s)
    PROVE <<x>> \o s \in Seq(S) /\ Elements(<<x>> \o s) = {x} \cup Elements(s) /\ Distinct(<<x>> \o s)
<1>1. /\ <<x>> \o s \in Seq(S) /\ Elements(<<x>> \o s) = {x} \cup Elements(s) /\ Len(<<x>> \o s) = Len(s) + 1
      /\ \A i \in 1 .. Len(s) + 1 : (<<x>> \o s)[i] = IF i = 1 THEN x ELSE s[i - 1]
  BY ConsSays
<1> DEFINE t == <<x>> \o s
<1>2. DOMAIN t = 1 .. Len(s) + 1 /\ Len(s) \in Nat /\ DOMAIN s = 1 .. Len(s)
  OBVIOUS
<1> HIDE DEF t
<1>3. \A i \in DOMAIN t : t[i] = IF i = 1 THEN x ELSE s[i - 1]
  BY <1>1, <1>2 DEF t
<1>4. \A i \in DOMAIN t : i # 1 => i - 1 \in DOMAIN s
  BY <1>2
<1>5. Distinct(t)
  <2> SUFFICES ASSUME NEW i \in DOMAIN t, NEW j \in DOMAIN t, i # j PROVE t[i] # t[j]
    BY DEF Distinct
  <2>1. i - 1 # j - 1
    BY <1>2
  <2> QED BY <1>3, <1>4, <2>1 DEF Distinct, Elements
<1> QED BY <1>1, <1>5 DEF t

LEMMA StartingKeeps ==
    ASSUME RecordsInv, NEW d \in {"create", "status", "comment", "delete"}, NEW r \in RecordIds, NEW m \in RecordMarks,
           d = "create" => New(r), d # "create" => Known(r), Starting(d, r, m)
    PROVE RecordsInv'
<1>1. /\ listName = "issues" /\ changing = None
      /\ changing' = [does |-> d, id |-> r, mark |-> m, done |-> FALSE]
      /\ loads' = [l \in Loads |-> IF loads[l] = None THEN None ELSE [loads[l] EXCEPT !.alone = FALSE]]
      /\ UNCHANGED <<listName, paging, shelf, mark, asking, visible, nextPage, loading, muddled, grown, owed>>
  BY DEF Starting
<1>2. RecordsTypeOK /\ ShelfInv /\ loads \in [Loads -> Load \cup {None}] /\ visible \in Seq(Row)
  BY DEF RecordsInv, RecordsTypeOK
<1>3. ASSUME NEW k \in Loads
      PROVE IF loads[k] = None THEN loads'[k] = None
            ELSE /\ loads'[k] \in Load /\ loads'[k] # None /\ loads'[k].append = loads[k].append
                 /\ loads'[k].from = loads[k].from /\ loads'[k].alone = FALSE /\ loads'[k].page = loads[k].page
  <2>1. CASE loads[k] = None
    BY <1>1, <2>1
  <2>2. CASE loads[k] # None
    <3>1. Beside(loads'[k], loads[k], FALSE) /\ loads[k] \in Load
      BY <1>1, <1>2, <2>2 DEF Beside
    <3>2. loads'[k] \in Load /\ loads'[k].append = loads[k].append
                 /\ loads'[k].from = loads[k].from /\ loads'[k].alone = FALSE /\ loads'[k].page = loads[k].page
      BY <3>1 DEF Beside, Load
    <3> QED BY <2>2, <3>2, LoadAssumption
  <2> QED BY <2>1, <2>2
<1>4. changing' \in Change /\ changing' # None /\ changing'.does = d /\ changing'.id = r /\ changing'.done = FALSE
  <2>1. changing' = [does |-> d, id |-> r, mark |-> m, done |-> FALSE]
    BY <1>1
  <2>2. [does |-> d, id |-> r, mark |-> m, done |-> FALSE] \in Change
    BY DEF Change
  <2> QED BY <2>1, <2>2, LoadAssumption
<1>5. RecordsTypeOK'
  <2>1. \A k \in Loads : loads'[k] \in Load \cup {None}
    BY <1>3
  <2>2. loads' = [k \in Loads |-> loads'[k]]
    BY <1>1
  <2>3. loads' \in [Loads -> Load \cup {None}]
    BY <2>1, <2>2
  <2> QED BY <1>1, <1>2, <1>4, <2>3 DEF RecordsTypeOK
<1>6. \A k \in Loads : LoadInv(k)'
  <2> TAKE k \in Loads
  <2>1. listName' = listName /\ mark' = mark
    BY <1>1
  <2> QED BY <1>3, <1>4, <2>1, ChangingKeepsLoads
<1>7. Settled' <=> Settled
  <2>1. \A k \in Loads : (loads'[k] = None <=> loads[k] = None) /\ (loads[k] # None => loads'[k].append = loads[k].append)
    BY <1>3
  <2>2. muddled' = muddled
    BY <1>1
  <2> QED BY <2>1, <2>2 DEF Settled
<1>8. ChangeInv'
  <2>1. d = "create" => r \notin Ids(visible) /\ New(r)
    BY DEF RecordsInv, Known, New
  <2>2. listName' = "issues" /\ mark' = mark /\ visible' = visible
    BY <1>1
  <2> QED BY <1>4, <2>1, <2>2 DEF ChangeInv, Known, New
<1>9. ASSUME Settled PROVE ShowsRight(World', visible, nextPage, owed, grown)
  <2>1. ShowsRight(World, visible, nextPage, owed, grown)
    BY <1>9 DEF RecordsInv
  <2>2. World.list = "issues" /\ World'.list = World.list
    BY <1>1 DEF World
  <2>3. RowsRight(World, visible, owed)
    BY <2>1 DEF ShowsRight
  <2>4. World'.mark = World.mark /\ World'.asking = World.asking /\ World.changing = None
    BY <1>1 DEF World
  <2>5. RowsRight(World', visible, owed)
    BY <2>3, <2>4 DEF RowsRight, Asks, Altered
  <2> QED BY <2>1, <2>2, <2>5, AsideShows
<1>10. ShelfInv'
  BY <1>1, <1>2 DEF ShelfInv, Known
<1> QED BY <1>1, <1>5, <1>6, <1>7, <1>8, <1>9, <1>10 DEF RecordsInv, Known

LEMMA ChangeServedKeeps == ASSUME RecordsInv, ChangeServed PROVE RecordsInv'
<1> DEFINE c == changing
           others == Filtered(shelf, RecordIds \ {c.id})
<1>1. /\ c # None /\ ~c.done /\ ~IssueGone
      /\ shelf' = CASE c.does = "delete" -> others
                    [] c.does \in {"status", "comment"} /\ paging = "token" -> shelf
                    [] OTHER -> <<c.id>> \o others
      /\ mark' = [mark EXCEPT ![c.id] = c.mark]
      /\ changing' = [c EXCEPT !.done = TRUE]
      /\ UNCHANGED <<listName, paging, asking, visible, nextPage, loading, loads, muddled, grown, owed, spent>>
  BY DEF ChangeServed
<1>2. /\ RecordsTypeOK /\ ShelfInv /\ ChangeInv /\ shelf \in Seq(RecordIds) /\ Distinct(shelf) /\ visible \in Seq(Row)
      /\ mark \in [RecordIds -> RecordMarks \cup {None}] /\ \A r \in Elements(shelf) : Known(r)
  BY DEF RecordsInv, RecordsTypeOK, ShelfInv
<1>3. c \in Change /\ c.id \in RecordIds /\ c.mark \in RecordMarks /\ listName = "issues"
  BY <1>1, <1>2 DEF RecordsTypeOK, ChangeInv, Change
<1>4. changing' \in Change /\ changing' # None /\ changing'.does = c.does /\ changing'.id = c.id /\ changing'.mark = c.mark /\ changing'.done = TRUE
  <2>1. changing' \in Change /\ changing'.does = c.does /\ changing'.id = c.id /\ changing'.mark = c.mark /\ changing'.done = TRUE
    BY <1>1, <1>3 DEF Change
  <2> QED BY <2>1, LoadAssumption
<1>5. /\ mark' \in [RecordIds -> RecordMarks \cup {None}]
      /\ mark'[c.id] = c.mark /\ c.mark # None /\ \A r \in RecordIds : r # c.id => mark'[r] = mark[r]
  BY <1>1, <1>2, <1>3, RecordsAssumption
<1>6. \A r \in RecordIds : mark[r] # None => mark'[r] # None
  BY <1>5
<1>7. others \in Seq(RecordIds) /\ Elements(others) = Elements(shelf) \cap (RecordIds \ {c.id}) /\ Distinct(others)
  BY <1>2, FilteredSays
<1>8. shelf' \in Seq(RecordIds) /\ Distinct(shelf') /\ Elements(shelf') \subseteq Elements(shelf) \cup {c.id}
  <2>1. shelf' = others \/ shelf' = shelf \/ shelf' = <<c.id>> \o others
    BY <1>1
  <2>2. /\ <<c.id>> \o others \in Seq(RecordIds) /\ Elements(<<c.id>> \o others) = {c.id} \cup Elements(others)
        /\ Distinct(<<c.id>> \o others)
    BY <1>3, <1>7, ConsDistinct
  <2> HIDE DEF others
  <2> QED BY <1>2, <1>7, <2>1, <2>2
<1> HIDE DEF others
<1>9. RecordsTypeOK'
  BY <1>1, <1>2, <1>4, <1>5, <1>8 DEF RecordsTypeOK
<1>10. ShelfInv'
  <2>1. \A r \in Elements(shelf') : mark'[r] # None
    <3>1. \A r \in Elements(shelf) : r \in RecordIds /\ mark[r] # None
      BY <1>2 DEF Elements, Known
    <3> QED BY <1>5, <1>6, <1>8, <3>1
  <2>2. ASSUME NEW q \in RecordIds, NEW x \in RecordIds, q < x, mark'[x] # None PROVE mark'[q] # None
    <3>1. CASE c.does = "create" /\ x = c.id
      <4>1. New(c.id)
        BY <1>1, <1>2, <3>1 DEF ChangeInv
      <4>2. q \in 1 .. x - 1
        BY <2>2, RecordsAssumption DEF RecordIds
      <4>3. mark[q] # None
        BY <3>1, <4>1, <4>2 DEF New
      <4> QED BY <1>6, <4>3
    <3>2. CASE ~(c.does = "create" /\ x = c.id)
      <4>1. mark[x] # None
        BY <1>1, <1>2, <1>5, <2>2, <3>2 DEF ChangeInv, Known
      <4>2. mark[q] # None
        BY <1>2, <2>2, <4>1 DEF ShelfInv, Known
      <4> QED BY <1>6, <4>2
    <3> QED BY <3>1, <3>2
  <2> QED BY <1>1, <1>3, <1>8, <2>1, <2>2 DEF ShelfInv, Known
<1>11. Settled' <=> Settled
  BY <1>1 DEF Settled
<1>12. ChangeInv'
  <2>1. c.does = "create" /\ Settled => c.id \notin Ids(visible)
    BY <1>1, <1>2 DEF ChangeInv
  <2> QED BY <1>1, <1>3, <1>4, <1>5, <1>11, <2>1 DEF ChangeInv, Known
<1>13. \A k \in Loads : LoadInv(k)'
  <2> TAKE k \in Loads
  <2>1. listName' = listName /\ loads' = loads
    BY <1>1
  <2> QED BY <1>1, <1>6, <2>1, ChangingKeepsLoads
<1>14. ASSUME Settled PROVE ShowsRight(World', visible, nextPage, owed, grown)
  <2>1. ShowsRight(World, visible, nextPage, owed, grown)
    BY <1>14 DEF RecordsInv
  <2>2. World.list = "issues" /\ World'.list = World.list
    BY <1>1, <1>3 DEF World
  <2>3. RowsRight(World, visible, owed)
    BY <2>1 DEF ShowsRight
  <2>4. World'.mark = mark' /\ World'.asking = World.asking /\ World.changing = c /\ World'.changing = changing' /\ World.mark = mark
    BY <1>1 DEF World
  <2>5. \A i \in DOMAIN visible : visible[i].id \in RecordIds
    BY <1>2, IdsAreRecords DEF Ids
  <2>6. \A r : ~Altered(World, r)
    BY <1>1, <2>4 DEF Altered
  <2>7. Altered(World', c.id)
    BY <1>4, <2>4 DEF Altered
  <2>8. \A r \in RecordIds : r # c.id => World'.mark[r] = World.mark[r]
    BY <1>5, <2>4
  <2>9. RowsRight(World', visible, owed)
    BY <2>3, <2>4, <2>5, <2>6, <2>7, <2>8 DEF RowsRight, Asks
  <2> QED BY <2>1, <2>2, <2>9, AsideShows
<1>15. \A r \in Ids(visible) : mark'[r] # None
  <2>1. \A r \in Ids(visible) : r \in RecordIds /\ mark[r] # None
    BY <1>2, IdsAreRecords DEF RecordsInv, Known
  <2> QED BY <1>6, <2>1
<1>16. (listName # "logs" => nextPage = None)'
  BY <1>1 DEF RecordsInv
<1> QED BY <1>1, <1>9, <1>10, <1>11, <1>12, <1>13, <1>14, <1>15, <1>16 DEF RecordsInv, Known

\* The rows after row was answered: it is among them at most once, and no
\* other row is lost, doubled or changed.
Became(t, rows, row) ==
    /\ \A i \in DOMAIN t : t[i] = row \/ \E j \in DOMAIN rows : t[i] = rows[j] /\ rows[j].id # row.id
    /\ Ids(rows) \ {row.id} \subseteq Ids(t)
    /\ Once(rows) => Once(t)

LEMMA RowPrepended ==
    ASSUME NEW rows \in Seq(Row), NEW row \in Row
    PROVE /\ <<row>> \o rows \in Seq(Row) /\ Ids(<<row>> \o rows) = {row.id} \cup Ids(rows)
          /\ row.id \notin Ids(rows) => Became(<<row>> \o rows, rows, row)
<1> DEFINE t == <<row>> \o rows
<1>1. t \in Seq(Row) /\ \A i \in 1 .. Len(rows) + 1 : t[i] = IF i = 1 THEN row ELSE rows[i - 1]
  BY ConsSays
<1>2. DOMAIN t = 1 .. Len(rows) + 1 /\ Len(rows) \in Nat /\ DOMAIN rows = 1 .. Len(rows)
  OBVIOUS
<1> HIDE DEF t
<1>3. \A i \in DOMAIN t : t[i] = IF i = 1 THEN row ELSE rows[i - 1]
  BY <1>1, <1>2
<1>4. \A i \in DOMAIN t : i # 1 => i - 1 \in DOMAIN rows
  BY <1>2
<1>5. 1 \in DOMAIN t /\ \A j \in DOMAIN rows : j + 1 \in DOMAIN t /\ j + 1 # 1 /\ (j + 1) - 1 = j
  BY <1>2
<1>6. Ids(t) = {row.id} \cup Ids(rows)
  <2>1. Ids(t) \subseteq {row.id} \cup Ids(rows)
    BY <1>3, <1>4 DEF Ids
  <2>2. row.id \in Ids(t)
    BY <1>3, <1>5 DEF Ids
  <2>3. ASSUME NEW j \in DOMAIN rows PROVE rows[j].id \in Ids(t)
    <3>1. t[j + 1] = rows[j] /\ j + 1 \in DOMAIN t
      BY <1>3, <1>5
    <3> QED BY <3>1 DEF Ids
  <2> QED BY <2>1, <2>2, <2>3 DEF Ids
<1>7. ASSUME row.id \notin Ids(rows) PROVE Became(t, rows, row)
  <2>1. \A j \in DOMAIN rows : rows[j].id # row.id
    BY <1>7 DEF Ids
  <2>2. \A i \in DOMAIN t : t[i] = row \/ \E j \in DOMAIN rows : t[i] = rows[j] /\ rows[j].id # row.id
    BY <1>3, <1>4, <2>1
  <2>3. ASSUME Once(rows), NEW i \in DOMAIN t, NEW j \in DOMAIN t, i # j PROVE t[i].id # t[j].id
    <3>1. i \in Nat /\ j \in Nat
      BY <1>2, <2>3
    <3>2. i - 1 # j - 1
      BY <2>3, <3>1
    <3> QED BY <1>3, <1>4, <2>1, <2>3, <3>2 DEF Once
  <2> QED BY <1>6, <2>2, <2>3 DEF Became, Once
<1> QED BY <1>1, <1>6, <1>7 DEF t

LEMMA RowRemoved ==
    ASSUME NEW rows \in Seq(Row), NEW row \in Row, NEW t, t = Filtered(rows, {r \in Row : r.id # row.id})
    PROVE t \in Seq(Row) /\ Ids(t) \subseteq Ids(rows) /\ Became(t, rows, row)
<1>0. PICK keep : keep = {r \in Row : r.id # row.id}
  OBVIOUS
<1>8. t = Filtered(rows, keep)
  BY <1>0
<1>1. t \in Seq(Row)
  BY <1>8, FilteredSays
<1>2. \A j \in DOMAIN rows : rows[j] \in Row
  OBVIOUS
<1>9. \A i \in DOMAIN Filtered(rows, keep) : \E j \in DOMAIN rows : Filtered(rows, keep)[i] = rows[j] /\ rows[j] \in keep
  BY FilteredOnce
<1>10. Elements(t) = Elements(rows) \cap keep
  BY <1>8, FilteredSays
<1>3. \A i \in DOMAIN t : \E j \in DOMAIN rows : t[i] = rows[j] /\ rows[j] \in keep
  BY <1>8, <1>9
<1>4. ASSUME NEW j \in DOMAIN rows, rows[j].id # row.id PROVE rows[j].id \in Ids(t)
  <2>1. rows[j] \in keep
    BY <1>0, <1>2, <1>4
  <2>2. \E i \in DOMAIN t : t[i] = rows[j]
    BY <1>10, <2>1 DEF Elements
  <2> QED BY <2>2 DEF Ids
<1>5. Once(rows) => Once(t)
  BY <1>8, FilteredOnce
<1>6. Ids(t) \subseteq Ids(rows)
  BY <1>3 DEF Ids
<1>7. Ids(rows) \ {row.id} \subseteq Ids(t)
  <2> SUFFICES ASSUME NEW r \in Ids(rows), r # row.id PROVE r \in Ids(t)
    OBVIOUS
  <2>1. PICK j \in DOMAIN rows : r = rows[j].id
    BY DEF Ids
  <2> QED BY <1>4, <2>1
<1> QED BY <1>0, <1>1, <1>3, <1>5, <1>6, <1>7 DEF Became

LEMMA RowReplaced ==
    ASSUME NEW rows \in Seq(Row), NEW row \in Row,
           NEW t, t = [i \in DOMAIN rows |-> IF rows[i].id = row.id THEN row ELSE rows[i]]
    PROVE t \in Seq(Row) /\ Ids(t) \subseteq Ids(rows) /\ Became(t, rows, row)
<1>1. t \in Seq(Row) /\ DOMAIN t = DOMAIN rows
  OBVIOUS
<1>2. \A i \in DOMAIN rows : t[i] = (IF rows[i].id = row.id THEN row ELSE rows[i]) /\ t[i].id = rows[i].id
  OBVIOUS
<1>3. Ids(t) = Ids(rows)
  BY <1>1, <1>2 DEF Ids
<1>4. Once(rows) => Once(t)
  BY <1>1, <1>2 DEF Once
<1>5. \A i \in DOMAIN t : t[i] = row \/ \E j \in DOMAIN rows : t[i] = rows[j] /\ rows[j].id # row.id
  BY <1>1, <1>2
<1> QED BY <1>1, <1>3, <1>4, <1>5 DEF Became

LEMMA ChangeAnsweredKeeps == ASSUME RecordsInv, ChangeAnswered PROVE RecordsInv'
<1> DEFINE c == changing
<1>0. PICK row : row = [id |-> c.id, mark |-> c.mark]
  OBVIOUS
<1>1. /\ c # None /\ c.done
      /\ visible' = CASE c.does = "create" -> <<row>> \o visible
                      [] c.does = "delete" -> Filtered(visible, {r \in Row : r.id # c.id})
                      [] OTHER -> [i \in DOMAIN visible |-> IF visible[i].id = c.id THEN row ELSE visible[i]]
      /\ owed' = owed \ {c.id} /\ changing' = None
      /\ UNCHANGED <<listName, paging, shelf, mark, asking, nextPage, loading, loads, muddled, grown, spent>>
  BY <1>0 DEF ChangeAnswered
<1>2. RecordsTypeOK /\ ShelfInv /\ ChangeInv /\ visible \in Seq(Row) /\ \A r \in Ids(visible) : Known(r)
  BY DEF RecordsInv, RecordsTypeOK
<1>3. /\ c \in Change /\ c.id \in RecordIds /\ c.mark \in RecordMarks /\ listName = "issues"
      /\ mark[c.id] = c.mark /\ Known(c.id)
  BY <1>1, <1>2 DEF RecordsTypeOK, ChangeInv, Change
<1>4. row \in Row /\ row.id = c.id /\ row.mark = c.mark
  BY <1>0, <1>3 DEF Row
<1>5. /\ visible' \in Seq(Row) /\ Ids(visible') \subseteq Ids(visible) \cup {c.id}
      /\ Settled => Became(visible', visible, row)
  <2>1. CASE c.does = "create"
    <3>1. visible' = <<row>> \o visible
      BY <1>1, <2>1
    <3>2. Settled => row.id \notin Ids(visible)
      BY <1>1, <1>2, <1>4, <2>1 DEF ChangeInv
    <3> QED BY <1>2, <1>4, <3>1, <3>2, RowPrepended
  <2>2. CASE c.does = "delete"
    <3>1. visible' = Filtered(visible, {r \in Row : r.id # row.id})
      BY <1>1, <1>4, <2>2
    <3> QED BY <1>2, <1>4, <3>1, RowRemoved
  <2>3. CASE c.does # "create" /\ c.does # "delete"
    <3>1. visible' = [i \in DOMAIN visible |-> IF visible[i].id = row.id THEN row ELSE visible[i]]
      BY <1>1, <1>4, <2>3
    <3> QED BY <1>2, <1>4, <3>1, RowReplaced
  <2> QED BY <2>1, <2>2, <2>3
<1>6. RecordsTypeOK'
  BY <1>1, <1>2, <1>5 DEF RecordsTypeOK
<1>7. ShelfInv' /\ ChangeInv' /\ (listName # "logs" => nextPage = None)'
  BY <1>1, <1>2 DEF RecordsInv, ShelfInv, ChangeInv, Known
<1>8. \A k \in Loads : LoadInv(k)'
  <2> TAKE k \in Loads
  <2>1. listName' = listName /\ loads' = loads /\ mark' = mark
    BY <1>1
  <2> QED BY <1>1, <2>1, ChangingKeepsLoads
<1>9. Settled' <=> Settled
  BY <1>1 DEF Settled
<1>10. ASSUME Settled PROVE ShowsRight(World', visible', nextPage, owed', grown)
  <2>1. ShowsRight(World, visible, nextPage, owed, grown)
    BY <1>10 DEF RecordsInv
  <2>2. World.list = "issues" /\ World'.list = "issues" /\ World.mark = mark /\ World'.mark = mark
        /\ World'.asking = World.asking /\ World.changing = c /\ World'.changing = None
    BY <1>1, <1>3 DEF World
  <2>3. Once(visible) /\ RowsRight(World, visible, owed) /\ owed \subseteq Ids(visible)
    BY <2>1, <2>2 DEF ShowsRight
  <2>4. Became(visible', visible, row)
    BY <1>5, <1>10
  <2>5. Once(visible') /\ owed' \subseteq Ids(visible')
    BY <1>1, <1>4, <2>3, <2>4 DEF Became
  <2>6. \A j \in DOMAIN visible : visible[j].id # c.id => ~Altered(World, visible[j].id)
    BY <2>2 DEF Altered
  <2>7. RowsRight(World', visible', owed')
    <3> SUFFICES ASSUME NEW i \in DOMAIN visible'
                 PROVE /\ visible'[i].mark = mark[visible'[i].id]
                       /\ Asks(World', visible'[i].id, World'.asking) \/ visible'[i].id \notin owed'
      BY <2>2 DEF RowsRight
    <3>1. CASE visible'[i] = row
      BY <1>1, <1>3, <1>4, <3>1
    <3>2. CASE visible'[i] # row
      <4>1. PICK j \in DOMAIN visible : visible'[i] = visible[j] /\ visible[j].id # c.id
        BY <1>4, <2>4, <3>2 DEF Became
      <4>2. visible[j].mark = mark[visible[j].id] /\ (Asks(World, visible[j].id, World.asking) \/ visible[j].id \notin owed)
        BY <2>2, <2>3, <2>6, <4>1 DEF RowsRight
      <4>3. Asks(World', visible[j].id, World'.asking) <=> Asks(World, visible[j].id, World.asking)
        BY <2>2 DEF Asks
      <4> QED BY <1>1, <4>1, <4>2, <4>3
    <3> QED BY <3>1, <3>2
  <2> QED BY <2>2, <2>5, <2>7 DEF ShowsRight
<1>11. \A r \in Ids(visible') : mark'[r] # None
  BY <1>1, <1>2, <1>3, <1>5 DEF Known
<1>12. (\A r \in Ids(visible) : Known(r))'
  BY <1>11 DEF Known, Ids
<1> QED BY <1>1, <1>6, <1>7, <1>8, <1>9, <1>10, <1>12 DEF RecordsInv

LEMMA ChangeFailsKeeps == ASSUME RecordsInv, ChangeFails PROVE RecordsInv'
<1>1. /\ changing # None /\ muddled' = (muddled \/ changing.done) /\ changing' = None
      /\ UNCHANGED <<listName, paging, shelf, mark, asking, visible, nextPage, loading, loads, grown, owed>>
  BY DEF ChangeFails
<1>2. RecordsTypeOK /\ ShelfInv /\ ChangeInv /\ visible \in Seq(Row) /\ \A r \in Ids(visible) : Known(r)
  BY DEF RecordsInv, RecordsTypeOK
<1>3. changing \in Change /\ listName = "issues" /\ changing.done \in BOOLEAN
  BY <1>1, <1>2 DEF RecordsTypeOK, ChangeInv, Change
<1>4. RecordsTypeOK'
  <2>1. muddled' \in BOOLEAN
    BY <1>1, <1>2, <1>3 DEF RecordsTypeOK
  <2> QED BY <1>1, <1>2, <2>1 DEF RecordsTypeOK
<1>5. ShelfInv' /\ ChangeInv' /\ (listName # "logs" => nextPage = None)' /\ (\A r \in Ids(visible) : Known(r))'
  BY <1>1, <1>2 DEF RecordsInv, ShelfInv, ChangeInv, Known
<1>6. \A k \in Loads : LoadInv(k)'
  <2> TAKE k \in Loads
  <2>1. listName' = listName /\ loads' = loads /\ mark' = mark
    BY <1>1
  <2> QED BY <1>1, <2>1, ChangingKeepsLoads
<1>7. Settled' => Settled /\ ~changing.done
  BY <1>1, <1>3 DEF Settled
<1>8. ASSUME Settled, ~changing.done PROVE ShowsRight(World', visible, nextPage, owed, grown)
  <2>1. ShowsRight(World, visible, nextPage, owed, grown)
    BY <1>8 DEF RecordsInv
  <2>2. World.list = "issues" /\ World'.list = World.list
    BY <1>1, <1>3 DEF World
  <2>3. RowsRight(World, visible, owed)
    BY <2>1 DEF ShowsRight
  <2>4. World'.mark = World.mark /\ World'.asking = World.asking /\ World.changing = changing
    BY <1>1 DEF World
  <2>5. \A r : ~Altered(World, r)
    BY <1>8, <2>4 DEF Altered
  <2>6. RowsRight(World', visible, owed)
    BY <2>3, <2>4, <2>5 DEF RowsRight, Asks
  <2> QED BY <2>1, <2>2, <2>6, AsideShows
<1> QED BY <1>1, <1>4, <1>5, <1>6, <1>7, <1>8 DEF RecordsInv

LEMMA RecordsStart == RecordsInit => RecordsInv
<1> SUFFICES ASSUME RecordsInit PROVE RecordsInv
  OBVIOUS
<1>1. PICK n \in 0 .. MaxRecords :
        /\ shelf = [i \in 1 .. n |-> n + 1 - i]
        /\ mark \in [RecordIds -> RecordMarks \cup {None}] /\ \A r \in RecordIds : mark[r] = None <=> r > n
  BY DEF RecordsInit
<1>2. /\ listName \in {"history", "logs", "issues"} /\ paging \in {"offset", "token"}
      /\ asking = None /\ visible = << >> /\ nextPage = None /\ loading = TRUE
      /\ loads = [l \in Loads |-> IF l = 1 THEN Asked(None, FALSE, None) ELSE None]
      /\ changing = None /\ muddled = FALSE /\ grown = FALSE /\ owed = {}
  BY DEF RecordsInit
<1>3. /\ Asked(None, FALSE, None) \in Load /\ Asked(None, FALSE, None) # None
      /\ Asked(None, FALSE, None).append = FALSE /\ Asked(None, FALSE, None).from = None
      /\ Asked(None, FALSE, None).filter = None /\ ~Asked(None, FALSE, None).answered /\ Asked(None, FALSE, None).page = << >>
  <2>1. Asked(None, FALSE, None) \in Load
    BY DEF Asked, Load, ListFilters, ListCursors
  <2> QED BY <2>1, LoadAssumption DEF Asked
<1>4. n \in Nat /\ MaxRecords \in Nat /\ 1 \in Loads /\ DOMAIN shelf = 1 .. n /\ \A i \in 1 .. n : shelf[i] = n + 1 - i /\ shelf[i] \in 1 .. n
  BY <1>1, RecordsAssumption
<1>5. shelf \in Seq(RecordIds)
  <2>1. shelf \in [1 .. n -> RecordIds]
    BY <1>1, <1>4 DEF RecordIds
  <2> QED BY <1>4, <2>1
<1>6. RecordsTypeOK
  <2>1. visible \in Seq(Row) /\ nextPage \in ListCursors /\ asking \in ListFilters
    BY <1>2 DEF ListCursors, ListFilters
  <2>2. loads \in [Loads -> Load \cup {None}]
    BY <1>2, <1>3
  <2> QED BY <1>1, <1>2, <1>5, <2>1, <2>2 DEF RecordsTypeOK
<1>7. ShelfInv
  <2>1. Distinct(shelf) /\ Falling(shelf)
    BY <1>4 DEF Distinct, Falling
  <2>2. \A r \in Elements(shelf) : r \in RecordIds /\ ~(r > n)
    BY <1>1, <1>4 DEF Elements, RecordIds
  <2>3. \A q, r \in RecordIds : q < r /\ ~(r > n) => ~(q > n)
    BY <1>4 DEF RecordIds
  <2> QED BY <1>1, <2>1, <2>2, <2>3 DEF ShelfInv, Known
<1>8. ChangeInv
  BY <1>2 DEF ChangeInv
<1>9. \A l \in Loads : LoadInv(l)
  <2> TAKE l \in Loads
  <2>1. CASE l # 1
    BY <1>2, <2>1 DEF LoadInv
  <2>2. CASE l = 1
    <3>1. loads[1] = Asked(None, FALSE, None) /\ \A k \in Loads : k # 1 => loads[k] = None
      BY <1>2, <1>4
    <3>2. Ids(loads[1].page) = {}
      <4>1. loads[1].page = << >>
        BY <1>3, <3>1
      <4> QED BY <4>1 DEF Ids
    <3> QED BY <1>2, <1>3, <2>2, <3>1, <3>2 DEF LoadInv
  <2> QED BY <2>1, <2>2
<1>10. ~Settled
  BY <1>2, <1>3, <1>4 DEF Settled
<1>11. \A r \in Ids(visible) : Known(r)
  BY <1>2 DEF Ids
<1> QED BY <1>2, <1>6, <1>7, <1>8, <1>9, <1>10, <1>11 DEF RecordsInv

LEMMA RecordsRest == ASSUME RecordsInv, UNCHANGED recordsVars PROVE RecordsInv'
<1>1. UNCHANGED <<listName, paging, shelf, mark, asking, visible, nextPage, loading, loads, changing, muddled, grown, owed>>
  BY DEF recordsVars
<1>2. World' = World /\ (Settled' <=> Settled)
  BY <1>1 DEF World, Settled
<1>3. RecordsTypeOK' /\ ShelfInv' /\ ChangeInv'
  BY <1>1, <1>2 DEF RecordsInv, RecordsTypeOK, ShelfInv, ChangeInv, Known, New
<1>4. \A l \in Loads : LoadInv(l)'
  <2> TAKE l \in Loads
  <2>1. LoadInv(l)
    BY DEF RecordsInv
  <2> QED BY <1>1, <1>2, <2>1 DEF LoadInv, Known, NextOf
<1> QED BY <1>1, <1>2, <1>3, <1>4 DEF RecordsInv, Known

LEMMA RecordsKeep == ASSUME RecordsInv, RecordsNext PROVE RecordsInv'
<1>1. RecordsTypeOK /\ (\A r \in Ids(visible) : Known(r)) /\ asking \in ListFilters /\ nextPage \in ListCursors
      /\ None \in ListCursors
  BY DEF RecordsInv, RecordsTypeOK, ListCursors
<1>2. ASSUME NEW l \in Loads, LoadServed(l) \/ LoadArrives(l) \/ LoadFails(l) PROVE RecordsInv'
  BY <1>2, LoadServedKeeps, LoadArrivesKeeps, LoadFailsKeeps
<1>3. ASSUME NEW f \in ListFilters, SetFilterTo(f) PROVE RecordsInv'
  <2>1. PICK b \in BOOLEAN : b = FALSE
    OBVIOUS
  <2>2. Starts(Asked(f, b, None))
    BY <1>3, <2>1 DEF SetFilterTo
  <2>3. asking' = f /\ UNCHANGED <<listName, paging, shelf, mark, visible, nextPage, changing, muddled, grown, owed>>
    BY <1>3 DEF SetFilterTo
  <2> QED BY <1>1, <2>1, <2>2, <2>3, StartsKeeps
<1>4. ASSUME Refreshes PROVE RecordsInv'
  <2>1. PICK b \in BOOLEAN : b = FALSE
    OBVIOUS
  <2>2. Starts(Asked(asking, b, None))
    BY <1>4, <2>1 DEF Refreshes
  <2>3. asking' = asking /\ UNCHANGED <<listName, paging, shelf, mark, visible, nextPage, changing, muddled, grown, owed>>
    BY <1>4 DEF Refreshes
  <2> QED BY <1>1, <2>1, <2>2, <2>3, StartsKeeps
<1>5. ASSUME LoadsMore PROVE RecordsInv'
  <2>1. PICK b \in BOOLEAN : b = TRUE
    OBVIOUS
  <2>2. Starts(Asked(asking, b, nextPage)) /\ listName = "logs" /\ nextPage # None
    BY <1>5, <2>1 DEF LoadsMore
  <2>3. asking' = asking /\ UNCHANGED <<listName, paging, shelf, mark, visible, nextPage, changing, muddled, grown, owed>>
    BY <1>5 DEF LoadsMore
  <2> QED BY <1>1, <2>1, <2>2, <2>3, StartsKeeps
<1>6. ASSUME NEW r \in RecordIds, HandleCreate(r) PROVE RecordsInv'
  BY <1>6, StartingKeeps, RecordsAssumption DEF HandleCreate
<1>7. ASSUME NEW r \in RecordIds, NEW m \in RecordMarks, RecordAdded(r, m) PROVE RecordsInv'
  BY <1>7, RecordAddedKeeps
<1>8. ASSUME NEW i \in DOMAIN visible,
             \/ \E m \in RecordMarks : HandleStatusChange(visible[i], m)
             \/ HandleComment(visible[i]) \/ HandleDelete(visible[i])
      PROVE RecordsInv'
  <2>1. visible[i] \in Row /\ Known(visible[i].id)
    BY <1>1 DEF RecordsTypeOK, Ids
  <2>2. visible[i].id \in RecordIds /\ visible[i].mark \in RecordMarks
    BY <2>1 DEF Row
  <2>3. mark[visible[i].id] \in RecordMarks
    BY <1>1, <2>1, <2>2 DEF RecordsTypeOK, Known
  <2>4. ASSUME NEW m \in RecordMarks, HandleStatusChange(visible[i], m) PROVE RecordsInv'
    <3>1. Starting("status", visible[i].id, m)
      BY <2>4 DEF HandleStatusChange
    <3> QED BY <2>1, <2>2, <3>1, StartingKeeps
  <2>5. ASSUME HandleComment(visible[i]) PROVE RecordsInv'
    <3>1. Starting("comment", visible[i].id, mark[visible[i].id])
      BY <2>5 DEF HandleComment
    <3> QED BY <2>1, <2>2, <2>3, <3>1, StartingKeeps
  <2>6. ASSUME HandleDelete(visible[i]) PROVE RecordsInv'
    <3>1. Starting("delete", visible[i].id, visible[i].mark)
      BY <2>6 DEF HandleDelete
    <3> QED BY <2>1, <2>2, <3>1, StartingKeeps
  <2> QED BY <1>8, <2>4, <2>5, <2>6
<1> QED BY <1>2, <1>3, <1>4, <1>5, <1>6, <1>7, <1>8, ChangeServedKeeps, ChangeAnsweredKeeps, ChangeFailsKeeps DEF RecordsNext

LEMMA RowsTrue == ASSUME RecordsInv PROVE RowsFitTheirFilter
<1> SUFFICES ASSUME Quiet, ~muddled
             PROVE LET shown == {visible[i].id : i \in DOMAIN visible}
                   IN  /\ \A i \in DOMAIN visible :
                            /\ visible[i].mark = mark[visible[i].id]
                            /\ Fits(visible[i].id, asking) \/ visible[i].id \notin owed
                       /\ nextPage = None => owed \subseteq shown
                       /\ Cardinality(shown) = Len(visible) \/ (grown /\ paging = "offset" /\ listName = "logs")
  BY DEF RowsFitTheirFilter
<1>1. visible \in Seq(Row) /\ changing = None /\ ShowsRight(World, visible, nextPage, owed, grown)
  BY DEF RecordsInv, RecordsTypeOK, Settled, Quiet
<1>2. /\ World.mark = mark /\ World.asking = asking /\ World.changing = None /\ World.paging = paging /\ World.list = listName
  BY <1>1, WorldSays
<1>3. \A i \in DOMAIN visible : /\ visible[i].mark = mark[visible[i].id]
                                /\ Fits(visible[i].id, asking) \/ visible[i].id \notin owed
  BY <1>1, <1>2 DEF ShowsRight, RowsRight, Altered, Asks, Fits
<1>4. nextPage = None => owed \subseteq Ids(visible)
  BY <1>1, <1>2 DEF ShowsRight, PagesGoOn, Left
<1>5. Once(visible) => Cardinality(Ids(visible)) = Len(visible)
  <2> SUFFICES ASSUME Once(visible) PROVE Cardinality(Ids(visible)) = Len(visible)
    OBVIOUS
  <2>1. PICK s : s = [i \in DOMAIN visible |-> visible[i].id]
    OBVIOUS
  <2>2. s \in Seq(RecordIds) /\ DOMAIN s = DOMAIN visible /\ Len(s) = Len(visible)
    <3>1. \A i \in DOMAIN visible : visible[i].id \in RecordIds
      BY <1>1, IdsAreRecords DEF Ids
    <3>2. Len(visible) \in Nat /\ DOMAIN visible = 1 .. Len(visible)
      BY <1>1
    <3>3. s \in [1 .. Len(visible) -> RecordIds]
      BY <2>1, <3>1, <3>2
    <3> QED BY <3>2, <3>3
  <2>3. \A i \in DOMAIN visible : s[i] = visible[i].id
    BY <2>1
  <2>4. Distinct(s)
    BY <2>2, <2>3 DEF Distinct, Once
  <2>5. Elements(s) = Ids(visible)
    BY <2>2, <2>3 DEF Elements, Ids
  <2> QED BY <2>2, <2>4, <2>5, CountDistinct
<1>6. Once(visible) \/ (grown /\ paging = "offset" /\ listName = "logs")
  BY <1>1, <1>2 DEF ShowsRight
<1> QED BY <1>3, <1>4, <1>5, <1>6 DEF Ids

----------------------------------------------------------------------------
(* Lists, periods and calendar together *)

\* They share nothing but the budget of what others do and what is lost.
RecordsRests == UNCHANGED recordsVars
CalendarRests == UNCHANGED calendarVars
RangeRests == UNCHANGED rangeVars

OverviewInit == RecordsInit /\ RangeInit /\ GridInit /\ ScheduleInit /\ NothingSpent

OverviewNext ==
    \/ RecordsNext /\ RangeRests /\ CalendarRests
    \/ RangeNext /\ RecordsRests /\ CalendarRests
    \/ (GridNext \/ ScheduleNext) /\ RecordsRests /\ RangeRests

OverviewSpec == OverviewInit /\ [][OverviewNext]_<<recordsVars, rangeVars, calendarVars, spent>>

OverviewInv == RecordsInv /\ RangeInv /\ GridInv /\ ScheduleInv

LEMMA OverviewHolds == OverviewSpec => []OverviewInv
<1>1. OverviewInit => OverviewInv
  BY RecordsStart, RangeStart, GridStart, ScheduleStart DEF OverviewInit, OverviewInv
<1>2. OverviewInv /\ [OverviewNext]_<<recordsVars, rangeVars, calendarVars, spent>> => OverviewInv'
  <2> SUFFICES ASSUME OverviewInv, [OverviewNext]_<<recordsVars, rangeVars, calendarVars, spent>> PROVE OverviewInv'
    OBVIOUS
  <2>1. RecordsNext \/ UNCHANGED recordsVars
    BY DEF OverviewNext, RecordsRests
  <2>2. RangeNext \/ UNCHANGED rangeVars
    BY DEF OverviewNext, RangeRests
  <2>3. (GridNext \/ UNCHANGED gridVars) /\ (ScheduleNext \/ UNCHANGED scheduleVars)
    BY GridRests, ScheduleRests DEF OverviewNext, CalendarRests, calendarVars
  <2> QED BY <2>1, <2>2, <2>3, RecordsKeep, RecordsRest, RangeKeeps, GridKeeps, ScheduleKeeps DEF OverviewInv
<1> QED BY <1>1, <1>2, PTL DEF OverviewSpec

\* The lists, the period and the calendar only take values they can have,
\* whatever overlaps and whatever fails (SiteHistory.tsx, UploadLogs.tsx,
\* IssueList.tsx, DateRangeFilter.tsx, SiteCalendar.tsx).
THEOREM OverviewTypeCorrect == OverviewSpec => [](RecordsTypeOK /\ RangeTypeOK /\ CalendarTypeOK)
<1>1. OverviewInv => RecordsTypeOK /\ RangeTypeOK /\ CalendarTypeOK
  BY CalendarTrue DEF OverviewInv, RecordsInv, RangeInv
<1> QED BY <1>1, OverviewHolds, PTL

\* A list at rest has the rows its filter asks for, every record of its pages
\* and none twice, but for what ListsTellTheTruth names; the boxes say the
\* period that is asked for; the calendar has every day of its month once, on
\* its weekday, and steps by one month.
THEOREM ListsTellTheTruthAlways == OverviewSpec => ListsTellTheTruth
<1>1. OverviewInv => RowsFitTheirFilter /\ BoxesShowTheRange /\ CalendarIsRight
  BY RowsTrue, CalendarTrue DEF OverviewInv, RangeInv
<1>2. OverviewInv => [\A n \in {-1, 1} : dayView = "month" /\ MoveView(n) => MonthOf(dayAnchor') = MonthOf(dayAnchor) + n]_gridVars
  <2> SUFFICES ASSUME OverviewInv, NEW n \in {-1, 1}, dayView = "month", MoveView(n)
               PROVE MonthOf(dayAnchor') = MonthOf(dayAnchor) + n
    OBVIOUS
  <2>1. dayAnchor \in CalendarDays
    BY DEF OverviewInv, GridInv, GridOK
  <2> QED BY <2>1, MonthsStep
<1> QED BY <1>1, <1>2, OverviewHolds, PTL DEF ListsTellTheTruth, MonthsStepByOne
=============================================================================
