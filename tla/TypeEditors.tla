---------------------------- MODULE TypeEditors ----------------------------
(***************************************************************************)
(* Two editors of what a 시공종류 asks for: the order of the submission    *)
(* form, and the custom input fields.  Each loads what the server has for  *)
(* all 시공종류, shows the one that is chosen and saves that one.  They    *)
(* share nothing; both are modelled beside the others who write the same   *)
(* settings (another screen, the sync of an order sheet).                  *)
(*                                                                         *)
(* What is abstracted: an order and a list of fields are values; the       *)
(* 시공종류 stay the same while the screen is open.                        *)
(***************************************************************************)
EXTENDS Common, Sequences

CONSTANTS
    EditTypes,     \* 시공종류
    Wordings,      \* orders of the form; lists of fields
    DefaultLayout, \* the order that is shown while none is known
    EditRules,     \* folder rules, which are kept beside the fields
    FirstRules     \* per 시공종류, its rule at first

ASSUME TypeEditorsAssumption == DefaultLayout \in Wordings /\ FirstRules \in [EditTypes -> EditRules]

VARIABLES
    layouts,     \* the orders of the form at the server
    editor,      \* the screen: orders shown and taken for saved, the chosen type,
                 \* per load under way its answer, and the save under way
    configs,     \* fields and folder rule of each 시공종류 at the server
    fields,      \* the other screen: what it knows, the chosen type, the draft,
                 \* loads and the save under way
    crossedLoad  \* ghost: a load and a save were under way at once

layoutVars == <<layouts, editor>>
fieldVars  == <<configs, fields>>
editorsVars == <<layoutVars, fieldVars, crossedLoad>>

Config == [fields : Wordings, rule : EditRules]
SaveOf(values) == [type : EditTypes, value : values, stored : BOOLEAN] \cup {None}

ASSUME NoSaveAssumption ==
    None \notin [type : EditTypes, value : Wordings \cup Config, stored : BOOLEAN]

EditorsTypeOK ==
    /\ layouts \in [EditTypes -> Wordings] /\ configs \in [EditTypes -> Config]
    /\ {editor.shown, editor.saved} \subseteq [EditTypes -> Wordings \cup {None}]
    /\ editor.type \in EditTypes /\ editor.save \in SaveOf(Wordings)
    /\ fields.known \in [EditTypes -> Config \cup {None}]
    /\ fields.type \in EditTypes \cup {None} /\ fields.save \in SaveOf(Config)
    /\ fields.draft \in Config \cup {None}

Unknown == [t \in EditTypes |-> None]

\* Both screens open and load.
EditorsInit ==
    /\ layouts \in [EditTypes -> Wordings]
    /\ editor \in [shown : {Unknown}, saved : {Unknown}, type : EditTypes, loads : {<<None>>}, save : {None}]
    /\ configs = [t \in EditTypes |-> [fields |-> DefaultLayout, rule |-> FirstRules[t]]]
    /\ fields = [known |-> Unknown, type |-> None, draft |-> None, loads |-> <<None>>, save |-> None]
    /\ crossedLoad = FALSE

SaveAsked(s) == s.save # None /\ ~s.save.stored
SaveStored(s) == s.save # None /\ s.save.stored

----------------------------------------------------------------------------
(* The order of the form *)

Layout(t, known) == IF known[t] = None THEN DefaultLayout ELSE known[t]

LayoutsServed ==
    /\ editor.loads = <<None>> /\ editor' = [editor EXCEPT !.loads = <<layouts>>]
    /\ UNCHANGED <<layouts, crossedLoad, spent>>

LayoutsArrive ==
    /\ editor.loads # << >>
    /\ LET l == Head(editor.loads)
       IN  l # None /\ editor' = [editor EXCEPT !.shown = l, !.saved = l, !.loads = << >>]
    /\ UNCHANGED <<layouts, crossedLoad, spent>>

\* Nobody is told, and the screen goes on with the default.
LayoutsLost ==
    /\ editor.loads # << >> /\ Spend("lost") /\ editor' = [editor EXCEPT !.loads = << >>]
    /\ UNCHANGED <<layouts, crossedLoad>>

SelectLayout(t) ==
    /\ t # editor.type /\ editor' = [editor EXCEPT !.type = t]
    /\ UNCHANGED <<layouts, crossedLoad, spent>>

ChangeLayout(w) ==
    /\ w # Layout(editor.type, editor.shown) /\ Spend("edit")
    /\ editor' = [editor EXCEPT !.shown[editor.type] = w]
    /\ UNCHANGED <<layouts, crossedLoad>>

SaveLayout ==
    /\ editor.save = None /\ Layout(editor.type, editor.shown) # Layout(editor.type, editor.saved)
    /\ editor' = [editor EXCEPT !.save = [type |-> editor.type, stored |-> FALSE,
                                          value |-> Layout(editor.type, editor.shown)]]
    /\ crossedLoad' = (crossedLoad \/ editor.loads # << >>)
    /\ UNCHANGED <<layouts, spent>>

LayoutStored ==
    /\ SaveAsked(editor)
    /\ layouts' = [layouts EXCEPT ![editor.save.type] = editor.save.value]
    /\ editor' = [editor EXCEPT !.save.stored = TRUE]
    /\ UNCHANGED <<crossedLoad, spent>>

\* The answer is for the 시공종류 that was saved, whichever is chosen by now;
\* what was changed of it meanwhile is gone.
LayoutAnswered ==
    /\ SaveStored(editor)
    /\ LET s == editor.save
       IN  editor' = [editor EXCEPT !.shown[s.type] = s.value, !.saved[s.type] = s.value, !.save = None]
    /\ UNCHANGED <<layouts, crossedLoad, spent>>

LayoutSaveFails ==
    /\ editor.save # None /\ Spend("lost") /\ editor' = [editor EXCEPT !.save = None]
    /\ UNCHANGED <<layouts, crossedLoad>>

OthersLayout(t, w) ==
    /\ w # layouts[t] /\ Spend("other") /\ layouts' = [layouts EXCEPT ![t] = w]
    /\ UNCHANGED <<editor, crossedLoad>>

LayoutsNext ==
    /\ \/ LayoutsServed \/ LayoutsArrive \/ LayoutsLost
       \/ \E t \in EditTypes : SelectLayout(t) \/ \E w \in Wordings : OthersLayout(t, w)
       \/ \E w \in Wordings : ChangeLayout(w)
       \/ SaveLayout \/ LayoutStored \/ LayoutAnswered \/ LayoutSaveFails
    /\ UNCHANGED fieldVars

----------------------------------------------------------------------------
(* The input fields *)

\* The draft is made anew when the choice or what is known changes.
Redrawn(f) == [f EXCEPT !.draft = IF f.type = None THEN None ELSE f.known[f.type]]

\* The loads that are left when the answer of load i is there.
LeftAfter(loads, i) == [n \in 1 .. Len(loads) - 1 |-> IF n < i THEN loads[n] ELSE loads[n + 1]]

\* When the 시공종류 are loaded anew, the effect loads once more.
LoadConfigsAgain ==
    /\ Spend("reload") /\ fields' = [fields EXCEPT !.loads = Append(@, None)]
    /\ crossedLoad' = (crossedLoad \/ fields.save # None)
    /\ UNCHANGED configs

ConfigsServed(i) ==
    /\ fields.loads[i] = None /\ fields' = [fields EXCEPT !.loads[i] = configs]
    /\ UNCHANGED <<configs, crossedLoad, spent>>

ConfigsArrive(i) ==
    /\ fields.loads[i] # None
    /\ \E first \in EditTypes :  \* of the list, whichever that is
         fields' = Redrawn([fields EXCEPT !.known = fields.loads[i], !.loads = LeftAfter(@, i),
                                          !.type = IF @ = None THEN first ELSE @])
    /\ UNCHANGED <<configs, crossedLoad, spent>>

ConfigsLost(i) ==
    /\ Spend("lost") /\ fields' = [fields EXCEPT !.loads = LeftAfter(@, i)]
    /\ UNCHANGED <<configs, crossedLoad>>

ChooseConfig(t) ==
    /\ fields.known[t] # None /\ t # fields.type /\ fields' = Redrawn([fields EXCEPT !.type = t])
    /\ UNCHANGED <<configs, crossedLoad, spent>>

EditFields(w) ==
    /\ fields.draft # None /\ fields.draft.fields # w /\ Spend("edit")
    /\ fields' = [fields EXCEPT !.draft.fields = w]
    /\ UNCHANGED <<configs, crossedLoad>>

\* All of the draft is sent, the folder rule as it was loaded with it.
SaveConfig ==
    /\ fields.save = None /\ fields.draft # None
    /\ fields' = [fields EXCEPT !.save = [type |-> fields.type, value |-> fields.draft, stored |-> FALSE]]
    /\ crossedLoad' = (crossedLoad \/ fields.loads # << >>)
    /\ UNCHANGED <<configs, spent>>

ConfigStored ==
    /\ SaveAsked(fields)
    /\ configs' = [configs EXCEPT ![fields.save.type] = fields.save.value]
    /\ fields' = [fields EXCEPT !.save.stored = TRUE]
    /\ UNCHANGED <<crossedLoad, spent>>

ConfigAnswered ==
    /\ SaveStored(fields)
    /\ fields' = Redrawn([fields EXCEPT !.known[fields.save.type] = fields.save.value, !.save = None])
    /\ UNCHANGED <<configs, crossedLoad, spent>>

ConfigSaveFails ==
    /\ fields.save # None /\ Spend("lost") /\ fields' = [fields EXCEPT !.save = None]
    /\ UNCHANGED <<configs, crossedLoad>>

\* A sync sets the 현장종류 to the tabs of its sheet; the settings screen keeps
\* another folder rule.
OthersConfig(t, c) ==
    /\ c # configs[t] /\ Spend("other") /\ configs' = [configs EXCEPT ![t] = c]
    /\ c.fields = configs[t].fields \/ c.rule = configs[t].rule
    /\ UNCHANGED <<fields, crossedLoad>>

FieldsNext ==
    /\ \/ LoadConfigsAgain
       \/ \E i \in DOMAIN fields.loads : ConfigsServed(i) \/ ConfigsArrive(i) \/ ConfigsLost(i)
       \/ \E t \in EditTypes : ChooseConfig(t) \/ \E c \in Config : OthersConfig(t, c)
       \/ \E w \in Wordings : EditFields(w)
       \/ SaveConfig \/ ConfigStored \/ ConfigAnswered \/ ConfigSaveFails
    /\ UNCHANGED layoutVars

EditorsSpec == EditorsInit /\ NothingSpent /\ [][LayoutsNext \/ FieldsNext]_<<editorsVars, spent>>

----------------------------------------------------------------------------
(* Properties *)

\* When nothing is under way, a screen knows what the server has for every
\* 시공종류, unless another client wrote, an answer was lost, or a save was
\* asked for while a load was under way: a load that comes late brings back
\* what was there before the save.  And what was loaded of one 시공종류 is never
\* saved as another's: the folder rules stay, unless another client wrote.
EditorsAreTrue ==
    /\ ~crossedLoad /\ Happened("other") + Happened("lost") = 0 =>
         /\ editor.loads = << >> /\ editor.save = None => editor.saved = layouts
         /\ fields.loads = << >> /\ fields.save = None => fields.known = configs
    /\ Happened("other") = 0 => \A t \in EditTypes : configs[t].rule = FirstRules[t]
=============================================================================
