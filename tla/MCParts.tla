------------------------------ MODULE MCParts ------------------------------
(***************************************************************************)
(* Instances of the server's smaller parts and of the screens for TLC.  A  *)
(* behaviour is one of one part, chosen at the start; the others rest in a *)
(* state in which they have nothing to do.                                 *)
(***************************************************************************)
EXTENDS WorkOrders, AdminAccounts, LinkedAccounts, ManualUploads, SiteNumbers, Settings,
        SubmissionForm, AdminTables, IssueLog, OrderReview, GraphTransport, SettingsScreen, FileNaming,
        RecordLists, AppShell, Roster

CONSTANTS
    Parts,                   \* the parts this run looks at
    orderA,                  \* an order
    sheetA, tabA, tabB,
    rowValue,
    companyType,             \* a 시공종류
    password,
    grantA,
    driveA,                  \* the drive that has the files
    kindA, ruleA, targetA, targetB, placeA, placeB,
    typeA, typeB,            \* 시공종류 on the submission screen
    datedOrder,              \* an order with a date and an address
    entryA, openMark, closedMark,
    pageA, pageB, rowA, rowC,
    numberName, addressName, dateName, notesName, secondNotes, mixedName,
    numberA, numberB, streetA, streetB, day, dayAndMore, remark, off, \* cells of a sheet
    call1, nameB,            \* a call of the Graph client, a file name
    panelRule, otherRule, panelType, panelEntry, formOrder,  \* on the settings screen
    calledA, calledB, calledC,         \* names on the roster
    companyA, companyB                 \* 시공종류 that technicians belong to

VARIABLE part  \* the part that runs

\* Where everything is, on sheets and on drives: the rows of the orders are on
\* two tabs of one sheet, the other sheet has none; all files are on one of the drives.
SheetOfKey   == [k \in OrderKeys |-> sheetA]
TabOfKey     == [k \in OrderKeys |-> IF k = orderA THEN tabA ELSE tabB]
DayOfValue   == [v \in RowValues \cup {HandValue} |-> IF v = rowValue THEN 1 ELSE 2]
TabsOfSheet  == [l \in SheetLinks |-> IF l = sheetA THEN {tabA, tabB} ELSE {"empty"}]
DriveOfItem  == [i \in Items |-> driveA]

\* What one PATCH may ask for.
PatchPlans == {<<"disable">>, <<"enable">>, <<"reset">>,
               <<"toCompany">>, <<"setTypes">>, <<"toTech", "setTech">>, <<"remove">>}

\* Two 시공종류 that take work orders, the second with a 현장종류; the office
\* may turn the first to input by hand and drop the 현장종류 of the second.
ByOrder  == [mode |-> "order", shown |-> Inputs \cup {"workOrder"},
             required |-> {"address", "constructionDate", "technicians"}, site |-> FALSE]
BySite   == [ByOrder EXCEPT !.site = TRUE]
ByHand   == [ByOrder EXCEPT !.mode = "manual", !.shown = @ \ {"workOrder"}]
LayoutsOf   == [t \in FormTypes |-> IF t = typeA THEN {ByOrder, ByHand} ELSE {BySite, ByOrder}]
TypeOfOrder == [o \in FormOrders |-> IF o = datedOrder THEN typeA ELSE typeB]
HasOfOrder  == [o \in FormOrders |->
                  {"customerName", "address"} \cup IF o = datedOrder THEN {"constructionDate"} ELSE {}]

\* An order file of two sheets: a row whose date cannot be read, and a
\* cancelled one.
PageOfRow == [l \in FileRows |-> IF l = rowA THEN pageA ELSE pageB]

\* A sheet with two orders, one of which has a date for a number and is off
\* as its notes say; lines and columns that may come between.
SheetAtFirst == <<Line("names", <<numberName, addressName, dateName, notesName>>),
                  Line("order1", <<numberA, streetA, dayAndMore, None>>),
                  Line("order2", <<day, streetB, day, off>>)>>
SheetsAtFirst == {SheetAtFirst, <<Line("names", <<addressName>>)>>}
LinesToCome  == {<< >>, <<remark, remark>>, <<None, streetB, dayAndMore>>}
NamesToCome  == {notesName, secondNotes, mixedName}
WordsToCome  == {off}
NameOfText   == [t \in Texts |-> IF t = secondNotes THEN <<notesName, 2>> ELSE <<t>>]
NamedBy      == [t \in Texts |-> CASE t = numberName  -> {"orderNumber"}
                                   [] t = addressName -> {"address"}
                                   [] t = dateName    -> {"scheduledDate"}
                                   [] t = notesName   -> {"notes"}
                                   [] OTHER           -> {}]
NamedWithin  == [t \in Texts |-> CASE t = secondNotes -> {"notes"}
                                   [] t = mixedName   -> {"customerName", "notes"}
                                   [] OTHER           -> NamedBy[t]]
DayOfText    == [t \in Texts |-> [y \in Years |-> CASE t = day        -> <<2026, day>>
                                                  [] t = dayAndMore -> <<y, day>>
                                                  [] OTHER          -> None]]

\* How often an event of each kind may happen.
Events == [k \in {"row", "tab", "call", "manual", "file", "office", "submit", "link", "crash",
                  "login", "patch", "roster", "signin", "signout", "revoke",
                  "delete", "switch", "expire", "edit",
                  "query", "reply", "office", "order",
                  "refresh", "filter", "bulk", "single", "other",
                  "rename", "upload", "remap", "template", "record", "reload", "change",
                  "busy", "lost", "refuse", "tick", "hand",
                  "rule", "type", "list", "editor",
                  "sheet", "cell", "columns", "ask", "listing", "year"} |->
              CASE k = "refuse" -> 3
                [] k \in {"edit", "patch", "busy", "rule", "list", "ask"} -> 2
                [] OTHER -> 1]
TabEvents == [k \in DOMAIN Events |-> IF k = "tab" THEN 1 ELSE 0]

----------------------------------------------------------------------------
(* Every part running, and at rest *)

\* The second row appears later, if at all.
OrdersRun   == OrdersInit /\ sheet = [k \in OrderKeys |-> IF k = orderA THEN rowValue ELSE None]
OrdersRest  == /\ sheet = [k \in OrderKeys |-> None] /\ gone = {} /\ crossed = {}
               /\ links = {} /\ paused = {} /\ round = {}
               /\ orders = [i \in OrderIds |-> None]
               /\ imports = [p \in Importers |-> IdleImport]
               /\ edits = [e \in Editors |-> IdleEdit] /\ moving = {}

AccountsRun  == AccountsInit /\ \A n \in Names : accounts[n] # None => accounts[n].password = password /\ accounts[n].role = "TECH"
AccountsRest == AccountsInit /\ accounts = [n \in Names |-> None]

LinkedRun  == LinkedInit /\ \E s \in Services : account = [x \in Services |-> IF x = s THEN grantA ELSE None]
LinkedRest == LinkedInit /\ account = [s \in Services |-> None]

\* Calls that race: two for one folder path, and a large upload beside a small
\* one, a listing or a lookup.
WorksOfCall  == [c \in Calls |-> IF c = call1 THEN {"folder", "large"}
                                 ELSE {"folder", "small", "listing", "target"}]
TransportRun == TransportInit /\ made \in {0, Levels}
TransportRest == TransportInit /\ made = 0
SecondPage   == {nameB}

ManualRest == ManualInit /\ target = driveA

\* All three of one day, or two of another long past.
NumbersRun   == /\ NumbersInit
                /\ LET older == {r \in Submissions : submissions[r].series \in LongPast}
                   IN  older \in {{}, CHOOSE two \in SUBSET Submissions : Cardinality(two) = 2}
NumbersRest  == NumbersInit /\ \A r \in Submissions : submissions[r].series \in LongPast

SettingsRun  == SettingsInit /\ mem = [ types   |-> {kindA},
                                        configs |-> [t \in Kinds |-> IF t = kindA THEN ruleA ELSE None],
                                        rule    |-> ruleA,
                                        targets |-> [t \in Targets |-> IF t = targetA THEN placeA ELSE placeB],
                                        active  |-> targetA ]
FormRun == /\ FormInit
           /\ office = [t \in FormTypes |-> IF t = typeA THEN ByOrder ELSE BySite]

TablesRun  == /\ TablesInit
              /\ entries = [e \in Entries |-> IF e = entryA THEN openMark ELSE closedMark]
TablesRest == TablesRun /\ table = "orders"

IssuesRest == IssuesInit /\ backend = "json" /\ open = {}

\* Names of a folder: the default rule, and rules without a kind, with a value
\* of the submission or the original name; an image, and a video and an image
\* without an extension, the last named as if numbered.
NameWords    == {"folder", "kind", "number", "original", "value", "sep", "image", "video",
                 ".jpg", ".mp4", "own", "cam"}
JpgEnd       == <<Atom(".jpg")>>
NameRules    == {DefaultTemplate, <<"folder", "sep", "number">>,
                 <<"value", "sep", "kind", "sep", "number">>,
                 <<"original", "sep", "number">>, <<"sep", "number">>}
FilesAtHand  == {[kind |-> "image", base |-> <<Atom("own")>>, ext |-> JpgEnd],
                 [kind |-> "video", base |-> <<Atom("own")>>, ext |-> << >>],
                 [kind |-> "image", base |-> <<Atom("cam"), Atom("sep"), Counted(1)>>, ext |-> << >>]}
NamingRest   == NamingInit /\ template = DefaultTemplate

\* Two records of different marks.
RecordsRun  == RecordsInit /\ Len(shelf) = 2 /\ mark[1] = NewMark /\ mark[2] # NewMark
RecordsRest == RecordsRun /\ listName = "logs" /\ paging = "offset"

\* One 시공종류 after the other, one entry in every list.
PanelRun == /\ served = [ rule    |-> panelRule,
                          default |-> None,
                          types   |-> [t \in PanelTypes |-> panelRule],
                          lists   |-> [l \in Lists |-> {panelEntry}],
                          active  |-> panelEntry ]
            /\ PanelInit
            /\ panel.type = panelType /\ panel.rule = panelRule /\ panel.draft.rule = panelRule

\* One person of two companies; the master and the manager of one of them.
\* Somebody has just saved the person as it was.
BossOf      == [b \in Bosses |-> IF b = Master THEN Companies ELSE {companyA}]
TagsToAsk   == {{}, {companyA}}
FileOfBoss  == [b \in Bosses |-> IF b = Master THEN {} ELSE {<<[call |-> calledC, tags |-> {companyA}]>>}]
SheetRun    == SheetInit /\ grid = SheetAtFirst /\ year + 1 \in Years
SheetRest   == SheetInit /\ grid # SheetAtFirst /\ year + 1 \in Years

RosterRest  == /\ people = [t \in PersonIds |-> IF t = 1 THEN [call |-> calledA, tags |-> Companies] ELSE None]
               /\ RosterInit
RosterRun   == /\ people = [t \in PersonIds |-> IF t = 1 THEN [call |-> calledA, tags |-> Companies] ELSE None]
               /\ keptPeople = people
               /\ tasks = <<[by |-> Master, op |-> "edit", id |-> 1, call |-> calledA, tags |-> None,
                             rows |-> << >>, behind |-> FALSE, copy |-> people]>>
               /\ previews = [b \in Bosses |-> None]
               /\ known = Companies /\ rosterDoubt = FALSE

\* A stretch of five months around a February of four weeks; two orders, of
\* which one loses its 현장종류 with the tab it was on.
FiveMonths  == <<31, 31, 28, 31, 30>>
TwoEditions == LET order(t, s) == [type |-> t, site |-> s]
               IN  <<{order(companyA, tabA), order(companyB, tabB)},
                     {order(companyA, None), order(companyB, tabB)}>>

GridRest    == shift = 0 /\ dayView = "day" /\ dayAnchor = MonthStart[2] /\ openDay = None

RuleOfType == [t \in EditTypes |-> IF t = panelType THEN panelRule ELSE otherRule]

Init ==
    /\ part \in Parts
    /\ NothingSpent
    /\ IF part = "orders"   THEN OrdersRun   ELSE OrdersRest
    /\ IF part = "accounts" THEN AccountsRun ELSE AccountsRest
    /\ IF part = "linked"   THEN LinkedRun   ELSE LinkedRest
    /\ IF part = "tables"   THEN TablesRun   ELSE TablesRest
    /\ IF part = "issues"   THEN IssuesInit  ELSE IssuesRest
    /\ IF part = "transport" THEN TransportRun ELSE TransportRest
    /\ IF part = "naming" THEN NamingInit ELSE NamingRest
    /\ IF part = "records" THEN RecordsRun ELSE RecordsRest
    /\ IF part = "numbers" THEN NumbersRun ELSE NumbersRest
    /\ IF part = "sheet" THEN SheetRun ELSE SheetRest
    /\ RangeInit /\ ShellInit
    /\ IF part = "grid" THEN GridInit ELSE GridRest
    /\ ScheduleInit
    /\ EditorsInit /\ layouts = [t \in EditTypes |-> formOrder] /\ editor.type = panelType
    /\ IF part = "manual" THEN ManualInit ELSE ManualRest
    /\ SettingsRun /\ FormRun /\ ReviewInit /\ PanelRun
    /\ IF part = "roster" THEN RosterRun ELSE RosterRest

----------------------------------------------------------------------------
vars == <<part, spent, ordersVars, accountsVars, linkedVars, manualVars,
          numbersVars, settingsVars, formVars, tablesVars, issuesVars,
          reviewVars, transportVars, panelVars, namingVars,
          recordsVars, rangeVars, shellVars, sheetVars, rosterVars,
          calendarVars, editorsVars>>

\* All parts but p stay as they are.
OthersRest(p) ==
    /\ UNCHANGED part
    /\ IF p = "orders" THEN TRUE ELSE UNCHANGED ordersVars
    /\ IF p = "accounts" THEN TRUE ELSE UNCHANGED accountsVars
    /\ IF p = "linked" THEN TRUE ELSE UNCHANGED linkedVars
    /\ IF p = "manual" THEN TRUE ELSE UNCHANGED manualVars
    /\ IF p = "numbers" THEN TRUE ELSE UNCHANGED numbersVars
    /\ IF p = "settings" THEN TRUE ELSE UNCHANGED settingsVars
    /\ IF p = "form" THEN TRUE ELSE UNCHANGED formVars
    /\ IF p = "tables" THEN TRUE ELSE UNCHANGED tablesVars
    /\ IF p = "issues" THEN TRUE ELSE UNCHANGED issuesVars
    /\ IF p = "review" THEN TRUE ELSE UNCHANGED reviewVars
    /\ IF p = "transport" THEN TRUE ELSE UNCHANGED transportVars
    /\ IF p = "screen" THEN TRUE ELSE UNCHANGED panelVars
    /\ IF p = "naming" THEN TRUE ELSE UNCHANGED namingVars
    /\ IF p = "records" THEN TRUE ELSE UNCHANGED recordsVars
    /\ IF p = "period" THEN TRUE ELSE UNCHANGED rangeVars
    /\ IF p = "shell" THEN TRUE ELSE UNCHANGED shellVars
    /\ IF p = "sheet" THEN TRUE ELSE UNCHANGED sheetVars
    /\ IF p = "calendar" THEN TRUE ELSE UNCHANGED calendarVars
    /\ IF p = "roster" THEN TRUE ELSE UNCHANGED rosterVars
    /\ IF p = "editors" THEN TRUE ELSE UNCHANGED editorsVars

Next ==
    \/ part = "orders" /\ OrdersNext /\ OthersRest("orders")
    \/ part = "accounts" /\ AccountsNext /\ OthersRest("accounts")
    \/ part = "linked" /\ LinkedNext /\ OthersRest("linked")
    \/ part = "manual" /\ ManualNext /\ OthersRest("manual")
    \/ part = "numbers" /\ NumbersNext /\ OthersRest("numbers")
    \/ part = "settings" /\ SettingsNext /\ OthersRest("settings")
    \/ part = "form" /\ FormNext /\ OthersRest("form")
    \/ part = "tables" /\ TablesNext /\ OthersRest("tables")
    \/ part = "issues" /\ IssuesNext /\ OthersRest("issues")
    \/ part = "review" /\ ReviewNext /\ OthersRest("review")
    \/ part = "transport" /\ TransportNext /\ OthersRest("transport")
    \/ part = "naming" /\ NamingNext /\ OthersRest("naming")
    \/ part = "records" /\ RecordsNext /\ OthersRest("records")
    \/ part = "period" /\ RangeNext /\ OthersRest("period")
    \/ part = "shell" /\ ShellNext /\ OthersRest("shell")
    \/ part = "sheet" /\ SheetNext /\ OthersRest("sheet")
    \/ part = "roster" /\ RosterNext /\ OthersRest("roster")
    \/ part = "grid" /\ GridNext /\ OthersRest("calendar")
    \/ part = "schedule" /\ ScheduleNext /\ OthersRest("calendar")
    \/ part = "layouts" /\ LayoutsNext /\ OthersRest("editors")
    \/ part = "fields" /\ FieldsNext /\ OthersRest("editors")
    \/ part = "rules" /\ RulesNext /\ OthersRest("screen")
    \/ part = "lists" /\ ListsNext /\ OthersRest("screen")
    \/ part \in {"rules", "lists"} /\ (\E t \in trips : TripEnds(t)) /\ OthersRest("screen")

\* The fairness of the part that runs, as its module states it.
Fairness ==
    /\ WF_<<ordersVars, spent>>(part = "orders" /\ TickStarts)
    /\ WF_<<ordersVars, spent>>(part = "orders" /\ \E l \in SheetLinks : TickReads(l) \/ TickSkips(l))
    /\ \A p \in Importers : WF_<<ordersVars, spent>>(part = "orders" /\ SyncStep(p))
    /\ \A e \in Editors : WF_<<ordersVars, spent>>(part = "orders" /\ EditStep(e))
    /\ \A v \in Visitors : WF_<<accountsVars, spent>>(part = "accounts" /\ VisitStep(v))
    /\ \A c \in Clerks : WF_<<accountsVars, spent>>(part = "accounts" /\ PatchStep(c))
    /\ \A n \in Names : WF_<<accountsVars, spent>>(part = "accounts" /\ Expire(n))
    /\ WF_<<accountsVars, spent>>(part = "accounts" /\ RosterDrops)
    /\ \A a \in Admins : WF_<<linkedVars, spent>>(part = "linked" /\ SignInAnswered(a))
    /\ \A a \in Actors : WF_<<linkedVars, spent>>(part = "linked" /\ SaveLands(a))
    /\ \A s \in Services : /\ WF_<<linkedVars, spent>>(part = "linked" /\ RefreshEnds(s))
                           /\ WF_<<linkedVars, spent>>(part = "linked" /\ TokenExpires(s))
    /\ WF_<<manualVars, spent>>(part = "manual" /\ PassStep)
    /\ WF_<<manualVars, spent>>(part = "manual" /\ ResetSaves)

Spec == Init /\ [][Next]_vars /\ Fairness

\* Every variable of the part that runs has its type; the others never change.
TypeOK ==
    /\ part \in Parts /\ SpentOK
    /\ CASE part = "orders"   -> OrdersTypeOK
         [] part = "accounts" -> AccountsTypeOK
         [] part = "linked"   -> LinkedTypeOK
         [] part = "manual"   -> ManualTypeOK
         [] part = "numbers"  -> NumbersTypeOK
         [] part = "settings" -> SettingsTypeOK
         [] part = "form"     -> FormTypeOK
         [] part = "tables"   -> TablesTypeOK
         [] part = "issues"   -> IssuesTypeOK
         [] part = "review"   -> ReviewTypeOK
         [] part = "transport" -> TransportTypeOK
         [] part = "naming" -> NamingTypeOK
         [] part = "records" -> RecordsTypeOK
         [] part = "period" -> RangeTypeOK
         [] part = "shell" -> ShellTypeOK
         [] part = "sheet" -> SheetTypeOK
         [] part = "roster" -> RosterTypeOK
         [] part \in {"grid", "schedule"} -> CalendarTypeOK
         [] part \in {"layouts", "fields"} -> EditorsTypeOK
         [] part \in {"rules", "lists"} -> PanelTypeOK
=============================================================================
