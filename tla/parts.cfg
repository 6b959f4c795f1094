SPECIFICATION Spec
CONSTANTS
    None = none
    MaxKinds = 2
    Budget <- Events
    Parts = {"numbers", "settings", "form", "tables", "issues", "review", "transport", "rules",
             "lists", "naming", "records", "period", "shell", "sheet", "roster", "grid",
             "schedule", "layouts", "fields"}
    orderA = orderA
    OrderKeys = {orderA, orderB}
    sheetA = sheetA
    SheetLinks = {sheetA, sheetB}
    tabA = tabA
    tabB = tabB
    LinkOf <- SheetOfKey
    TabOf <- TabOfKey
    TabsOf <- TabsOfSheet
    rowValue = rowValue
    RowValues = {rowValue, otherValue}
    Unfit = unfit
    HandValue = typed
    DayOf <- DayOfValue
    OrderIds = {id1, id2, id3}
    Names = {user}
    companyType = companyType
    Types = {companyType}
    Techs = {tech}
    password = password
    Passwords = {password, newPassword}
    Logins = {login}
    Requests = {request}
    Clerks = {clerk1, clerk2}
    Plans <- PatchPlans
    Services = {"microsoft", "google", "key"}
    grantA = grantA
    Grants = {grantA, grantB}
    Admins = {admin1, admin2}
    driveA = driveA
    Drives = {driveA, driveB}
    Items = {fileA, fileB}
    DriveOf <- DriveOfItem
    Series = {recent, old}
    LongPast = {old}
    Submissions = {sub1, sub2, sub3}
    MaxProbes = 2
    kindA = kindA
    Kinds = {kindA, kindB}
    ruleA = ruleA
    Rules = {ruleA, ruleB}
    targetA = targetA
    targetB = targetB
    Targets = {targetA, targetB}
    placeA = placeA
    placeB = placeB
    Places = {placeA, placeB}
    Managers = {manager1, manager2}
    typeA = typeA
    typeB = typeB
    FormTypes = {typeA, typeB}
    datedOrder = datedOrder
    FormOrders = {datedOrder, undatedOrder}
    OrderType <- TypeOfOrder
    OrderHas <- HasOfOrder
    FormTechs = {tech1}
    Inputs = {"siteFields", "address", "constructionDate", "technicians"}
    Layouts <- LayoutsOf
    Tables = {"orders", "roster"}
    entryA = entryA
    Entries = {entryA, entryB}
    openMark = openMark
    closedMark = closedMark
    Marks = {openMark, closedMark}
    Clicks = {click1, click2}
    Issues = {issue1}
    Writers = {writer1, writer2}
    pageA = pageA
    pageB = pageB
    Pages = {pageA, pageB}
    rowA = rowA
    rowC = rowC
    FileRows = {rowA, rowC}
    PageOf <- PageOfRow
    numberName = numberName
    addressName = addressName
    dateName = dateName
    notesName = notesName
    secondNotes = secondNotes
    mixedName = mixedName
    numberA = numberA
    numberB = numberB
    streetA = streetA
    streetB = streetB
    day = day
    dayAndMore = dayAndMore
    remark = remark
    off = off
    Texts = {numberName, addressName, dateName, notesName, secondNotes, mixedName, numberA,
             numberB, streetA, streetB, day, dayAndMore, remark, off}
    Plain = {numberName, addressName, dateName, notesName, secondNotes, mixedName, numberA,
             numberB, streetA, streetB, dayAndMore, remark, off}
    Undone = {off}
    Stamps = {day}
    NameIn <- NameOfText
    AliasOf <- NamedBy
    PartOf <- NamedWithin
    Years = {2026, 2027}
    DateIn <- DayOfText
    SheetLines = {"names", "order1", "order2", "new"}
    FirstSheets <- SheetsAtFirst
    NewLines <- LinesToCome
    NewNames <- NamesToCome
    NewWords <- WordsToCome
    Unreadable = {rowA}
    Cancelled = {rowC}
    call1 = call1
    Calls = {call1, call2}
    WorksOf <- WorksOfCall
    nameB = nameB
    FileNames = {nameA, nameB}
    LateNames <- SecondPage
    Levels = 2
    Pieces = 2
    MaxRetries = 1
    Lifetime = 0
    panelType = panelType
    PanelTypes = {panelType, otherType}
    panelRule = panelRule
    PanelRules = {panelRule, otherRule}
    otherRule = otherRule
    formOrder = formOrder
    EditTypes = {panelType, otherType}
    Wordings = {formOrder, defaultOrder}
    DefaultLayout = defaultOrder
    EditRules = {panelRule, otherRule}
    FirstRules <- RuleOfType
    Words <- NameWords
    Templates <- NameRules
    Attachments <- FilesAtHand
    MaxFiles = 2
    Days = {1, 2}
    MaxRecords = 3
    NewMark = recordMark
    RecordMarks = {recordMark, otherMark}
    PageSize = 1
    Loads = {1, 2}
    Sites = {site1, site2}
    RecentSites = {site1}
    MaxAnswers = 1
    MonthLengths <- FiveMonths
    CalendarTypes = {companyA, companyB}
    SiteKinds = {tabA, tabB}
    Editions <- TwoEditions
    calledA = calledA
    calledB = calledB
    calledC = calledC
    Callings = {calledA, calledB, calledC}
    companyA = companyA
    companyB = companyB
    Companies = {companyA, companyB}
    Master = master
    Bosses = {master, boss}
    CompaniesOf <- BossOf
    TagChoices <- TagsToAsk
    FilesOf <- FileOfBoss
    PersonIds = {1, 2, 3, 4}
    MaxPeople = 2
    panelEntry = panelEntry
    PanelEntries = {panelEntry, otherEntry}
INVARIANTS
    TypeOK
    SettingsAgree
    FilingsAreMeant
    AnsweredIsKept
    AnswersAreHonest
    NoBlankScreen
    SettledScreenIsTrue
PROPERTIES
    NamesAreSound
    SubmissionsStayApart
    RosterStaysRight
    ListsTellTheTruth
    ValidFormsAreAccepted
    OnlyWhatWasSeen
    OrdersComeFromTheirRows
    UploadsKeepTheirPromise
    SavesAreMeant
CHECK_DEADLOCK FALSE
