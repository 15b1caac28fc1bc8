CONSTANTS
    r1 = r1
    r2 = r2
    c1 = c1
    c2 = c2
    Slots = {slot}
    NoSlot = NoSlot
    MaxKeys = 3
    FileWorkers = {c1, c2}
    FileSlots <- MCFileSlots
    Reports = {report1}
    Photos = {photo1}
    NoReport = NoReport
    ReportWorkers = {c1, c2}
    MaxFiles = 2
    MaxTeamRows = 3
    MaxTeamEdits = 3
    TeamCalls = {c1, c2}
    PageRows = {r1, r2}
    NoPageRow = NoPageRow
    PageCalls = {c1, c2}
    Pages <- AllPages
    MaxOpenings = 2
    MaxEdits = 3
    UserRoles = {"director", "educator", "supervisor", "board"}
    MaxLogins = 2
    MaxVisits = 2
    MaxContacts = 2
    Marks = {mark1}
    CategoryNames = {category1}
    NoName = NoName
    ContactWorkers = {c1, c2}
    Texts = {text1, text2}
    NoText = NoText
    Categories = {category1, category2, category3}
    NoCategory = NoCategory
    MaxOvertaken = 1
    MaxAlertTypes = 2
    Recipients = {r1, r2}
    AlertReaders = {c1, c2}
    ReportedAs = {"EN_COURS", "PLANIFIE"}
    Selectable = {"EN_COURS", "EN_ATTENTE", "RESOLU"}
    NoStatus = NoStatus
    IncidentWorkers = {c1, c2}
    MaxChanges = 3
    ProfileWorkers = {c1, c2}
SPECIFICATION Spec
SYMMETRY Symmetry
INVARIANTS
    RowsHaveTheirFiles
    SentReportsAreCommunicated
    EveryoneIsOnOneList
    PagesShowTheirRows
    FormsSaveOnce
    MenuPagesLoad
    ContactsAreSought
    SavedContactIsPicked
    ListIsWhatIsAsked
    AlertsComeOnce
    HistoryTellsTheStatus
    RecurringFollowsType
CHECK_DEADLOCK FALSE
