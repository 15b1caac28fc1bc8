CONSTANTS
    Items = {i1}
    Workers = {w1, w2}
    NoItem = NoItem
    Directors = {d1}
    Supervisors = {s1}
    Educators = {e1}
    EntryTypes = {"SORTIE_EXCEPTIONNELLE", "ENTREE"}
    DisposalTypes = {"PERTE"}
    NoUser = NoUser
    Populations <- MCPopulations
    MaxIds = 3
    MaxFaults = 1
SYMMETRY Symmetry
SPECIFICATION Spec
INVARIANTS
    RequestsAgree
    PendingStaysSensible
    OfferedIsAccepted
PROPERTIES
    SensitiveChangesAreDecided
    ArchivedStaysArchived
CHECK_DEADLOCK FALSE
