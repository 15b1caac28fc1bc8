CONSTANTS
    Items = {i1, i2}
    Workers = {w1}
    NoItem = NoItem
    Directors = {d1}
    Supervisors = {s1}
    Educators = {e1}
    EntryTypes = {"SORTIE_EXCEPTIONNELLE", "ENTREE"}
    DisposalTypes = {"PERTE"}
    NoUser = NoUser
    Populations <- MCMovements
    MaxIds = 3
    MaxFaults = 0
SPECIFICATION Spec
INVARIANTS
    AssetsGoOutOnce
CHECK_DEADLOCK FALSE
