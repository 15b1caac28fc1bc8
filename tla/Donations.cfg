CONSTANTS
    Requests = {r1, r2, r3}
    NoRequest = NoRequest
    Keys = {k1}
    EmptyKey = EmptyKey
    NoKey = NoKey
    Donors = {donor}
    Campaigns = {c1}
    NoCampaign = NoCampaign
    Amounts = {a1, a2}
    NoAmount = NoAmount
    MaxInFlight = 3
    MaxFaults = 1
SYMMETRY Symmetry
SPECIFICATION Spec
INVARIANTS
    TypeOK
    LedgerMatchesDonations
    RetriesAgree
    DraftsHaveNoDonations
PROPERTIES
    ImplementsLedger
CHECK_DEADLOCK FALSE
