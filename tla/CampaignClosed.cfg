CONSTANTS
    Requests = {r1, r2, r3}
    NoRequest = NoRequest
    Keys = {k1}
    EmptyKey = EmptyKey
    NoKey = NoKey
    Donors = {donor}
    Campaigns = {c1}
    NoCampaign = NoCampaign
    Amounts = {a1, a2}
    NoAmount = NoAmount
    MaxInFlight = 2
    MaxFaults = 0
SYMMETRY Symmetry
SPECIFICATION Spec
PROPERTIES
    OnlyAllowedTransitions
CHECK_DEADLOCK FALSE
