CONSTANTS
    Requests = {r1, r2, r3}
    NoRequest = NoRequest
    Expenses = {e1, e2}
    NoExpense = NoExpense
    Directors = {d1}
    Supervisors = {s1}
    NoUser = NoUser
    Lines = {l1}
    NoLine = NoLine
    Amounts = {1, 2}
    Budgets = {3}
    DefaultLines = {l1}
    DefaultBudget = 3
    MaxInFlight = 2
    MaxFaults = 0
SYMMETRY Symmetry
SPECIFICATION Spec
PROPERTIES
    ReservationsAreFrozen
CHECK_DEADLOCK FALSE
