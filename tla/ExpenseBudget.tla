--------------------------- MODULE ExpenseBudget ---------------------------
(***************************************************************************)
(* The expenses of hadoum_api: the Transaction rows, the budget lines they *)
(* draw on, the validation requests about them, and the handlers of        *)
(* ExpenseWorkflowService and FinancesService that read and write them.    *)
(*                                                                         *)
(* A handler is a process.  The database runs READ COMMITTED: a statement  *)
(* sees what other transactions have committed when it starts.  An         *)
(* approval is one transaction of several statements; it holds the row     *)
(* lock of a budget line from its second statement to its end.  From the   *)
(* guarded write on, a transaction holds the row of its expense and        *)
(* touches rows that only holders of that row touch: the write, the        *)
(* validation request and the commit are one step.  A handler refused by   *)
(* the checks that follow its first read is not a step.  Notifications,    *)
(* sent after the commit, change no state of this module.                  *)
(*                                                                         *)
(* A "line" is a category and a month, of a BudgetLine or of an expense    *)
(* (from its category and its date).  An operator whose comment begins     *)
(* with "Mutant" is no part of the model: it is the operator below it with *)
(* a plausible mistake, which a property of this module must catch.        *)
(*                                                                         *)
(* The variables overtaken and moved are history that the program does not *)
(* keep.                                                                   *)
(***************************************************************************)
EXTENDS Integers, Sequences, FiniteSetsExt

CONSTANTS
    Requests,        \* the HTTP calls of a behaviour, each made once
    NoRequest,       \* the holder of a row nobody has locked
    Expenses,        \* the identifiers of Transaction rows
    NoExpense,       \* the target of a handler that has none
    Directors,       \* users holding the role DIRECTOR
    Supervisors,     \* users holding the role SUPERVISOR
    NoUser,          \* the null of a user column
    Lines,           \* categories and months
    NoLine,          \* the line an update leaves out
    Amounts,         \* amounts of an expense, @Min(1)
    Budgets,         \* amounts of a budget line
    DefaultLines,    \* lines of the default budget
    DefaultBudget,   \* the amount it gives them
    MaxInFlight,     \* bound: handlers that may overlap
    MaxFaults        \* bound: handlers that may die between two steps

Users == Directors \cup Supervisors

ASSUME AmountsAssumption == Amounts \subseteq Nat \ {0}
ASSUME BudgetsAssumption == Budgets \subseteq Nat /\ DefaultBudget \in Nat
ASSUME NullsAssumption ==
    /\ NoRequest \notin Requests
    /\ NoExpense \notin Expenses
    /\ NoLine \notin Lines
    /\ NoUser \notin Users
ASSUME FaultsAssumption == MaxFaults \in Nat
ASSUME NonemptyAssumption == Lines # {} /\ Amounts # {}
ASSUME ExpensesAssumption == IsFiniteSet(Expenses)

VARIABLES
    expenses,     \* the Transaction rows
    budgets,      \* the BudgetLine rows
    validations,  \* the ValidationRequest rows of each expense, oldest first
    holder,       \* who holds the row lock of each budget line
    pc,           \* the next step of every handler
    local,        \* what every handler holds in memory
    faults,       \* handlers that died so far
    overtaken,    \* approvals in flight whose figures others have changed
    moved         \* decided expenses whose line, amount or type has changed since

vars == <<expenses, budgets, validations, holder, pc, local, faults, overtaken, moved>>

(***************************************************************************)
(* Rows.                                                                   *)
(***************************************************************************)
TransactionTypes == {"DEPENSE", "RECETTE"}

TransactionStatuses == {"VALIDE", "EN_ATTENTE"}

NullState == "NULL"

ExpenseWorkflowStatuses ==
    {"PENDING_APPROVAL", "APPROVED", "REJECTED", "COMPLETED", "CANCELLED"}

\* A row is absent until it is created, and never comes back once deleted.
ExpenseRows ==
    [life : {"absent", "stored", "deleted"},
     type : TransactionTypes,
     line : Lines,
     amountXof : Amounts,
     status : TransactionStatuses,
     expenseWorkflowStatus : ExpenseWorkflowStatuses \cup {NullState}]

Stored(e) == expenses[e].life = "stored"

State(e) == expenses[e].expenseWorkflowStatus

NoBudget == -1

ValidationRows ==
    [status : {"PENDING_VALIDATION", "APPROVED", "REJECTED"},
     submittedBy : Users,
     reviewedBy : Users \cup {NoUser}]

PendingIn(requests) ==
    {v \in DOMAIN requests : requests[v].status = "PENDING_VALIDATION"}

(***************************************************************************)
(* The state machine of ExpenseWorkflowService.                            *)
(***************************************************************************)
\* Mutant: an expense may be cancelled while its approval is pending.
AllowedTransitionsLoose ==
    [NULL |-> {"PENDING_APPROVAL"},
     PENDING_APPROVAL |-> {"APPROVED", "REJECTED", "CANCELLED"},
     REJECTED |-> {"PENDING_APPROVAL"},
     APPROVED |-> {"COMPLETED", "CANCELLED"},
     COMPLETED |-> {},
     CANCELLED |-> {}]

AllowedTransitions ==
    [NULL |-> {"PENDING_APPROVAL"},
     PENDING_APPROVAL |-> {"APPROVED", "REJECTED"},
     REJECTED |-> {"PENDING_APPROVAL"},
     APPROVED |-> {"COMPLETED", "CANCELLED"},
     COMPLETED |-> {},
     CANCELLED |-> {}]

CanTransition(from, to) == to \in AllowedTransitions[from]

Decided == {"APPROVED", "COMPLETED", "CANCELLED"}

\* Mutant: an expense is locked while it is reserved, and no longer.
FinanciallyLockedStatesShort == {"APPROVED"}

FinanciallyLockedStates == Decided

(***************************************************************************)
(* Handlers.  Steps after the first read:                                  *)
(*   lock, sum1, sum2, sum3     an approval up to its decision             *)
(*   close        the guarded write of a decision, with its request        *)
(*   submit       the guarded write of a submission, with its request      *)
(*   apply        one unguarded statement                                  *)
(***************************************************************************)
Steps == {"lock", "sum1", "sum2", "sum3", "close", "submit", "apply"}

Calls == {"submit", "resubmit", "approve", "reject", "complete", "cancel",
          "create", "update", "delete", "setBudget", "deleteBudget", "ensureDefaults"}

\* The body of a PATCH: what it leaves out is "keep", NoLine or 0.
UpdateDtos ==
    [type : TransactionTypes \cup {"keep"},
     line : Lines \cup {NoLine},
     amountXof : Amounts \cup {0},
     status : TransactionStatuses \cup {"keep"}]

NoDto == [type |-> "keep", line |-> NoLine, amountXof |-> 0, status |-> "keep"]

\* Bodies that give one field.
OneField ==
    {[NoDto EXCEPT !.type = t] : t \in TransactionTypes} \cup
    {[NoDto EXCEPT !.line = l] : l \in Lines} \cup
    {[NoDto EXCEPT !.amountXof = a] : a \in Amounts} \cup
    {[NoDto EXCEPT !.status = s] : s \in TransactionStatuses}

\* The rows an aggregate summed, each with the amount it had.
Summed == SUBSET (Expenses \X Amounts)

NoCall ==
    [call |-> "none", by |-> NoUser, target |-> NoExpense, from |-> NullState,
     line |-> NoLine, amount |-> 0, dto |-> NoDto, budget |-> 0, sum1 |-> {}, sum2 |-> {}]

Locals ==
    [call : Calls \cup {"none"},
     by : Users \cup {NoUser},
     target : Expenses \cup {NoExpense},
     from : ExpenseWorkflowStatuses \cup {NullState},
     line : Lines \cup {NoLine},
     amount : Amounts \cup {0},
     dto : UpdateDtos,
     budget : Nat,
     sum1 : Summed,
     sum2 : Summed]

InFlight == {r \in Requests : pc[r] \in Steps}

MayStart(r) ==
    /\ pc[r] = "idle"
    /\ Cardinality(InFlight) < MaxInFlight

Begin(r, step, handler) ==
    /\ MayStart(r)
    /\ pc' = [pc EXCEPT ![r] = step]
    /\ local' = [local EXCEPT ![r] = handler]
    /\ UNCHANGED <<expenses, budgets, validations, holder, faults, overtaken, moved>>

\* A handler served by one statement.
AtOnce(r) ==
    /\ MayStart(r)
    /\ pc' = [pc EXCEPT ![r] = "done"]
    /\ UNCHANGED <<local, holder, faults>>

Goto(r, step) == pc' = [pc EXCEPT ![r] = step]

\* Mutant: the lock outlives the transaction that took it.
ReleaseNothing(r) == holder

Release(r) == [l \in Lines |-> IF holder[l] = r THEN NoRequest ELSE holder[l]]

\* The expenses of line l in a state, with their amounts.
Bucket(l, state) ==
    {<<e, expenses[e].amountXof>> : e \in
        {d \in Expenses : /\ Stored(d)
                          /\ expenses[d].type = "DEPENSE"
                          /\ expenses[d].line = l
                          /\ State(d) = state}}

\* Those that never entered the workflow count once they are VALIDE.
LegacyRealized(l) ==
    {pair \in Bucket(l, NullState) : expenses[pair[1]].status = "VALIDE"}

\* What counts against a line: reserved, consumed or realized.
Counted(l) == Bucket(l, "APPROVED") \cup Bucket(l, "COMPLETED") \cup LegacyRealized(l)

\* The figures of expense e stay.
SameFigures(e) ==
    /\ expenses'[e].line = expenses[e].line
    /\ expenses'[e].amountXof = expenses[e].amountXof
    /\ expenses'[e].type = expenses[e].type

\* Approval s goes on from figures that the step of r has just changed: those of its
\* expense, or, once it has a sum, what counts against its line.  An approval that
\* is not overtaken itself overtakes nobody by what it reserves: the lock of the
\* line is there for that.
Overtakes(r, s) ==
    LET h == local[s]
    IN  /\ s # r /\ pc[s] \in Steps /\ h.call = "approve"
        /\ \/ ~SameFigures(h.target)
           \/ /\ pc[s] \in {"sum2", "sum3", "close"}
              /\ local[r].call = "approve" => r \in overtaken
              /\ ~(Counted(h.line)' \subseteq Counted(h.line))

\* The history, at a step that writes expenses or ends handler r.
Remember(r) ==
    /\ overtaken' = (overtaken \cup {s \in Requests : Overtakes(r, s)}) \ {r}
    /\ moved' = moved \cup {e \in Expenses : State(e) \in Decided /\ ~SameFigures(e)}

\* A handler ends, its transaction committed or rolled back.
Finish(r) ==
    /\ pc' = [pc EXCEPT ![r] = "done"]
    /\ local' = [local EXCEPT ![r] = NoCall]
    /\ holder' = Release(r)
    /\ Remember(r)

\* It is refused: nothing it wrote remains.
Refuse(r) == UNCHANGED <<expenses, budgets, validations, faults>> /\ Finish(r)

Handler(call, u, e) ==
    [NoCall EXCEPT !.call = call, !.by = u, !.target = e, !.from = State(e)]

(***************************************************************************)
(* Single statements: a new transaction, and the budget lines.  A write to *)
(* a line waits for its row lock.                                          *)
(***************************************************************************)
Create(r, e, row) ==
    /\ AtOnce(r)
    /\ expenses[e].life = "absent"
    /\ expenses' = [expenses EXCEPT ![e] = row]
    /\ Remember(r)
    /\ UNCHANGED <<budgets, validations>>

SetBudget(r, l, b) ==
    /\ AtOnce(r)
    /\ holder[l] = NoRequest
    /\ budgets' = [budgets EXCEPT ![l] = b]
    /\ UNCHANGED <<expenses, validations, overtaken, moved>>

DeleteBudget(r, l) ==
    /\ AtOnce(r)
    /\ holder[l] = NoRequest
    /\ budgets[l] # NoBudget
    /\ budgets' = [budgets EXCEPT ![l] = NoBudget]
    /\ UNCHANGED <<expenses, validations, overtaken, moved>>

\* createMany with skipDuplicates: only missing lines are written.
EnsureDefaults(r) ==
    /\ AtOnce(r)
    /\ budgets' = [l \in Lines |-> IF l \in DefaultLines /\ budgets[l] = NoBudget
                                   THEN DefaultBudget ELSE budgets[l]]
    /\ UNCHANGED <<expenses, validations, overtaken, moved>>

(***************************************************************************)
(* First reads, and the checks on what they returned.                      *)
(***************************************************************************)
StartSubmit(r, u, e) ==
    /\ Stored(e)
    /\ expenses[e].type = "DEPENSE"
    /\ State(e) = NullState
    /\ Begin(r, "submit", Handler("submit", u, e))

StartResubmit(r, u, e) ==
    /\ Stored(e)
    /\ State(e) = "REJECTED"
    /\ Begin(r, "submit", Handler("resubmit", u, e))

\* The line to lock and the amount to reserve are those of this read.
StartApprove(r, u, e) ==
    /\ Stored(e)
    /\ CanTransition(State(e), "APPROVED")
    /\ Begin(r, "lock", [Handler("approve", u, e) EXCEPT
            !.line = expenses[e].line, !.amount = expenses[e].amountXof])

StartReject(r, u, e) ==
    /\ Stored(e)
    /\ CanTransition(State(e), "REJECTED")
    /\ Begin(r, "close", Handler("reject", u, e))

Target(call) == IF call = "complete" THEN "COMPLETED" ELSE "CANCELLED"

\* Mutant: performTransition forgets validateTransition.
StartLifecycleUnchecked(r, u, e, call) ==
    Stored(e) /\ Begin(r, "apply", Handler(call, u, e))

StartLifecycle(r, u, e, call) ==
    /\ Stored(e)
    /\ CanTransition(State(e), Target(call))
    /\ Begin(r, "apply", Handler(call, u, e))

TouchesLockedField(row, dto) ==
    \/ dto.amountXof \notin {0, row.amountXof}
    \/ dto.line \notin {NoLine, row.line}
    \/ dto.type \notin {"keep", row.type}

StartUpdate(r, e, dto) ==
    /\ Stored(e)
    /\ State(e) \in FinanciallyLockedStates => ~TouchesLockedField(expenses[e], dto)
    /\ Begin(r, "apply", [Handler("update", NoUser, e) EXCEPT !.dto = dto])

StartDelete(r, e) ==
    /\ Stored(e)
    /\ Begin(r, "apply", Handler("delete", NoUser, e))

(***************************************************************************)
(* The approval, statement by statement.                                   *)
(***************************************************************************)
\* SELECT ... FOR UPDATE: waits for the lock, then reads the amount.
LockBudgetLine(r) ==
    LET l == local[r].line
    IN  /\ pc[r] = "lock"
        /\ holder[l] = NoRequest
        /\ IF budgets[l] = NoBudget
           THEN Refuse(r)
           ELSE /\ holder' = [holder EXCEPT ![l] = r]
                /\ local' = [local EXCEPT ![r].budget = budgets[l]]
                /\ Goto(r, "sum1")
                /\ UNCHANGED <<expenses, budgets, validations, faults, overtaken, moved>>

Total(pairs) == MapThenSumSet(LAMBDA pair : pair[2], pairs)

\* Mutant: what is consumed is read before what is reserved.
SumOrderSwapped == <<"COMPLETED", "APPROVED">>

\* The aggregates share one connection, which runs them in this order.
SumOrder == <<"APPROVED", "COMPLETED">>

SumFirst(r) ==
    /\ pc[r] = "sum1"
    /\ local' = [local EXCEPT ![r].sum1 = Bucket(local[r].line, SumOrder[1])]
    /\ Goto(r, "sum2")
    /\ UNCHANGED <<expenses, budgets, validations, holder, faults, overtaken, moved>>

SumSecond(r) ==
    /\ pc[r] = "sum2"
    /\ local' = [local EXCEPT ![r].sum2 = Bucket(local[r].line, SumOrder[2])]
    /\ Goto(r, "sum3")
    /\ UNCHANGED <<expenses, budgets, validations, holder, faults, overtaken, moved>>

Fits(h, legacy) ==
    h.amount + Total(h.sum1) + Total(h.sum2) + Total(legacy) <= h.budget

SumLegacy(r) ==
    /\ pc[r] = "sum3"
    /\ IF Fits(local[r], LegacyRealized(local[r].line))
       THEN /\ Goto(r, "close")
            /\ UNCHANGED <<expenses, budgets, validations, holder, local, faults,
                           overtaken, moved>>
       ELSE Refuse(r)

(***************************************************************************)
(* Guarded writes.                                                         *)
(***************************************************************************)
\* The WHERE of atomicWrite.
Matches(e, from) == Stored(e) /\ State(e) = from

SetState(e, to) ==
    expenses' = [expenses EXCEPT ![e].expenseWorkflowStatus = to]

\* Mutant: the oldest request is reviewed, whatever its status.
IsReviewedOldest(requests, v) == v = 1

\* findPendingFor returns the latest pending request.
IsReviewed(requests, v) ==
    /\ v \in PendingIn(requests)
    /\ \A w \in PendingIn(requests) : w <= v

Decision(call) == IF call = "approve" THEN "APPROVED" ELSE "REJECTED"

\* The decision and the review of the request, which nobody makes of their own.
CanClose(r, v) ==
    LET e == local[r].target
    IN  /\ Matches(e, "PENDING_APPROVAL")
        /\ IsReviewed(validations[e], v)
        /\ validations[e][v].submittedBy # local[r].by

Close(r) ==
    LET e == local[r].target
        to == Decision(local[r].call)
    IN  /\ pc[r] = "close"
        /\ \/ \E v \in DOMAIN validations[e] :
                /\ CanClose(r, v)
                /\ SetState(e, to)
                /\ validations' = [validations EXCEPT ![e][v].status = to,
                                                      ![e][v].reviewedBy = local[r].by]
                /\ Finish(r)
                /\ UNCHANGED <<budgets, faults>>
           \/ (\A v \in DOMAIN validations[e] : ~CanClose(r, v)) /\ Refuse(r)

Source(call) == IF call = "submit" THEN NullState ELSE "REJECTED"

Submit(r) ==
    LET e == local[r].target
    IN  /\ pc[r] = "submit"
        /\ IF Matches(e, Source(local[r].call)) /\ PendingIn(validations[e]) = {}
           THEN /\ SetState(e, "PENDING_APPROVAL")
                /\ validations' = [validations EXCEPT ![e] = Append(@,
                        [status |-> "PENDING_VALIDATION",
                         submittedBy |-> local[r].by,
                         reviewedBy |-> NoUser])]
                /\ Finish(r)
                /\ UNCHANGED <<budgets, faults>>
           ELSE Refuse(r)

(***************************************************************************)
(* Unguarded writes: one UPDATE or DELETE by id, which only a deleted row  *)
(* makes fail.                                                             *)
(***************************************************************************)
Applying(r, calls) == pc[r] = "apply" /\ local[r].call \in calls

ApplyLifecycle(r) ==
    LET e == local[r].target
    IN  /\ Applying(r, {"complete", "cancel"})
        /\ IF Stored(e)
           THEN /\ SetState(e, Target(local[r].call))
                /\ Finish(r)
                /\ UNCHANGED <<budgets, validations, faults>>
           ELSE Refuse(r)

\* Mutant: a field the body leaves out is written too.
UpdatedWhole(row, dto) ==
    [row EXCEPT !.type = IF dto.type = "keep" THEN @ ELSE dto.type,
                !.line = IF dto.line = NoLine THEN @ ELSE dto.line,
                !.amountXof = dto.amountXof]

Updated(row, dto) ==
    [row EXCEPT !.type = IF dto.type = "keep" THEN @ ELSE dto.type,
                !.line = IF dto.line = NoLine THEN @ ELSE dto.line,
                !.amountXof = IF dto.amountXof = 0 THEN @ ELSE dto.amountXof,
                !.status = IF dto.status = "keep" THEN @ ELSE dto.status]

ApplyUpdate(r) ==
    LET e == local[r].target
    IN  /\ Applying(r, {"update"})
        /\ IF Stored(e)
           THEN /\ expenses' = [expenses EXCEPT ![e] = Updated(@, local[r].dto)]
                /\ Finish(r)
                /\ UNCHANGED <<budgets, validations, faults>>
           ELSE Refuse(r)

\* The validation requests of a deleted expense stay.
ApplyDelete(r) ==
    LET e == local[r].target
    IN  /\ Applying(r, {"delete"})
        /\ IF Stored(e)
           THEN /\ expenses' = [expenses EXCEPT ![e].life = "deleted"]
                /\ Finish(r)
                /\ UNCHANGED <<budgets, validations, faults>>
           ELSE Refuse(r)

(***************************************************************************)
(* A statement fails, or the process dies: the transaction rolls back.     *)
(***************************************************************************)
Fail(r) ==
    /\ pc[r] \in Steps
    /\ faults < MaxFaults
    /\ faults' = faults + 1
    /\ UNCHANGED <<expenses, budgets, validations>>
    /\ Finish(r)

(***************************************************************************)
(* Books in which some expenses have been created, some submitted.         *)
(***************************************************************************)
NewRows ==
    {row \in ExpenseRows : row.life = "stored" /\ row.expenseWorkflowStatus = NullState}

SubmittedRows ==
    {row \in ExpenseRows : /\ row.life = "stored"
                           /\ row.type = "DEPENSE"
                           /\ row.status = "EN_ATTENTE"
                           /\ row.expenseWorkflowStatus = "PENDING_APPROVAL"}

AbsentRow ==
    [life |-> "absent", type |-> "DEPENSE",
     line |-> CHOOSE l \in Lines : TRUE, amountXof |-> CHOOSE a \in Amounts : TRUE,
     status |-> "EN_ATTENTE", expenseWorkflowStatus |-> NullState]

Init ==
    /\ expenses \in [Expenses -> SubmittedRows \cup {AbsentRow}]
    /\ budgets \in [Lines -> Budgets \cup {NoBudget}]
    /\ \E u \in Directors :
          validations = [e \in Expenses |->
              IF State(e) = NullState THEN <<>>
              ELSE <<[status |-> "PENDING_VALIDATION", submittedBy |-> u,
                      reviewedBy |-> NoUser]>>]
    /\ holder = [l \in Lines |-> NoRequest]
    /\ pc = [r \in Requests |-> "idle"]
    /\ local = [r \in Requests |-> NoCall]
    /\ faults = 0
    /\ overtaken = {}
    /\ moved = {}

\* Who may call what: the @Roles of the controller's routes.  Whoever updates or
\* deletes leaves no name on a row of this module.
Start(r) ==
    \/ \E e \in Expenses, row \in NewRows : Create(r, e, row)
    \/ \E l \in Lines, b \in Budgets : SetBudget(r, l, b)
    \/ \E l \in Lines : DeleteBudget(r, l)
    \/ EnsureDefaults(r)
    \/ \E e \in Expenses :
          \/ \E u \in Directors : StartSubmit(r, u, e)
          \/ \E u \in Directors : StartResubmit(r, u, e)
          \/ \E u \in Supervisors : StartApprove(r, u, e)
          \/ \E u \in Supervisors : StartReject(r, u, e)
          \/ \E u \in Directors, call \in {"complete", "cancel"} :
                StartLifecycle(r, u, e, call)
          \/ \E dto \in OneField : StartUpdate(r, e, dto)
          \/ StartDelete(r, e)

Step(r) ==
    \/ LockBudgetLine(r)
    \/ SumFirst(r)
    \/ SumSecond(r)
    \/ SumLegacy(r)
    \/ Close(r)
    \/ Submit(r)
    \/ ApplyLifecycle(r)
    \/ ApplyUpdate(r)
    \/ ApplyDelete(r)

Next == \E r \in Requests : Start(r) \/ Step(r) \/ Fail(r)

Spec == Init /\ [][Next]_vars

\* The server does not stop while a handler can move: the event loop resumes some
\* await.  No order among the handlers is assumed.
Fairness == WF_vars(\E r \in Requests : Step(r))

FairSpec == Spec /\ Fairness

-----------------------------------------------------------------------------
(***************************************************************************)
(* Properties.                                                             *)
(***************************************************************************)

\* Every variable keeps the shape of the row, or of the handler, it stands for.
TypeOK ==
    /\ expenses \in [Expenses -> ExpenseRows]
    /\ budgets \in [Lines -> Nat \cup {NoBudget}]
    /\ validations \in [Expenses -> Seq(ValidationRows)]
    /\ holder \in [Lines -> Requests \cup {NoRequest}]
    /\ pc \in [Requests -> Steps \cup {"idle", "done"}]
    /\ local \in [Requests -> Locals]
    /\ faults \in 0..MaxFaults
    /\ overtaken \in SUBSET Requests
    /\ moved \in SUBSET Expenses

\* An expense awaits a decision exactly while one request about it is pending,
\* the last one submitted: both change in one transaction, whoever overlaps.
PendingAgreement ==
    \A e \in Expenses :
        LET requests == validations[e]
        IN  IF State(e) = "PENDING_APPROVAL"
            THEN requests # <<>> /\ PendingIn(requests) = {Len(requests)}
            ELSE PendingIn(requests) = {}

\* An expense approved, and then completed or cancelled, was approved by its
\* last request, reviewed by somebody else than its author.
DecidedByAnother ==
    \A e \in Expenses : State(e) \in Decided =>
        LET requests == validations[e]
            last == requests[Len(requests)]
        IN  /\ requests # <<>>
            /\ last.status = "APPROVED"
            /\ last.reviewedBy \notin {NoUser, last.submittedBy}

Committed(l) == Total(Counted(l))

\* Handler r writes on expense e what it decided from an earlier read of it.
Ends(r, calls, e) ==
    Applying(r, calls) /\ pc'[r] = "done" /\ local[r].target = e

\* An approval never takes a line beyond its budget, unless an update or a creation
\* has overtaken it: two approvals, or an approval and a completion, that overlap
\* are told apart by the lock of the line.
ApprovalFitsBudget ==
    [][ \A e \in Expenses :
            State(e) = "PENDING_APPROVAL" /\ State(e)' = "APPROVED"
                => \/ Committed(expenses[e].line)' <= budgets[expenses[e].line]'
                   \/ \E r \in overtaken : local[r].target = e /\ pc'[r] = "done" ]_vars

\* An expense moves along the table of transitions, whatever calls overlap; only
\* complete and cancel, each having read it approved, may write over one another.
OnlyAllowedTransitions ==
    [][ \A e \in Expenses :
            State(e)' # State(e) =>
                \/ CanTransition(State(e), State(e)')
                \/ /\ State(e) \in {"COMPLETED", "CANCELLED"}
                   /\ \E r \in Requests :
                         /\ Ends(r, {"complete", "cancel"}, e)
                         /\ local[r].from = "APPROVED" ]_vars

\* From its approval on, the line, amount and type of an expense do not change.
ReservationsAreFrozen ==
    [][ \A e \in Expenses : State(e) \in Decided => SameFigures(e) ]_vars

\* An expense once approved reserves what it reserved, whatever calls overlap: the
\* first to move it can only be an update that had read it before its approval.
OnlyLateUpdatesMoveReservations ==
    [][ \A e \in Expenses :
            State(e) \in Decided /\ ~SameFigures(e) =>
                \/ e \in moved
                \/ \E r \in Requests :
                      Ends(r, {"update"}, e) /\ local[r].from \notin Decided ]_vars

\* Income stays out of the workflow.
IncomeStaysOut ==
    \A e \in Expenses :
        expenses[e].type = "RECETTE" => State(e) = NullState

\* The handlers in flight all end: none waits for a lock nobody will release.
HandlersEnd == InFlight # {} ~> InFlight = {}
=============================================================================
