------------------------ MODULE ExpenseBudgetProofs ------------------------
(***************************************************************************)
(* What ExpenseBudget guarantees whatever calls overlap: the workflow      *)
(* status of an expense and its validation requests never disagree, and no *)
(* expense is spent without the approval of somebody else.  Then what one  *)
(* step may do to the transitions, the reservations and the budget of a    *)
(* line, again whatever calls overlap.  Last, why no lock leaves everybody *)
(* waiting.                                                                *)
(***************************************************************************)
EXTENDS ExpenseBudget, FiniteSetTheorems, WellFoundedInduction, TLAPS

(***************************************************************************)
(* The inductive invariant.  complete and cancel write without a guard: it *)
(* is enough that an expense they found approved can only have become      *)
(* completed, cancelled or deleted since.                                  *)
(***************************************************************************)

\* A row that is not there yet was never submitted.
AbsentIsNew ==
    \A e \in Expenses : expenses[e].life = "absent" => State(e) = NullState

\* A handler past its first read works on an expense, and for a user when it is to
\* leave a name on a validation request.
HasTarget(r) ==
    /\ pc[r] \in Steps => local[r].target \in Expenses
    /\ pc[r] \in Steps \ {"apply"} => local[r].by \in Users

\* An approval works on a line, and keeps the amount it will reserve.
HasLine(r) == pc[r] \in {"lock", "sum1", "sum2", "sum3"} => local[r].line \in Lines

\* What complete and cancel will overwrite has been approved.
OverwritesDecided(r) ==
    pc[r] = "apply" /\ local[r].call \in {"complete", "cancel"}
        => State(local[r].target) \in Decided

HandlerInv(r) == HasTarget(r) /\ HasLine(r) /\ OverwritesDecided(r)

IInv ==
    /\ TypeOK
    /\ PendingAgreement
    /\ DecidedByAnother
    /\ AbsentIsNew
    /\ \A r \in Requests : HandlerInv(r)

USE AmountsAssumption, BudgetsAssumption, NullsAssumption, FaultsAssumption,
    NonemptyAssumption, ExpensesAssumption

-----------------------------------------------------------------------------
(***************************************************************************)
(* The invariant, cut by what its parts are about: the rows of an expense  *)
(* and of its requests, and the handlers.                                  *)
(***************************************************************************)

\* What the invariant says of one expense and its requests.
SoundBook(row, requests) ==
    /\ IF row.expenseWorkflowStatus = "PENDING_APPROVAL"
       THEN requests # <<>> /\ PendingIn(requests) = {Len(requests)}
       ELSE PendingIn(requests) = {}
    /\ row.expenseWorkflowStatus \in Decided =>
          /\ requests # <<>>
          /\ requests[Len(requests)].status = "APPROVED"
          /\ requests[Len(requests)].reviewedBy
                \notin {NoUser, requests[Len(requests)].submittedBy}
    /\ row.life = "absent" => row.expenseWorkflowStatus = NullState

BooksOK ==
    /\ expenses \in [Expenses -> ExpenseRows]
    /\ validations \in [Expenses -> Seq(ValidationRows)]
    /\ \A e \in Expenses : SoundBook(expenses[e], validations[e])

\* The lines with their locks, and the history.
LinesOK ==
    /\ budgets \in [Lines -> Nat \cup {NoBudget}]
    /\ holder \in [Lines -> Requests \cup {NoRequest}]
    /\ faults \in 0..MaxFaults
    /\ overtaken \in SUBSET Requests
    /\ moved \in SUBSET Expenses

HandlersOK ==
    /\ pc \in [Requests -> Steps \cup {"idle", "done"}]
    /\ local \in [Requests -> Locals]
    /\ \A r \in Requests : HandlerInv(r)

\* The invariant is the conjunction of its parts.
LEMMA IInvParts == IInv <=> BooksOK /\ LinesOK /\ HandlersOK
  BY DEF IInv, BooksOK, LinesOK, HandlersOK, TypeOK, PendingAgreement, DecidedByAnother,
         AbsentIsNew, SoundBook, State

\* And so it is after a step.
LEMMA IInvPartsNext == BooksOK' /\ LinesOK' /\ HandlersOK' => IInv'
  BY DEF IInv, BooksOK, LinesOK, HandlersOK, TypeOK, PendingAgreement, DecidedByAnother,
         AbsentIsNew, SoundBook, State

\* An expense, once decided, is never undecided by a step.
DecidedStays ==
    \A e \in Expenses :
        expenses[e].expenseWorkflowStatus \in Decided
            => expenses'[e].expenseWorkflowStatus \in Decided

\* A step that leaves the rows alone keeps them sound.
LEMMA SameBooks ==
    ASSUME BooksOK, expenses' = expenses, validations' = validations
    PROVE  BooksOK' /\ DecidedStays
  BY DEF BooksOK, DecidedStays, SoundBook, PendingIn

\* A step that rewrites one expense and its requests keeps all of them sound.
LEMMA OneBookChanges ==
    ASSUME BooksOK, NEW e \in Expenses,
           NEW row \in ExpenseRows, NEW requests \in Seq(ValidationRows),
           expenses' = [expenses EXCEPT ![e] = row],
           validations' = [validations EXCEPT ![e] = requests],
           SoundBook(row, requests),
           expenses[e].expenseWorkflowStatus \in Decided
               => row.expenseWorkflowStatus \in Decided
    PROVE  BooksOK' /\ DecidedStays
<1>1. expenses' \in [Expenses -> ExpenseRows]
      /\ validations' \in [Expenses -> Seq(ValidationRows)]
  BY DEF BooksOK
<1>2. \A d \in Expenses : SoundBook(expenses'[d], validations'[d])
  <2> SUFFICES ASSUME NEW d \in Expenses PROVE SoundBook(expenses'[d], validations'[d])
    OBVIOUS
  <2>1. CASE d = e
    <3>1. expenses'[d] = row /\ validations'[d] = requests
      BY <2>1 DEF BooksOK
    <3>2. QED  BY <3>1
  <2>2. CASE d # e
    <3>1. expenses'[d] = expenses[d] /\ validations'[d] = validations[d]
      BY <2>2 DEF BooksOK
    <3>2. QED  BY <3>1 DEF BooksOK
  <2>3. QED  BY <2>1, <2>2
<1>3. DecidedStays
  BY DEF BooksOK, DecidedStays
<1>4. QED  BY <1>1, <1>2, <1>3 DEF BooksOK, SoundBook, PendingIn

\* Handler r moves to a step that suits what it holds.
Fit(step, h) ==
    /\ step \in Steps => h.target \in Expenses
    /\ step \in Steps \ {"apply"} => h.by \in Users
    /\ step \in {"lock", "sum1", "sum2", "sum3"} => h.line \in Lines
    /\ step = "apply" /\ h.call \in {"complete", "cancel"}
          => expenses'[h.target].expenseWorkflowStatus \in Decided

\* Moving one handler keeps the invariant of all.
LEMMA OneHandlerMoves ==
    ASSUME HandlersOK, DecidedStays, NEW r \in Requests,
           NEW step \in Steps \cup {"idle", "done"}, NEW h \in Locals,
           pc' = [pc EXCEPT ![r] = step], local' = [local EXCEPT ![r] = h],
           Fit(step, h)
    PROVE  HandlersOK'
<1>1. pc' \in [Requests -> Steps \cup {"idle", "done"}] /\ local' \in [Requests -> Locals]
  BY DEF HandlersOK
<1>2. ASSUME NEW s \in Requests PROVE HandlerInv(s)'
  <2>1. CASE s = r
    <3>1. pc'[s] = step /\ local'[s] = h
      BY <2>1 DEF HandlersOK
    <3>2. QED  BY <3>1 DEF HandlerInv, HasTarget, HasLine, OverwritesDecided, Fit, State
  <2>2. CASE s # r
    <3>1. pc'[s] = pc[s] /\ local'[s] = local[s]
      BY <2>2 DEF HandlersOK
    <3>2. HandlerInv(s)
      BY DEF HandlersOK
    <3>3. QED
      BY <3>1, <3>2 DEF HandlerInv, HasTarget, HasLine, OverwritesDecided, State,
                        DecidedStays, Steps
  <2>3. QED  BY <2>1, <2>2
<1>3. QED  BY <1>1, <1>2 DEF HandlersOK

\* What a handler that holds nothing looks like.
LEMMA NoCallType == NoCall \in Locals
  BY DEF NoCall, Locals, NoDto, UpdateDtos, Summed, NullState

\* A handler that ends keeps the invariant of handlers.
LEMMA FinishedHandler ==
    ASSUME HandlersOK, DecidedStays, NEW r \in Requests, Finish(r)
    PROVE  HandlersOK'
<1>1. Fit("done", NoCall)
  BY DEF Fit, Steps
<1>2. QED  BY <1>1, NoCallType, OneHandlerMoves DEF Finish

\* The history is about handlers and expenses.
LEMMA Remembered ==
    ASSUME LinesOK, NEW r \in Requests, Remember(r)
    PROVE  overtaken' \in SUBSET Requests /\ moved' \in SUBSET Expenses
  BY DEF LinesOK, Remember

\* The lines and their locks stay sound when a handler ends.
LEMMA FinishedLines ==
    ASSUME LinesOK, NEW r \in Requests, Finish(r), UNCHANGED <<budgets, faults>>
    PROVE  LinesOK'
<1>1. overtaken' \in SUBSET Requests /\ moved' \in SUBSET Expenses
  BY Remembered DEF Finish
<1>2. QED  BY <1>1 DEF LinesOK, Finish, Release

-----------------------------------------------------------------------------
(***************************************************************************)
(* The initial state, and the steps that touch no row.                     *)
(***************************************************************************)

\* The books a behaviour starts from satisfy the invariant.
LEMMA InitInvariant == Init => IInv
<1> SUFFICES ASSUME Init PROVE IInv
  OBVIOUS
<1>1. AbsentRow \in ExpenseRows
  BY DEF AbsentRow, ExpenseRows, TransactionTypes, TransactionStatuses, NullState
<1>2. expenses \in [Expenses -> ExpenseRows]
  BY <1>1 DEF Init, SubmittedRows
<1>3. PICK u \in Directors :
        validations = [e \in Expenses |->
            IF State(e) = NullState THEN <<>>
            ELSE <<[status |-> "PENDING_VALIDATION", submittedBy |-> u,
                    reviewedBy |-> NoUser]>>]
  BY DEF Init
<1> DEFINE request == [status |-> "PENDING_VALIDATION", submittedBy |-> u,
                       reviewedBy |-> NoUser]
<1>4. request \in ValidationRows
  BY DEF ValidationRows, Users
<1>5. validations \in [Expenses -> Seq(ValidationRows)]
  <2>1. <<>> \in Seq(ValidationRows) /\ <<request>> \in Seq(ValidationRows)
    BY <1>4
  <2>2. QED  BY <1>3, <2>1
<1>6. ASSUME NEW e \in Expenses PROVE SoundBook(expenses[e], validations[e])
  <2>1. CASE expenses[e] = AbsentRow
    <3>1. validations[e] = <<>> /\ State(e) = NullState
      BY <1>3, <2>1 DEF State, AbsentRow
    <3>2. QED  BY <2>1, <3>1 DEF SoundBook, AbsentRow, NullState, PendingIn, Decided
  <2>2. CASE expenses[e] \in SubmittedRows
    <3>1. State(e) = "PENDING_APPROVAL" /\ expenses[e].life = "stored"
      BY <2>2 DEF SubmittedRows, State
    <3>2. validations[e] = <<request>>
      BY <1>3, <3>1 DEF NullState
    <3>3. PendingIn(validations[e]) = {1} /\ Len(validations[e]) = 1
      BY <3>2 DEF PendingIn
    <3>4. QED  BY <3>1, <3>2, <3>3 DEF SoundBook, State, Decided
  <2>3. QED  BY <2>1, <2>2 DEF Init
<1>7. BooksOK
  BY <1>2, <1>5, <1>6 DEF BooksOK
<1>8. LinesOK
  <2>1. budgets \in [Lines -> Nat \cup {NoBudget}]
    BY DEF Init
  <2>2. holder \in [Lines -> Requests \cup {NoRequest}]
    BY DEF Init
  <2>3. faults \in 0..MaxFaults
    BY DEF Init
  <2>4. overtaken \in SUBSET Requests /\ moved \in SUBSET Expenses
    BY DEF Init
  <2>5. QED  BY <2>1, <2>2, <2>3, <2>4 DEF LinesOK
<1>9. HandlersOK
  <2>1. pc \in [Requests -> Steps \cup {"idle", "done"}] /\ local \in [Requests -> Locals]
    BY NoCallType DEF Init
  <2>2. ASSUME NEW r \in Requests PROVE HandlerInv(r)
    BY DEF Init, HandlerInv, HasTarget, HasLine, OverwritesDecided, Steps
  <2>3. QED  BY <2>1, <2>2 DEF HandlersOK
<1>10. QED  BY <1>7, <1>8, <1>9, IInvParts

\* The first read of a handler keeps the invariant.
LEMMA BeginInvariant ==
    ASSUME IInv, NEW r \in Requests, NEW step \in Steps, NEW h \in Locals,
           Begin(r, step, h), Fit(step, h)
    PROVE  IInv'
<1>1. BooksOK /\ LinesOK /\ HandlersOK
  BY IInvParts
<1>2. BooksOK' /\ DecidedStays
  BY <1>1, SameBooks DEF Begin
<1>3. LinesOK'
  BY <1>1 DEF LinesOK, Begin
<1>4. HandlersOK'
  BY <1>1, <1>2, OneHandlerMoves DEF Begin
<1>5. QED  BY <1>2, <1>3, <1>4, IInvPartsNext

\* Refusing a call keeps the invariant.
LEMMA RefuseInvariant ==
    ASSUME IInv, NEW r \in Requests, Refuse(r) PROVE IInv'
<1>1. BooksOK /\ LinesOK /\ HandlersOK
  BY IInvParts
<1>2. Finish(r) /\ UNCHANGED <<expenses, budgets, validations, faults>>
  BY DEF Refuse
<1>3. BooksOK' /\ DecidedStays
  BY <1>1, <1>2, SameBooks
<1>4. QED  BY <1>1, <1>2, <1>3, FinishedHandler, FinishedLines, IInvPartsNext

\* A step that rewrites one expense and its requests, and ends its handler.
LEMMA FinishInvariant ==
    ASSUME IInv, NEW r \in Requests, BooksOK', DecidedStays,
           Finish(r), UNCHANGED <<budgets, faults>>
    PROVE  IInv'
  BY IInvParts, FinishedHandler, FinishedLines, IInvPartsNext

\* A single statement that ends its handler at once.
LEMMA AtOnceInvariant ==
    ASSUME IInv, NEW r \in Requests, AtOnce(r),
           BooksOK', DecidedStays, budgets' \in [Lines -> Nat \cup {NoBudget}],
           overtaken' \in SUBSET Requests, moved' \in SUBSET Expenses
    PROVE  IInv'
<1>1. BooksOK /\ LinesOK /\ HandlersOK
  BY IInvParts
<1>2. local[r] \in Locals /\ local' = [local EXCEPT ![r] = local[r]]
  BY <1>1 DEF HandlersOK, AtOnce
<1>3. Fit("done", local[r])
  BY DEF Fit, Steps
<1>4. HandlersOK'
  BY <1>1, <1>2, <1>3, OneHandlerMoves DEF AtOnce
<1>5. LinesOK'
  BY <1>1 DEF LinesOK, AtOnce
<1>6. QED  BY <1>4, <1>5, IInvPartsNext

\* A handler built from its inputs has the shape of one.
LEMMA HandlerType ==
    ASSUME IInv, NEW call \in Calls, NEW u \in Users \cup {NoUser}, NEW e \in Expenses
    PROVE  LET h == Handler(call, u, e)
           IN  /\ h \in Locals
               /\ h.call = call /\ h.by = u /\ h.target = e /\ h.from = State(e)
<1>1. State(e) \in ExpenseWorkflowStatuses \cup {NullState}
  BY IInvParts DEF BooksOK, ExpenseRows, State
<1>2. QED  BY <1>1 DEF Handler, NoCall, NoDto, Locals, UpdateDtos, Summed

\* Every row a creation may write is new.
LEMMA CreateInvariant ==
    ASSUME IInv, NEW r \in Requests, NEW e \in Expenses, NEW row \in NewRows,
           Create(r, e, row)
    PROVE  IInv'
<1>1. BooksOK /\ LinesOK
  BY IInvParts
<1>2. /\ row \in ExpenseRows /\ row.life = "stored"
      /\ row.expenseWorkflowStatus = NullState
  BY DEF NewRows
<1>3. /\ expenses[e].life = "absent" /\ AtOnce(r)
      /\ UNCHANGED <<budgets, validations>>
      /\ overtaken' \in SUBSET Requests /\ moved' \in SUBSET Expenses
  BY IInvParts, Remembered DEF Create
<1>4. /\ expenses[e].expenseWorkflowStatus = NullState
      /\ PendingIn(validations[e]) = {} /\ validations[e] \in Seq(ValidationRows)
  BY <1>1, <1>3 DEF BooksOK, SoundBook, NullState
<1>5. SoundBook(row, validations[e])
  BY <1>2, <1>4 DEF SoundBook, NullState, Decided
<1>6. /\ expenses' = [expenses EXCEPT ![e] = row]
      /\ validations' = [validations EXCEPT ![e] = validations[e]]
  BY <1>1, <1>3 DEF Create, BooksOK
<1>7. BooksOK' /\ DecidedStays
  BY <1>1, <1>2, <1>4, <1>5, <1>6, OneBookChanges DEF NullState, Decided
<1>8. QED  BY <1>1, <1>3, <1>7, AtOnceInvariant DEF LinesOK

\* Writing budget lines keeps the invariant.
LEMMA BudgetInvariant ==
    ASSUME IInv, NEW r \in Requests,
           \/ \E l \in Lines, b \in Budgets : SetBudget(r, l, b)
           \/ \E l \in Lines : DeleteBudget(r, l)
           \/ EnsureDefaults(r)
    PROVE  IInv'
<1>1. BooksOK /\ LinesOK
  BY IInvParts
<1>2. /\ UNCHANGED <<expenses, validations>> /\ AtOnce(r)
      /\ overtaken' \in SUBSET Requests /\ moved' \in SUBSET Expenses
  BY <1>1 DEF LinesOK, SetBudget, DeleteBudget, EnsureDefaults
<1>3. budgets' \in [Lines -> Nat \cup {NoBudget}]
  BY <1>1 DEF LinesOK, SetBudget, DeleteBudget, EnsureDefaults
<1>4. BooksOK' /\ DecidedStays
  BY <1>1, <1>2, SameBooks
<1>5. QED  BY <1>2, <1>3, <1>4, AtOnceInvariant

\* The call that a handler starts keeps the invariant, whichever it is.
LEMMA StartInvariant ==
    ASSUME IInv, NEW r \in Requests, Start(r) PROVE IInv'
<1>0. /\ expenses \in [Expenses -> ExpenseRows]
      /\ Directors \subseteq Users /\ Supervisors \subseteq Users
  BY IInvParts DEF BooksOK, Users
<1>1. CASE \E e \in Expenses, row \in NewRows : Create(r, e, row)
  BY <1>1, CreateInvariant
<1>2. CASE \/ \E l \in Lines, b \in Budgets : SetBudget(r, l, b)
           \/ \E l \in Lines : DeleteBudget(r, l)
           \/ EnsureDefaults(r)
  BY <1>2, BudgetInvariant
<1>3. ASSUME NEW e \in Expenses, NEW u \in Users,
             StartSubmit(r, u, e) \/ StartResubmit(r, u, e) \/ StartReject(r, u, e)
      PROVE  IInv'
  <2>1. PICK call \in {"submit", "resubmit", "reject"}, step \in {"submit", "close"} :
                Begin(r, step, Handler(call, u, e))
    BY <1>3 DEF StartSubmit, StartResubmit, StartReject
  <2> DEFINE h == Handler(call, u, e)
  <2>2. h \in Locals /\ h.call = call /\ h.by = u /\ h.target = e
    BY <2>1, HandlerType DEF Calls
  <2>3. Fit(step, h)
    BY <2>1, <2>2 DEF Fit
  <2>4. QED  BY <2>1, <2>2, <2>3, BeginInvariant DEF Steps
<1>4. ASSUME NEW e \in Expenses, NEW u \in Users, StartApprove(r, u, e) PROVE IInv'
  <2> DEFINE base == Handler("approve", u, e)
             h == [base EXCEPT !.line = expenses[e].line, !.amount = expenses[e].amountXof]
  <2>1. Begin(r, "lock", h)
    BY <1>4 DEF StartApprove
  <2>2. base \in Locals /\ base.call = "approve" /\ base.by = u /\ base.target = e
    BY HandlerType DEF Calls
  <2>3. expenses[e].line \in Lines /\ expenses[e].amountXof \in Amounts
    BY <1>0 DEF ExpenseRows
  <2>4. /\ h \in Locals /\ h.call = "approve" /\ h.by = u /\ h.target = e
        /\ h.line \in Lines
    BY <2>2, <2>3 DEF Locals
  <2>5. Fit("lock", h)
    BY <2>4 DEF Fit
  <2>6. QED  BY <2>1, <2>4, <2>5, BeginInvariant DEF Steps
<1>5. ASSUME NEW e \in Expenses, NEW u \in Users, NEW call \in {"complete", "cancel"},
             StartLifecycle(r, u, e, call)
      PROVE  IInv'
  <2> DEFINE h == Handler(call, u, e)
  <2>1. Begin(r, "apply", h) /\ CanTransition(State(e), Target(call))
    BY <1>5 DEF StartLifecycle
  <2>2. h \in Locals /\ h.call = call /\ h.by = u /\ h.target = e
    BY HandlerType DEF Calls
  <2>3. State(e) \in ExpenseWorkflowStatuses \cup {NullState}
    BY <1>0 DEF State, ExpenseRows
  <2>4. State(e) = "APPROVED"
    BY <2>1, <2>3 DEF CanTransition, Target, AllowedTransitions,
                      ExpenseWorkflowStatuses, NullState
  <2>5. Fit("apply", h)
    BY <2>1, <2>2, <2>4 DEF Fit, Begin, State, Decided
  <2>6. QED  BY <2>1, <2>2, <2>5, BeginInvariant DEF Steps
<1>6. ASSUME NEW e \in Expenses, NEW dto \in OneField, StartUpdate(r, e, dto)
      PROVE  IInv'
  <2> DEFINE base == Handler("update", NoUser, e)
             h == [base EXCEPT !.dto = dto]
  <2>1. Begin(r, "apply", h)
    BY <1>6 DEF StartUpdate
  <2>2. base \in Locals /\ base.call = "update" /\ base.target = e
    BY HandlerType DEF Calls
  <2>3. dto \in UpdateDtos
    BY DEF OneField, NoDto, UpdateDtos
  <2>4. h \in Locals /\ h.call = "update" /\ h.target = e
    BY <2>2, <2>3 DEF Locals
  <2>5. Fit("apply", h)
    BY <2>4 DEF Fit
  <2>6. QED  BY <2>1, <2>4, <2>5, BeginInvariant DEF Steps
<1>7. ASSUME NEW e \in Expenses, StartDelete(r, e) PROVE IInv'
  <2> DEFINE h == Handler("delete", NoUser, e)
  <2>1. Begin(r, "apply", h)
    BY <1>7 DEF StartDelete
  <2>2. h \in Locals /\ h.call = "delete" /\ h.target = e
    BY HandlerType DEF Calls
  <2>3. Fit("apply", h)
    BY <2>2 DEF Fit
  <2>4. QED  BY <2>1, <2>2, <2>3, BeginInvariant DEF Steps
<1>8. QED
  BY <1>0, <1>1, <1>2, <1>3, <1>4, <1>5, <1>6, <1>7 DEF Start

-----------------------------------------------------------------------------
(***************************************************************************)
(* The statements of an approval, which write nothing before the last.     *)
(***************************************************************************)

\* A handler goes on to another step of its transaction, the rows untouched.
LEMMA GotoInvariant ==
    ASSUME IInv, NEW r \in Requests, NEW step \in Steps, NEW h \in Locals,
           Goto(r, step), local' = [local EXCEPT ![r] = h], Fit(step, h),
           LinesOK', UNCHANGED <<expenses, validations>>
    PROVE  IInv'
<1>1. BooksOK' /\ DecidedStays
  BY IInvParts, SameBooks
<1>2. HandlersOK'
  BY <1>1, IInvParts, OneHandlerMoves DEF Goto
<1>3. QED  BY <1>1, <1>2, IInvPartsNext

\* What the invariant says of the handler that moves.
LEMMA HandlerFacts ==
    ASSUME IInv, NEW r \in Requests
    PROVE  /\ local[r] \in Locals
           /\ pc[r] \in Steps => local[r].target \in Expenses
           /\ pc[r] \in Steps \ {"apply"} => local[r].by \in Users
           /\ pc[r] \in {"lock", "sum1", "sum2", "sum3"} => local[r].line \in Lines
           /\ pc[r] = "apply" /\ local[r].call \in {"complete", "cancel"}
                => State(local[r].target) \in Decided
  BY IInvParts DEF HandlersOK, HandlerInv, HasTarget, HasLine, OverwritesDecided

\* Taking the lock of the line keeps the invariant.
LEMMA LockInvariant ==
    ASSUME IInv, NEW r \in Requests, LockBudgetLine(r) PROVE IInv'
<1> DEFINE l == local[r].line
           h == [local[r] EXCEPT !.budget = budgets[l]]
<1>1. /\ pc[r] = "lock" /\ local[r] \in Locals /\ l \in Lines
      /\ local[r].target \in Expenses /\ local[r].by \in Users
  BY HandlerFacts DEF LockBudgetLine, Steps
<1>2. CASE budgets[l] = NoBudget
  BY <1>2, RefuseInvariant DEF LockBudgetLine
<1>3. CASE budgets[l] # NoBudget
  <2>1. /\ holder' = [holder EXCEPT ![l] = r] /\ Goto(r, "sum1")
        /\ local' = [local EXCEPT ![r].budget = budgets[l]]
        /\ UNCHANGED <<expenses, budgets, validations, faults, overtaken, moved>>
    BY <1>3 DEF LockBudgetLine
  <2>2. LinesOK'
    BY <1>1, <2>1, IInvParts DEF LinesOK
  <2>3. budgets[l] \in Nat
    BY <1>1, <1>3, IInvParts DEF LinesOK
  <2>4. /\ h \in Locals /\ h.target = local[r].target /\ h.by = local[r].by
        /\ h.line = l
    BY <1>1, <2>3 DEF Locals
  <2>5. local' = [local EXCEPT ![r] = h]
    BY <2>1
  <2>6. Fit("sum1", h)
    BY <1>1, <2>4 DEF Fit
  <2>7. QED  BY <2>1, <2>2, <2>4, <2>5, <2>6, GotoInvariant DEF Steps
<1>4. QED  BY <1>2, <1>3

\* What an aggregate sums are expenses with their amounts.
LEMMA BucketType ==
    ASSUME IInv, NEW l, NEW state PROVE Bucket(l, state) \in Summed
  BY IInvParts DEF Bucket, Summed, BooksOK, ExpenseRows

\* The two first aggregates keep the invariant.
LEMMA SumInvariant ==
    ASSUME IInv, NEW r \in Requests, SumFirst(r) \/ SumSecond(r) PROVE IInv'
<1>1. /\ local[r] \in Locals /\ local[r].line \in Lines
      /\ local[r].target \in Expenses /\ local[r].by \in Users
  BY HandlerFacts DEF SumFirst, SumSecond, Steps
<1>2. UNCHANGED <<expenses, budgets, validations, holder, faults, overtaken, moved>>
  BY DEF SumFirst, SumSecond
<1>3. LinesOK'
  BY <1>2, IInvParts DEF LinesOK
<1>4. CASE SumFirst(r)
  <2> DEFINE h == [local[r] EXCEPT !.sum1 = Bucket(local[r].line, SumOrder[1])]
  <2>1. /\ h \in Locals /\ h.target = local[r].target /\ h.by = local[r].by
        /\ h.line = local[r].line
    BY <1>1, BucketType DEF Locals
  <2>2. Fit("sum2", h)
    BY <1>1, <2>1 DEF Fit
  <2>3. local' = [local EXCEPT ![r] = h] /\ Goto(r, "sum2")
    BY <1>4 DEF SumFirst
  <2>4. QED  BY <1>2, <1>3, <2>1, <2>2, <2>3, GotoInvariant DEF Steps
<1>5. CASE SumSecond(r)
  <2> DEFINE h == [local[r] EXCEPT !.sum2 = Bucket(local[r].line, SumOrder[2])]
  <2>1. /\ h \in Locals /\ h.target = local[r].target /\ h.by = local[r].by
        /\ h.line = local[r].line
    BY <1>1, BucketType DEF Locals
  <2>2. Fit("sum3", h)
    BY <1>1, <2>1 DEF Fit
  <2>3. local' = [local EXCEPT ![r] = h] /\ Goto(r, "sum3")
    BY <1>5 DEF SumSecond
  <2>4. QED  BY <1>2, <1>3, <2>1, <2>2, <2>3, GotoInvariant DEF Steps
<1>6. QED  BY <1>4, <1>5

\* So does the last aggregate, with the comparison that follows it.
LEMMA SumLegacyInvariant ==
    ASSUME IInv, NEW r \in Requests, SumLegacy(r) PROVE IInv'
<1>1. /\ local[r] \in Locals /\ local[r].target \in Expenses /\ local[r].by \in Users
      /\ local = [local EXCEPT ![r] = local[r]]
  BY IInvParts, HandlerFacts DEF SumLegacy, Steps, HandlersOK
<1>2. CASE Fits(local[r], LegacyRealized(local[r].line))
  <2>1. /\ Goto(r, "close")
        /\ UNCHANGED <<expenses, budgets, validations, holder, local, faults,
                       overtaken, moved>>
    BY <1>2 DEF SumLegacy
  <2>2. LinesOK'
    BY <2>1, IInvParts DEF LinesOK
  <2>3. Fit("close", local[r])
    BY <1>1 DEF Fit
  <2>4. QED  BY <1>1, <2>1, <2>2, <2>3, GotoInvariant DEF Steps
<1>3. CASE ~Fits(local[r], LegacyRealized(local[r].line))
  BY <1>3, RefuseInvariant DEF SumLegacy
<1>4. QED  BY <1>2, <1>3

-----------------------------------------------------------------------------
(***************************************************************************)
(* The steps that write an expense, and end their handler.                 *)
(***************************************************************************)

\* Setting the workflow status of an expense rewrites its row and no other.
LEMMA SetStateRow ==
    ASSUME BooksOK, NEW e \in Expenses,
           NEW to \in ExpenseWorkflowStatuses \cup {NullState}, SetState(e, to)
    PROVE  LET row == [expenses[e] EXCEPT !.expenseWorkflowStatus = to]
           IN  /\ row \in ExpenseRows
               /\ row.expenseWorkflowStatus = to /\ row.life = expenses[e].life
               /\ expenses' = [expenses EXCEPT ![e] = row]
  BY DEF BooksOK, ExpenseRows, SetState

\* Reviewing the one pending request of an expense leaves none, and a request
\* that somebody else decided.
LEMMA CloseInvariant ==
    ASSUME IInv, NEW r \in Requests, Close(r) PROVE IInv'
<1> DEFINE e == local[r].target
           u == local[r].by
           to == Decision(local[r].call)
           requests == validations[e]
<1>1. /\ e \in Expenses /\ u \in Users /\ BooksOK /\ requests \in Seq(ValidationRows)
      /\ validations \in [Expenses -> Seq(ValidationRows)]
  BY IInvParts, HandlerFacts DEF Close, Steps, BooksOK
<1>2. ASSUME NEW v \in DOMAIN requests, CanClose(r, v), SetState(e, to), Finish(r),
             validations' = [validations EXCEPT ![e][v].status = to,
                                                ![e][v].reviewedBy = u],
             UNCHANGED <<budgets, faults>>
      PROVE  IInv'
  <2> DEFINE reviewed == [requests[v] EXCEPT !.status = to, !.reviewedBy = u]
             after == [requests EXCEPT ![v] = reviewed]
             row == [expenses[e] EXCEPT !.expenseWorkflowStatus = to]
  <2>1. /\ State(e) = "PENDING_APPROVAL" /\ expenses[e].life = "stored"
        /\ v \in PendingIn(requests) /\ requests[v].submittedBy # u
    BY <1>2 DEF CanClose, Matches, Stored, IsReviewed
  <2>2. v = Len(requests) /\ PendingIn(requests) = {v} /\ requests # <<>>
    BY <1>1, <2>1 DEF BooksOK, SoundBook, State
  <2>3. to \in {"APPROVED", "REJECTED"}
    BY DEF Decision
  <2>4. requests[v] \in ValidationRows
    BY <1>1
  <2>5. /\ reviewed \in ValidationRows /\ reviewed.status = to
        /\ reviewed.reviewedBy = u /\ reviewed.submittedBy = requests[v].submittedBy
    BY <1>1, <2>3, <2>4 DEF ValidationRows
  <2>6. /\ after \in Seq(ValidationRows) /\ Len(after) = Len(requests)
        /\ DOMAIN after = DOMAIN requests
        /\ \A w \in DOMAIN requests :
              after[w] = IF w = v THEN reviewed ELSE requests[w]
    BY <1>1, <2>5
  <2>7. validations' = [validations EXCEPT ![e] = after]
    BY <1>1, <1>2, <2>4 DEF ValidationRows
  <2>8. PendingIn(after) = {}
    BY <2>2, <2>3, <2>5, <2>6 DEF PendingIn
  <2>9. after # <<>> /\ after[Len(after)] = reviewed
    BY <2>2, <2>6
  <2>10. /\ row \in ExpenseRows /\ row.expenseWorkflowStatus = to
         /\ row.life = "stored" /\ expenses' = [expenses EXCEPT ![e] = row]
    BY <1>1, <1>2, <2>1, <2>3, SetStateRow DEF ExpenseWorkflowStatuses
  <2>11. SoundBook(row, after)
    <3>1. row.expenseWorkflowStatus # "PENDING_APPROVAL"
      BY <2>3, <2>10
    <3>2. row.expenseWorkflowStatus \in Decided => to = "APPROVED"
      BY <2>3, <2>10 DEF Decided
    <3>3. reviewed.reviewedBy \notin {NoUser, reviewed.submittedBy}
      BY <1>1, <2>1, <2>5
    <3>4. QED  BY <2>5, <2>8, <2>9, <2>10, <3>1, <3>2, <3>3 DEF SoundBook
  <2>12. expenses[e].expenseWorkflowStatus \notin Decided
    BY <2>1 DEF State, Decided
  <2>13. BooksOK' /\ DecidedStays
    BY <1>1, <2>6, <2>7, <2>10, <2>11, <2>12, OneBookChanges
  <2>14. QED  BY <1>2, <2>13, FinishInvariant
<1>3. CASE Refuse(r)
  BY <1>3, RefuseInvariant
<1>4. QED  BY <1>2, <1>3 DEF Close

\* What appending a request does to the requests of an expense.
LEMMA AppendedRequest ==
    ASSUME NEW requests \in Seq(ValidationRows), NEW request \in ValidationRows
    PROVE  LET after == Append(requests, request)
           IN  /\ after \in Seq(ValidationRows) /\ Len(after) = Len(requests) + 1
               /\ Len(requests) \in Nat
               /\ DOMAIN after = DOMAIN requests \cup {Len(after)}
               /\ after[Len(after)] = request
               /\ \A w \in DOMAIN requests : after[w] = requests[w]
<1> DEFINE after == Append(requests, request)
<1>1. /\ after \in Seq(ValidationRows) /\ Len(after) = Len(requests) + 1
      /\ Len(requests) \in Nat
  OBVIOUS
<1>2. DOMAIN after = 1..(Len(requests) + 1) /\ DOMAIN requests = 1..Len(requests)
  OBVIOUS
<1>3. DOMAIN after = DOMAIN requests \cup {Len(after)}
  BY <1>1, <1>2
<1>4. after[Len(after)] = request /\ \A w \in DOMAIN requests : after[w] = requests[w]
  OBVIOUS
<1>5. QED  BY <1>1, <1>3, <1>4

\* A submission adds the one pending request of its expense.
LEMMA SubmitInvariant ==
    ASSUME IInv, NEW r \in Requests, Submit(r) PROVE IInv'
<1> DEFINE e == local[r].target
           u == local[r].by
           requests == validations[e]
           request == [status |-> "PENDING_VALIDATION", submittedBy |-> u,
                       reviewedBy |-> NoUser]
           after == Append(requests, request)
           row == [expenses[e] EXCEPT !.expenseWorkflowStatus = "PENDING_APPROVAL"]
           mayWrite == Matches(e, Source(local[r].call)) /\ PendingIn(requests) = {}
<1>1. /\ e \in Expenses /\ u \in Users /\ BooksOK /\ requests \in Seq(ValidationRows)
  BY IInvParts, HandlerFacts DEF Submit, Steps, BooksOK
<1>2. CASE mayWrite
  <2>1. /\ SetState(e, "PENDING_APPROVAL")
        /\ validations' = [validations EXCEPT ![e] = after]
        /\ Finish(r) /\ UNCHANGED <<budgets, faults>>
    BY <1>2 DEF Submit
  <2>2. /\ expenses[e].life = "stored" /\ PendingIn(requests) = {}
        /\ expenses[e].expenseWorkflowStatus \notin Decided
    BY <1>2 DEF Matches, Stored, State, Source, Decided, NullState
  <2>3. request \in ValidationRows
    BY <1>1 DEF ValidationRows
  <2>4. /\ after \in Seq(ValidationRows) /\ Len(after) = Len(requests) + 1
        /\ Len(requests) \in Nat
        /\ DOMAIN after = DOMAIN requests \cup {Len(after)}
        /\ after[Len(after)] = request
        /\ \A w \in DOMAIN requests : after[w] = requests[w]
    BY <1>1, <2>3, AppendedRequest
  <2>5. PendingIn(after) = {Len(after)} /\ after # <<>>
    BY <2>2, <2>4 DEF PendingIn
  <2>6. /\ row \in ExpenseRows /\ row.expenseWorkflowStatus = "PENDING_APPROVAL"
        /\ row.life = "stored" /\ expenses' = [expenses EXCEPT ![e] = row]
    BY <1>1, <2>1, <2>2, SetStateRow DEF ExpenseWorkflowStatuses
  <2>7. SoundBook(row, after)
    BY <2>5, <2>6 DEF SoundBook, Decided
  <2>8. BooksOK' /\ DecidedStays
    BY <1>1, <2>1, <2>2, <2>4, <2>6, <2>7, OneBookChanges
  <2>9. QED  BY <2>1, <2>8, FinishInvariant
<1>3. CASE ~mayWrite
  BY <1>3, RefuseInvariant DEF Submit
<1>4. QED  BY <1>2, <1>3

\* What complete and cancel overwrite has been approved: the request that says so
\* stays the last one.
LEMMA LifecycleInvariant ==
    ASSUME IInv, NEW r \in Requests, ApplyLifecycle(r) PROVE IInv'
<1> DEFINE e == local[r].target
           to == Target(local[r].call)
           row == [expenses[e] EXCEPT !.expenseWorkflowStatus = to]
<1>1. /\ e \in Expenses /\ BooksOK
      /\ expenses[e].expenseWorkflowStatus \in Decided
  BY IInvParts, HandlerFacts DEF ApplyLifecycle, Applying, Steps, State
<1>2. CASE Stored(e)
  <2>1. SetState(e, to) /\ Finish(r) /\ UNCHANGED <<budgets, validations, faults>>
    BY <1>2 DEF ApplyLifecycle
  <2>2. to \in {"COMPLETED", "CANCELLED"}
    BY DEF Target
  <2>3. /\ row \in ExpenseRows /\ row.expenseWorkflowStatus = to
        /\ row.life = "stored" /\ expenses' = [expenses EXCEPT ![e] = row]
    BY <1>1, <1>2, <2>1, <2>2, SetStateRow, ZenonT(40) DEF ExpenseWorkflowStatuses, Stored
  <2>4. /\ validations[e] \in Seq(ValidationRows)
        /\ validations' = [validations EXCEPT ![e] = validations[e]]
    BY <1>1, <2>1 DEF BooksOK
  <2>5. SoundBook(row, validations[e])
    BY <1>1, <2>2, <2>3 DEF BooksOK, SoundBook, Decided
  <2>6. BooksOK' /\ DecidedStays
    BY <1>1, <2>2, <2>3, <2>4, <2>5, OneBookChanges DEF Decided
  <2>7. QED  BY <2>1, <2>6, FinishInvariant
<1>3. CASE ~Stored(e)
  BY <1>3, RefuseInvariant DEF ApplyLifecycle
<1>4. QED  BY <1>2, <1>3

\* An update writes neither the workflow status of an expense nor its requests.
LEMMA UpdateInvariant ==
    ASSUME IInv, NEW r \in Requests, ApplyUpdate(r) PROVE IInv'
<1> DEFINE e == local[r].target
           row == Updated(expenses[e], local[r].dto)
<1>1. /\ e \in Expenses /\ BooksOK /\ local[r].dto \in UpdateDtos
  BY IInvParts, HandlerFacts DEF ApplyUpdate, Applying, Steps, Locals
<1>2. CASE Stored(e)
  <2>1. /\ expenses' = [expenses EXCEPT ![e] = row]
        /\ Finish(r) /\ UNCHANGED <<budgets, validations, faults>>
    BY <1>2 DEF ApplyUpdate
  <2>2. /\ expenses[e] \in ExpenseRows /\ validations[e] \in Seq(ValidationRows)
        /\ validations' = [validations EXCEPT ![e] = validations[e]]
        /\ SoundBook(expenses[e], validations[e])
    BY <1>1, <2>1 DEF BooksOK
  <2>3. /\ row \in ExpenseRows /\ row.life = expenses[e].life
        /\ row.expenseWorkflowStatus = expenses[e].expenseWorkflowStatus
    BY <1>1, <2>2 DEF Updated, ExpenseRows, UpdateDtos
  <2>4. SoundBook(row, validations[e])
    BY <2>2, <2>3 DEF SoundBook
  <2>5. BooksOK' /\ DecidedStays
    BY <1>1, <2>1, <2>2, <2>3, <2>4, OneBookChanges
  <2>6. QED  BY <2>1, <2>5, FinishInvariant
<1>3. CASE ~Stored(e)
  BY <1>3, RefuseInvariant DEF ApplyUpdate
<1>4. QED  BY <1>2, <1>3

\* A deletion leaves the requests behind, and the status they agree with.
LEMMA DeleteInvariant ==
    ASSUME IInv, NEW r \in Requests, ApplyDelete(r) PROVE IInv'
<1> DEFINE e == local[r].target
           row == [expenses[e] EXCEPT !.life = "deleted"]
<1>1. e \in Expenses /\ BooksOK
  BY IInvParts, HandlerFacts DEF ApplyDelete, Applying, Steps
<1>2. CASE Stored(e)
  <2>1. /\ expenses' = [expenses EXCEPT ![e].life = "deleted"]
        /\ Finish(r) /\ UNCHANGED <<budgets, validations, faults>>
    BY <1>2 DEF ApplyDelete
  <2>2. /\ expenses[e] \in ExpenseRows /\ validations[e] \in Seq(ValidationRows)
        /\ validations' = [validations EXCEPT ![e] = validations[e]]
        /\ expenses' = [expenses EXCEPT ![e] = row]
        /\ SoundBook(expenses[e], validations[e])
    BY <1>1, <2>1 DEF BooksOK
  <2>3. /\ row \in ExpenseRows /\ row.life = "deleted"
        /\ row.expenseWorkflowStatus = expenses[e].expenseWorkflowStatus
    BY <2>2 DEF ExpenseRows
  <2>4. SoundBook(row, validations[e])
    BY <2>2, <2>3 DEF SoundBook
  <2>5. BooksOK' /\ DecidedStays
    BY <1>1, <2>2, <2>3, <2>4, OneBookChanges
  <2>6. QED  BY <2>1, <2>5, FinishInvariant
<1>3. CASE ~Stored(e)
  BY <1>3, RefuseInvariant DEF ApplyDelete
<1>4. QED  BY <1>2, <1>3

\* A handler that dies leaves what was committed.
LEMMA FailInvariant ==
    ASSUME IInv, NEW r \in Requests, Fail(r) PROVE IInv'
<1>1. /\ Finish(r) /\ UNCHANGED <<expenses, budgets, validations>>
      /\ faults < MaxFaults /\ faults' = faults + 1
  BY DEF Fail
<1>2. BooksOK /\ LinesOK /\ HandlersOK
  BY IInvParts
<1>3. BooksOK' /\ DecidedStays
  BY <1>1, <1>2, SameBooks
<1>4. LinesOK'
  <2>1. faults' \in 0..MaxFaults
    BY <1>1, <1>2 DEF LinesOK
  <2>2. overtaken' \in SUBSET Requests /\ moved' \in SUBSET Expenses
    BY <1>1, <1>2, Remembered DEF Finish
  <2>3. QED  BY <1>1, <1>2, <2>1, <2>2 DEF LinesOK, Finish, Release
<1>5. QED  BY <1>1, <1>2, <1>3, <1>4, FinishedHandler, IInvPartsNext

-----------------------------------------------------------------------------
(***************************************************************************)
(* The theorems.                                                           *)
(***************************************************************************)

\* Every step keeps the invariant.
LEMMA NextInvariant == IInv /\ [Next]_vars => IInv'
<1> SUFFICES ASSUME IInv, [Next]_vars PROVE IInv'
  OBVIOUS
<1>1. CASE UNCHANGED vars
  <2>1. BooksOK /\ LinesOK /\ HandlersOK /\ BooksOK' /\ DecidedStays
    BY <1>1, IInvParts, SameBooks DEF vars
  <2>2. LinesOK' /\ HandlersOK'
    BY <1>1, <2>1 DEF vars, LinesOK, HandlersOK, HandlerInv, HasTarget, HasLine,
                      OverwritesDecided, State
  <2>3. QED  BY <2>1, <2>2, IInvPartsNext
<1>2. ASSUME NEW r \in Requests, Step(r) PROVE IInv'
  <2>1. CASE LockBudgetLine(r)
    BY <2>1, LockInvariant
  <2>2. CASE SumFirst(r) \/ SumSecond(r)
    BY <2>2, SumInvariant
  <2>3. CASE SumLegacy(r)
    BY <2>3, SumLegacyInvariant
  <2>4. CASE Close(r)
    BY <2>4, CloseInvariant
  <2>5. CASE Submit(r)
    BY <2>5, SubmitInvariant
  <2>6. CASE ApplyLifecycle(r)
    BY <2>6, LifecycleInvariant
  <2>7. CASE ApplyUpdate(r)
    BY <2>7, UpdateInvariant
  <2>8. CASE ApplyDelete(r)
    BY <2>8, DeleteInvariant
  <2>9. QED
    BY <1>2, <2>1, <2>2, <2>3, <2>4, <2>5, <2>6, <2>7, <2>8 DEF Step
<1>3. QED  BY <1>1, <1>2, StartInvariant, FailInvariant DEF Next

\* Invariance of IInv: whatever calls overlap, fail or die.
THEOREM Invariance == Spec => []IInv
  BY InitInvariant, NextInvariant, PTL DEF Spec

\* Every row and every handler keeps its shape.
THEOREM TypeCorrect == Spec => []TypeOK
<1>1. IInv => TypeOK
  BY DEF IInv
<1>2. QED  BY <1>1, Invariance, PTL

\* An expense awaits a decision exactly while one request about it, the last one,
\* is pending: submit, approve, reject and resubmit write both or neither.
THEOREM RequestsAgree == Spec => []PendingAgreement
<1>1. IInv => PendingAgreement
  BY DEF IInv
<1>2. QED  BY <1>1, Invariance, PTL

\* Nothing is spent without the approval of somebody else than who asked: also
\* when complete and cancel, which check nothing when they write, overlap.
THEOREM DecisionsAreReviewed == Spec => []DecidedByAnother
<1>1. IInv => DecidedByAnother
  BY DEF IInv
<1>2. QED  BY <1>1, Invariance, PTL

-----------------------------------------------------------------------------
(***************************************************************************)
(* Total, by the function that computes it over the subsets of a set: what *)
(* it chooses to add first does not matter.                                *)
(***************************************************************************)

\* The pair the sum of s takes first.
One(s) == CHOOSE x \in s : TRUE

\* f computes the sum of every subset of S.
Sums(f, S) == f = [s \in SUBSET S |-> IF s = {} THEN 0 ELSE One(s)[2] + f[s \ {One(s)}]]

\* Total chooses the function that computes it.
LEMMA TotalIsChosen ==
    ASSUME NEW S PROVE Total(S) = (CHOOSE f : Sums(f, S))[S]
  BY DEF Total, MapThenSumSet, MapThenFoldSet, Sums, One

\* Some set of a nonempty collection of finite sets has no subset in it.
LEMMA Minimal ==
    ASSUME NEW S, IsFiniteSet(S), NEW T \in SUBSET (SUBSET S), T # {}
    PROVE  \E s \in T : \A t \in T : ~(t \subseteq s /\ t # s)
<1>1. IsWellFoundedOn(StrictSubsetOrdering(S), SUBSET S)
  <2>1. IsWellFoundedOn(StrictSubsetOrdering(S), FiniteSubsetsOf(S))
    BY FS_StrictSubsetOrderingWellFounded
  <2>2. FiniteSubsetsOf(S) = SUBSET S
    BY FS_FiniteSubsetsOfFinite
  <2>3. QED  BY <2>1, <2>2
<1>2. PICK s \in T : \A t \in T : ~(<<t, s>> \in StrictSubsetOrdering(S))
  BY <1>1, WFMin
<1>3. ASSUME NEW t \in T, t \subseteq s, t # s PROVE FALSE
  <2>1. <<t, s>> \in StrictSubsetOrdering(S)
    BY <1>3 DEF StrictSubsetOrdering
  <2>2. QED  BY <1>2, <2>1
<1>4. QED  BY <1>3

LEMMA OneIn == ASSUME NEW s, s # {} PROVE One(s) \in s
  BY DEF One

\* What f is at a subset.
LEMMA SumsAt ==
    ASSUME NEW f, NEW S, Sums(f, S), NEW s \in SUBSET S
    PROVE  f[s] = IF s = {} THEN 0 ELSE One(s)[2] + f[s \ {One(s)}]
<1> DEFINE g == [t \in SUBSET S |-> IF t = {} THEN 0 ELSE One(t)[2] + f[t \ {One(t)}]]
<1>1. f = g
  BY DEF Sums
<1>2. g[s] = IF s = {} THEN 0 ELSE One(s)[2] + f[s \ {One(s)}]
  OBVIOUS
<1> HIDE DEF g
<1>3. f[s] = g[s]
  BY <1>1
<1>4. QED  BY <1>2, <1>3

\* Two functions that compute the sums agree on the sets both know.
LEMMA SumsAgree ==
    ASSUME NEW U, IsFiniteSet(U), NEW f, NEW S, Sums(f, S), NEW g, NEW T, Sums(g, T),
           U \subseteq S, U \subseteq T
    PROVE  f[U] = g[U]
<1> DEFINE bad == {u \in SUBSET U : f[u] # g[u]}
<1>1. SUFFICES ASSUME bad # {} PROVE FALSE
  OBVIOUS
<1>2. PICK s \in bad : \A t \in bad : ~(t \subseteq s /\ t # s)
  <2>1. bad \in SUBSET (SUBSET U)
    OBVIOUS
  <2> HIDE DEF bad
  <2>2. QED  BY <1>1, <2>1, Minimal
<1>3. s \in SUBSET S /\ s \in SUBSET T
  OBVIOUS
<1>4. /\ f[s] = IF s = {} THEN 0 ELSE One(s)[2] + f[s \ {One(s)}]
      /\ g[s] = IF s = {} THEN 0 ELSE One(s)[2] + g[s \ {One(s)}]
  BY <1>3, SumsAt
<1>5. CASE s = {}
  BY <1>4, <1>5
<1>6. CASE s # {}
  <2>1. One(s) \in s
    BY <1>6, OneIn
  <2>2. s \ {One(s)} \notin bad
    BY <1>2, <2>1
  <2>3. f[s \ {One(s)}] = g[s \ {One(s)}]
    BY <2>2
  <2>4. QED  BY <1>4, <1>6, <2>3
<1>7. QED  BY <1>5, <1>6

\* Every finite set has a function that computes the sums of its subsets.
LEMMA SumsExist ==
    ASSUME NEW S, IsFiniteSet(S) PROVE \E f : Sums(f, S)
<1> DEFINE bad == {s \in SUBSET S : ~\E f : Sums(f, s)}
<1>1. SUFFICES ASSUME bad # {} PROVE FALSE
  OBVIOUS
<1>2. PICK s \in bad : \A t \in bad : ~(t \subseteq s /\ t # s)
  <2>1. bad \in SUBSET (SUBSET S)
    OBVIOUS
  <2> HIDE DEF bad
  <2>2. QED  BY <1>1, <2>1, Minimal
<1>3. ASSUME NEW t \in SUBSET s, t # s PROVE Sums(CHOOSE f : Sums(f, t), t)
  <2>1. \E f : Sums(f, t)
    BY <1>2, <1>3
  <2>2. QED  BY <2>1
<1> DEFINE value(t) == IF t = {} THEN 0 ELSE One(t)[2] + Total(t \ {One(t)})
           f == [t \in SUBSET s |-> value(t)]
<1>4. ASSUME NEW t \in SUBSET s, t # s PROVE Total(t) = value(t)
  <2> DEFINE g == CHOOSE h : Sums(h, t)
  <2>1. Total(t) = g[t] /\ Sums(g, t)
    BY <1>3, <1>4, TotalIsChosen
  <2> HIDE DEF g
  <2>2. g[t] = IF t = {} THEN 0 ELSE One(t)[2] + g[t \ {One(t)}]
    BY <2>1, SumsAt
  <2>3. CASE t = {}
    BY <2>1, <2>2, <2>3
  <2>4. CASE t # {}
    <3> DEFINE u == t \ {One(t)}
               h == CHOOSE k : Sums(k, u)
    <3>1. u \in SUBSET s /\ u # s /\ u \subseteq t
      BY <1>4, <2>4, OneIn
    <3>2. IsFiniteSet(u)
      BY <3>1, FS_Subset
    <3>3. Total(u) = h[u] /\ Sums(h, u)
      BY <1>3, <3>1, TotalIsChosen
    <3> HIDE DEF u, h
    <3>4. h[u] = g[u]
      BY <2>1, <3>1, <3>2, <3>3, SumsAgree
    <3>5. Total(u) = g[u]
      BY <3>3, <3>4
    <3>6. QED  BY <2>1, <2>2, <2>4, <3>5 DEF u
  <2>5. QED  BY <2>3, <2>4
<1>5. \A t \in SUBSET s : t # {} => Total(t \ {One(t)}) = f[t \ {One(t)}]
  <2> SUFFICES ASSUME NEW t \in SUBSET s, t # {}
               PROVE Total(t \ {One(t)}) = f[t \ {One(t)}]
    OBVIOUS
  <2> DEFINE u == t \ {One(t)}
  <2>1. u \in SUBSET s /\ u # s
    BY OneIn
  <2> HIDE DEF u, value
  <2>2. Total(u) = value(u)
    BY <1>4, <2>1
  <2>3. f[u] = value(u)
    BY <2>1
  <2>4. QED  BY <2>2, <2>3 DEF u
<1>6. f = [t \in SUBSET s |-> IF t = {} THEN 0 ELSE One(t)[2] + f[t \ {One(t)}]]
  <2> HIDE DEF f
  <2>1. \A t \in SUBSET s : value(t) = IF t = {} THEN 0 ELSE One(t)[2] + f[t \ {One(t)}]
    BY <1>5
  <2> HIDE DEF value
  <2>2. QED  BY <2>1 DEF f
<1>7. Sums(f, s)
  BY <1>6 DEF Sums
<1>8. \E k : Sums(k, s)
  <2> HIDE DEF f
  <2>1. QED  BY <1>7
<1>9. QED  BY <1>2, <1>8

\* The sum of nothing, and of a set with one pair taken out.
LEMMA TotalStep ==
    ASSUME NEW S, IsFiniteSet(S)
    PROVE  Total(S) = IF S = {} THEN 0 ELSE One(S)[2] + Total(S \ {One(S)})
<1> DEFINE g == CHOOSE h : Sums(h, S)
           u == S \ {One(S)}
           k == CHOOSE h : Sums(h, u)
<1>1. Total(S) = g[S] /\ Sums(g, S)
  BY SumsExist, TotalIsChosen
<1>2. IsFiniteSet(u)
  BY FS_RemoveElement
<1>3. Total(u) = k[u] /\ Sums(k, u)
  BY <1>2, SumsExist, TotalIsChosen
<1> HIDE DEF g, k
<1>4. g[S] = IF S = {} THEN 0 ELSE One(S)[2] + g[u]
  BY <1>1, SumsAt
<1>5. k[u] = g[u]
  <2>1. u \subseteq u /\ u \subseteq S
    OBVIOUS
  <2> HIDE DEF u
  <2>2. QED  BY <1>1, <1>2, <1>3, <2>1, SumsAgree
<1>6. QED  BY <1>1, <1>3, <1>4, <1>5

\* Finite sets of pairs, each with the natural number it counts for.
Weighed(S) == IsFiniteSet(S) /\ \A pair \in S : pair[2] \in Nat

LEMMA WeighedSubset ==
    ASSUME NEW S, Weighed(S), NEW T \in SUBSET S PROVE Weighed(T)
  BY FS_Subset DEF Weighed

LEMMA TotalNat ==
    ASSUME NEW S, Weighed(S) PROVE Total(S) \in Nat
<1> DEFINE bad == {s \in SUBSET S : Total(s) \notin Nat}
<1>1. SUFFICES ASSUME bad # {} PROVE FALSE
  OBVIOUS
<1>2. PICK s \in bad : \A t \in bad : ~(t \subseteq s /\ t # s)
  <2>1. bad \in SUBSET (SUBSET S) /\ IsFiniteSet(S)
    BY DEF Weighed
  <2> HIDE DEF bad
  <2>2. QED  BY <1>1, <2>1, Minimal
<1>3. Weighed(s)
  BY WeighedSubset
<1>4. Total(s) = IF s = {} THEN 0 ELSE One(s)[2] + Total(s \ {One(s)})
  BY <1>3, TotalStep DEF Weighed
<1>5. CASE s = {}
  BY <1>4, <1>5
<1>6. CASE s # {}
  <2>1. One(s) \in s
    BY <1>6, OneIn
  <2>2. s \ {One(s)} \notin bad
    BY <1>2, <2>1
  <2>3. Total(s \ {One(s)}) \in Nat
    BY <2>2
  <2>4. One(s)[2] \in Nat
    BY <1>3, <2>1 DEF Weighed
  <2>5. QED  BY <1>4, <1>6, <2>3, <2>4
<1>7. QED  BY <1>5, <1>6

\* Whichever pair is taken out of a set, its total is that pair's and the rest's.
LEMMA TotalOut ==
    ASSUME NEW S, Weighed(S), NEW p \in S
    PROVE  Total(S) = p[2] + Total(S \ {p})
<1> DEFINE bad == {s \in SUBSET S : \E q \in s : Total(s) # q[2] + Total(s \ {q})}
<1>1. SUFFICES ASSUME bad # {} PROVE FALSE
  OBVIOUS
<1>2. PICK s \in bad : \A t \in bad : ~(t \subseteq s /\ t # s)
  <2>1. bad \in SUBSET (SUBSET S) /\ IsFiniteSet(S)
    BY DEF Weighed
  <2> HIDE DEF bad
  <2>2. QED  BY <1>1, <2>1, Minimal
<1>3. PICK q \in s : Total(s) # q[2] + Total(s \ {q})
  BY <1>2
<1>4. Weighed(s)
  BY WeighedSubset
<1> DEFINE o == One(s)
           so == s \ {o}
           sq == s \ {q}
<1>5. o \in s
  BY OneIn
<1>6. Total(s) = o[2] + Total(so)
  BY <1>4, <1>5, TotalStep DEF Weighed
<1>7. q # o
  BY <1>3, <1>6
<1>8. so \notin bad /\ sq \notin bad
  BY <1>2, <1>5
<1>9. so \in SUBSET S /\ sq \in SUBSET S /\ q \in so /\ o \in sq
  BY <1>5, <1>7
<1>10. Total(so) = q[2] + Total(so \ {q})
  BY <1>8, <1>9
<1>11. Total(sq) = o[2] + Total(sq \ {o})
  BY <1>8, <1>9
<1>12. so \ {q} = sq \ {o}
  OBVIOUS
<1>13. o[2] \in Nat /\ q[2] \in Nat /\ Total(sq \ {o}) \in Nat
  <2>1. Weighed(sq \ {o})
    BY <1>4, WeighedSubset
  <2>2. QED  BY <1>4, <1>5, <2>1, TotalNat DEF Weighed
<1>14. Total(so) = q[2] + Total(sq \ {o})
  BY <1>10, <1>12
<1>15. Total(s) = q[2] + Total(sq)
  <2> HIDE DEF so, sq, o
  <2>1. QED  BY <1>6, <1>11, <1>13, <1>14
<1>16. QED  BY <1>3, <1>15

\* Together, two sets total at most what they total apart.
LEMMA TotalUnion ==
    ASSUME NEW S, NEW T, Weighed(S), Weighed(T)
    PROVE  Weighed(S \cup T) /\ Total(S \cup T) <= Total(S) + Total(T)
<1>0. \A U \in SUBSET S : Weighed(U) /\ Weighed(U \cup T)
  <2>1. ASSUME NEW U \in SUBSET S PROVE Weighed(U) /\ Weighed(U \cup T)
    <3>1. Weighed(U)
      BY WeighedSubset
    <3>2. IsFiniteSet(U \cup T)
      BY <3>1, FS_Union DEF Weighed
    <3>3. QED  BY <3>1, <3>2 DEF Weighed
  <2>2. QED  BY <2>1
<1> DEFINE bad == {s \in SUBSET S : ~(Total(s \cup T) <= Total(s) + Total(T))}
<1>1. SUFFICES ASSUME bad # {} PROVE FALSE
  <2>1. S \in SUBSET S
    OBVIOUS
  <2>2. QED  BY <1>0, <2>1
<1>2. PICK s \in bad : \A t \in bad : ~(t \subseteq s /\ t # s)
  <2>1. bad \in SUBSET (SUBSET S) /\ IsFiniteSet(S)
    BY DEF Weighed
  <2> HIDE DEF bad
  <2>2. QED  BY <1>1, <2>1, Minimal
<1>3. s \in SUBSET S /\ ~(Total(s \cup T) <= Total(s) + Total(T))
  BY <1>2
<1>4. CASE s = {}
  <2>1. s \cup T = T /\ Total(s) = 0
    BY <1>0, <1>3, <1>4, TotalStep DEF Weighed
  <2>2. Total(T) \in Nat
    BY TotalNat
  <2>3. Total(s \cup T) = Total(T)
    BY <2>1
  <2>4. QED  BY <1>3, <2>1, <2>2, <2>3
<1>5. CASE s # {}
  <2>1. PICK p \in s : TRUE
    BY <1>5
  <2> DEFINE rest == s \ {p}
  <2>2. rest \notin bad /\ rest \in SUBSET S
    BY <1>2, <1>3, <2>1
  <2>3. Total(rest \cup T) <= Total(rest) + Total(T)
    BY <2>2
  <2>4. Weighed(s) /\ Weighed(s \cup T) /\ Weighed(rest) /\ Weighed(rest \cup T)
    BY <1>0, <1>3, <2>2
  <2>5. /\ p[2] \in Nat /\ Total(rest) \in Nat /\ Total(T) \in Nat
        /\ Total(rest \cup T) \in Nat
    BY <2>4, TotalNat DEF Weighed
  <2>6. Total(s) = p[2] + Total(rest)
    BY <2>4, TotalOut
  <2>7. Total(s \cup T) <= p[2] + Total(rest \cup T)
    <3>1. CASE p \in T
      <4>1. s \cup T = rest \cup T
        BY <3>1
      <4>2. Total(s \cup T) = Total(rest \cup T)
        BY <4>1
      <4> HIDE DEF rest
      <4>3. QED  BY <2>5, <4>2
    <3>2. CASE p \notin T
      <4>1. (s \cup T) \ {p} = rest \cup T /\ p \in s \cup T
        BY <3>2
      <4>2. Total(s \cup T) = p[2] + Total((s \cup T) \ {p})
        BY <2>4, <4>1, TotalOut
      <4>3. Total(s \cup T) = p[2] + Total(rest \cup T)
        BY <4>1, <4>2
      <4> HIDE DEF rest
      <4>4. QED  BY <2>5, <4>3
    <3>3. QED  BY <3>1, <3>2
  <2>8. Total(s \cup T) <= Total(s) + Total(T)
    <3>1. Total(s \cup T) \in Nat
      BY <2>4, TotalNat
    <3> HIDE DEF rest
    <3>2. QED  BY <2>3, <2>5, <2>6, <2>7, <3>1
  <2>9. QED  BY <1>3, <2>8
<1>6. QED  BY <1>4, <1>5

\* A set totals no more than a set that holds it.
LEMMA TotalMonotone ==
    ASSUME NEW S, Weighed(S), NEW T \in SUBSET S
    PROVE  Total(T) <= Total(S)
<1> DEFINE bad == {s \in SUBSET S : T \subseteq s /\ ~(Total(T) <= Total(s))}
<1>1. SUFFICES ASSUME bad # {} PROVE FALSE
  <2>1. S \in SUBSET S
    OBVIOUS
  <2>2. QED  BY <2>1
<1>2. PICK s \in bad : \A t \in bad : ~(t \subseteq s /\ t # s)
  <2>1. bad \in SUBSET (SUBSET S) /\ IsFiniteSet(S)
    BY DEF Weighed
  <2> HIDE DEF bad
  <2>2. QED  BY <1>1, <2>1, Minimal
<1>3. s \in SUBSET S /\ T \subseteq s /\ ~(Total(T) <= Total(s))
  BY <1>2
<1>4. Weighed(s) /\ Weighed(T)
  BY <1>3, WeighedSubset
<1>5. Total(s) \in Nat /\ Total(T) \in Nat
  BY <1>4, TotalNat
<1>6. CASE s = T
  BY <1>3, <1>5, <1>6
<1>7. CASE s # T
  <2>1. PICK p \in s : p \notin T
    BY <1>3, <1>7
  <2> DEFINE rest == s \ {p}
  <2>2. rest \notin bad /\ rest \in SUBSET S /\ T \subseteq rest
    BY <1>2, <1>3, <2>1
  <2>3. Total(T) <= Total(rest)
    BY <2>2
  <2>4. Total(s) = p[2] + Total(rest)
    BY <1>4, TotalOut
  <2>5. p[2] \in Nat /\ Total(rest) \in Nat
    <3>1. Weighed(rest)
      BY <2>2, WeighedSubset
    <3>2. QED  BY <1>4, <3>1, TotalNat DEF Weighed
  <2> HIDE DEF rest
  <2>6. Total(T) <= Total(s)
    BY <1>5, <2>3, <2>4, <2>5
  <2>7. QED  BY <1>3, <2>6
<1>8. QED  BY <1>6, <1>7

-----------------------------------------------------------------------------
(***************************************************************************)
(* What one step does, told apart from how: to the row it writes, to the   *)
(* handler that takes it, and to everybody else.                           *)
(***************************************************************************)

\* Two rows for the same amount, on the same line.
SameReservation(old, new) ==
    /\ new.line = old.line
    /\ new.amountXof = old.amountXof
    /\ new.type = old.type

\* The creation of an expense.
Creates(r, old, new) ==
    /\ pc[r] = "idle"
    /\ old.life = "absent"
    /\ new.expenseWorkflowStatus = NullState

\* The end of a call of the workflow.
Moves(r, old, new) ==
    /\ old.life = "stored" /\ new.life = "stored"
    /\ SameReservation(old, new) /\ new.status = old.status
    /\ \/ /\ pc[r] = "close"
          /\ old.expenseWorkflowStatus = "PENDING_APPROVAL"
          /\ new.expenseWorkflowStatus = Decision(local[r].call)
       \/ /\ pc[r] = "submit"
          /\ old.expenseWorkflowStatus \in {NullState, "REJECTED"}
          /\ new.expenseWorkflowStatus = "PENDING_APPROVAL"
       \/ /\ pc[r] = "apply" /\ local[r].call \in {"complete", "cancel"}
          /\ new.expenseWorkflowStatus = Target(local[r].call)

\* The end of an update.
Updates(r, old, new) ==
    /\ pc[r] = "apply" /\ local[r].call = "update"
    /\ new = Updated(old, local[r].dto)

\* The end of a deletion.
Deletes(r, old, new) ==
    /\ pc[r] \in Steps
    /\ new.life = "deleted"
    /\ SameReservation(old, new)
    /\ new.expenseWorkflowStatus = old.expenseWorkflowStatus

\* Handler r ends by writing a new row over that of e.
WritesRow(r, e, new) ==
    /\ expenses' = [expenses EXCEPT ![e] = new]
    /\ budgets' = budgets
    /\ pc'[r] = "done"
    /\ \/ Creates(r, expenses[e], new)
       \/ /\ e = local[r].target
          /\ \/ Moves(r, expenses[e], new)
             \/ Updates(r, expenses[e], new)
             \/ Deletes(r, expenses[e], new)

\* Nobody but r moves, and who holds a line keeps it, with its budget.
Alone(r) ==
    /\ \A s \in Requests : s # r => pc'[s] = pc[s] /\ local'[s] = local[s]
    /\ \A l \in Lines : holder[l] \notin {NoRequest, r} =>
          /\ holder'[l] = holder[l]
          /\ budgets[l] # NoBudget => budgets'[l] = budgets[l]

\* Handler r makes its first read, and keeps what it found.
Began(r) ==
    /\ pc[r] = "idle"
    /\ expenses' = expenses
    /\ local'[r].target \in Expenses
    /\ local'[r].from = expenses[local'[r].target].expenseWorkflowStatus
    /\ pc'[r] \notin {"sum1", "sum2", "sum3"}
    /\ pc'[r] = "close" => local'[r].call = "reject"
    /\ pc'[r] = "lock" =>
          /\ local'[r].call = "approve"
          /\ expenses[local'[r].target].life = "stored"
          /\ local'[r].line = expenses[local'[r].target].line
          /\ local'[r].amount = expenses[local'[r].target].amountXof
    /\ pc'[r] = "apply" =>
          /\ local'[r].call \in {"complete", "cancel"} =>
                expenses[local'[r].target].expenseWorkflowStatus = "APPROVED"
          /\ local'[r].call = "update" =>
                \/ expenses[local'[r].target].expenseWorkflowStatus \notin Decided
                \/ ~TouchesLockedField(expenses[local'[r].target], local'[r].dto)

\* The approval r goes on to its next statement.
Went(r) ==
    /\ expenses' = expenses /\ budgets' = budgets
    /\ pc[r] \in Steps
    /\ local'[r].call = local[r].call /\ local'[r].target = local[r].target
    /\ local'[r].line = local[r].line /\ local'[r].amount = local[r].amount
    /\ overtaken' = overtaken
    /\ \/ /\ pc[r] = "lock" /\ pc'[r] = "sum1"
          /\ holder'[local[r].line] = r
          /\ budgets[local[r].line] # NoBudget
          /\ local'[r].budget = budgets[local[r].line]
       \/ /\ pc[r] = "sum1" /\ pc'[r] = "sum2"
          /\ holder' = holder /\ local'[r].budget = local[r].budget
          /\ local'[r].sum1 = Bucket(local[r].line, "APPROVED")
       \/ /\ pc[r] = "sum2" /\ pc'[r] = "sum3"
          /\ holder' = holder /\ local'[r].budget = local[r].budget
          /\ local'[r].sum1 = local[r].sum1
          /\ local'[r].sum2 = Bucket(local[r].line, "COMPLETED")
       \/ /\ pc[r] = "sum3" /\ pc'[r] = "close"
          /\ holder' = holder /\ local' = local
          /\ Fits(local[r], LegacyRealized(local[r].line))

\* The history knows of every row that is written.
Recorded(r) == Remember(r) \/ UNCHANGED <<expenses, overtaken, moved>>

\* What a step of r is made of.
Shape(r) ==
    /\ Alone(r) /\ Recorded(r)
    /\ pc'[r] # "idle"
    /\ pc'[r] \in Steps => Began(r) \/ Went(r)
    /\ \/ expenses' = expenses
       \/ \E e \in Expenses : \E new \in ExpenseRows : WritesRow(r, e, new)

\* The types the shapes of steps are read from.
LEMMA ShapeTypes ==
    ASSUME IInv
    PROVE  /\ expenses \in [Expenses -> ExpenseRows]
           /\ budgets \in [Lines -> Nat \cup {NoBudget}]
           /\ holder \in [Lines -> Requests \cup {NoRequest}]
           /\ pc \in [Requests -> Steps \cup {"idle", "done"}]
           /\ local \in [Requests -> Locals]
  BY IInvParts DEF BooksOK, LinesOK, HandlersOK

\* A handler that ends frees its own lines.
LEMMA FinishAlone ==
    ASSUME IInv, NEW r \in Requests, Finish(r), budgets' = budgets
    PROVE  Alone(r) /\ Recorded(r) /\ pc'[r] = "done"
<1>1. Alone(r) /\ pc'[r] = "done"
  BY ShapeTypes DEF Finish, Release, Alone
<1>2. Recorded(r)
  BY DEF Finish, Recorded
<1>3. QED  BY <1>1, <1>2

\* A refusal, or a failure, writes nothing.
LEMMA RefuseShape ==
    ASSUME IInv, NEW r \in Requests, Finish(r), UNCHANGED <<expenses, budgets>>
    PROVE  Shape(r)
  BY FinishAlone DEF Shape, Steps

\* A handler that ends with a write has the shape of one.
LEMMA WriteShape ==
    ASSUME IInv, NEW r \in Requests, Finish(r), budgets' = budgets,
           NEW e \in Expenses, NEW new \in ExpenseRows, e = local[r].target,
           expenses' = [expenses EXCEPT ![e] = new],
           \/ Moves(r, expenses[e], new)
           \/ Updates(r, expenses[e], new)
           \/ Deletes(r, expenses[e], new)
    PROVE  Shape(r)
<1>1. Alone(r) /\ Recorded(r) /\ pc'[r] = "done"
  BY FinishAlone
<1>2. WritesRow(r, e, new)
  BY <1>1 DEF WritesRow
<1>3. QED  BY <1>1, <1>2 DEF Shape, Steps

\* The statements that need no second step.
LEMMA AtOnceShape ==
    ASSUME IInv, NEW r \in Requests,
           \/ \E e \in Expenses, row \in NewRows : Create(r, e, row)
           \/ \E l \in Lines, b \in Budgets : SetBudget(r, l, b)
           \/ \E l \in Lines : DeleteBudget(r, l)
           \/ EnsureDefaults(r)
    PROVE  Shape(r)
<1>1. AtOnce(r) /\ Recorded(r)
  BY DEF Create, SetBudget, DeleteBudget, EnsureDefaults, Recorded
<1>2. pc'[r] = "done" /\ \A s \in Requests : s # r => pc'[s] = pc[s] /\ local'[s] = local[s]
  BY <1>1, ShapeTypes DEF AtOnce
<1>3. holder' = holder
  BY <1>1 DEF AtOnce
<1>4. CASE \E e \in Expenses, row \in NewRows : Create(r, e, row)
  <2>1. PICK e \in Expenses, row \in NewRows : Create(r, e, row)
    BY <1>4
  <2>2. budgets' = budgets /\ expenses' = [expenses EXCEPT ![e] = row]
    BY <2>1 DEF Create
  <2>3. row \in ExpenseRows /\ Creates(r, expenses[e], row)
    BY <2>1 DEF Create, AtOnce, MayStart, Creates, NewRows
  <2>4. WritesRow(r, e, row)
    BY <1>2, <2>2, <2>3 DEF WritesRow
  <2>5. Alone(r)
    BY <1>2, <1>3, <2>2 DEF Alone
  <2>6. QED  BY <1>1, <1>2, <2>3, <2>4, <2>5 DEF Shape, Steps
<1>5. CASE \/ \E l \in Lines, b \in Budgets : SetBudget(r, l, b)
           \/ \E l \in Lines : DeleteBudget(r, l)
           \/ EnsureDefaults(r)
  <2>1. expenses' = expenses
    BY <1>5 DEF SetBudget, DeleteBudget, EnsureDefaults
  <2>2. \A l \in Lines : holder[l] # NoRequest /\ budgets[l] # NoBudget
                            => budgets'[l] = budgets[l]
    BY <1>5, ShapeTypes DEF SetBudget, DeleteBudget, EnsureDefaults
  <2>3. Alone(r)
    BY <1>2, <1>3, <2>2 DEF Alone
  <2>4. QED  BY <1>1, <1>2, <2>1, <2>3 DEF Shape, Steps
<1>6. QED  BY <1>4, <1>5

\* A first read has the shape of one.
LEMMA BeginShape ==
    ASSUME IInv, NEW r \in Requests, NEW step \in Steps, NEW h \in Locals,
           Begin(r, step, h), h.target \in Expenses, h.from = State(h.target),
           step \notin {"sum1", "sum2", "sum3"},
           step = "close" => h.call = "reject",
           step = "lock" =>
              /\ h.call = "approve"
              /\ expenses[h.target].life = "stored"
              /\ h.line = expenses[h.target].line
              /\ h.amount = expenses[h.target].amountXof,
           step = "apply" =>
              /\ h.call \in {"complete", "cancel"} =>
                    expenses[h.target].expenseWorkflowStatus = "APPROVED"
              /\ h.call = "update" =>
                    \/ expenses[h.target].expenseWorkflowStatus \notin Decided
                    \/ ~TouchesLockedField(expenses[h.target], h.dto)
    PROVE  Shape(r)
<1>1. /\ pc'[r] = step /\ local'[r] = h
      /\ \A s \in Requests : s # r => pc'[s] = pc[s] /\ local'[s] = local[s]
  BY ShapeTypes DEF Begin
<1>2. /\ UNCHANGED <<expenses, budgets, holder>> /\ pc[r] = "idle"
      /\ Recorded(r)
  BY DEF Begin, MayStart, Recorded
<1>3. Alone(r)
  BY <1>1, <1>2 DEF Alone
<1>4. Began(r)
  BY <1>1, <1>2 DEF Began, State
<1>5. QED  BY <1>1, <1>2, <1>3, <1>4 DEF Shape, Steps

\* So has every call a handler may start.
LEMMA StartShape ==
    ASSUME IInv, NEW r \in Requests, Start(r) PROVE Shape(r)
<1>0. /\ expenses \in [Expenses -> ExpenseRows]
      /\ Directors \subseteq Users /\ Supervisors \subseteq Users
  BY ShapeTypes DEF Users
<1>1. CASE \/ \E e \in Expenses, row \in NewRows : Create(r, e, row)
           \/ \E l \in Lines, b \in Budgets : SetBudget(r, l, b)
           \/ \E l \in Lines : DeleteBudget(r, l)
           \/ EnsureDefaults(r)
  BY <1>1, AtOnceShape
<1>2. ASSUME NEW e \in Expenses, NEW u \in Users \cup {NoUser},
             \/ StartSubmit(r, u, e) \/ StartResubmit(r, u, e) \/ StartReject(r, u, e)
             \/ u = NoUser /\ StartDelete(r, e)
      PROVE  Shape(r)
  <2>1. PICK call \in {"submit", "resubmit", "reject", "delete"},
             step \in {"submit", "close", "apply"} :
                /\ Begin(r, step, Handler(call, u, e))
                /\ step = "close" => call = "reject"
    BY <1>2 DEF StartSubmit, StartResubmit, StartReject, StartDelete
  <2> DEFINE h == Handler(call, u, e)
  <2>2. h \in Locals /\ h.call = call /\ h.target = e /\ h.from = State(e)
    BY <2>1, HandlerType DEF Calls
  <2> HIDE DEF h
  <2>3. Begin(r, step, h) /\ step \in Steps
    BY <2>1 DEF h, Steps
  <2>4. QED  BY <2>1, <2>2, <2>3, BeginShape
<1>3. ASSUME NEW e \in Expenses, NEW u \in Users, StartApprove(r, u, e) PROVE Shape(r)
  <2> DEFINE base == Handler("approve", u, e)
             h == [base EXCEPT !.line = expenses[e].line, !.amount = expenses[e].amountXof]
  <2>1. Begin(r, "lock", h) /\ expenses[e].life = "stored"
    BY <1>3 DEF StartApprove, Stored
  <2>2. base \in Locals /\ base.call = "approve" /\ base.target = e /\ base.from = State(e)
    BY HandlerType DEF Calls
  <2>3. expenses[e].line \in Lines /\ expenses[e].amountXof \in Amounts
    BY <1>0 DEF ExpenseRows
  <2>4. /\ h \in Locals /\ h.call = "approve" /\ h.target = e /\ h.from = State(e)
        /\ h.line = expenses[e].line /\ h.amount = expenses[e].amountXof
    BY <2>2, <2>3 DEF Locals
  <2> HIDE DEF h
  <2>5. QED  BY <2>1, <2>4, BeginShape DEF Steps
<1>4. ASSUME NEW e \in Expenses, NEW u \in Users, NEW call \in {"complete", "cancel"},
             StartLifecycle(r, u, e, call)
      PROVE  Shape(r)
  <2> DEFINE h == Handler(call, u, e)
  <2>1. Begin(r, "apply", h) /\ CanTransition(State(e), Target(call))
    BY <1>4 DEF StartLifecycle
  <2>2. h \in Locals /\ h.call = call /\ h.target = e /\ h.from = State(e)
    BY HandlerType DEF Calls
  <2>3. State(e) \in ExpenseWorkflowStatuses \cup {NullState}
    BY <1>0 DEF State, ExpenseRows
  <2>4. expenses[e].expenseWorkflowStatus = "APPROVED"
    BY <2>1, <2>3 DEF CanTransition, Target, AllowedTransitions,
                      ExpenseWorkflowStatuses, NullState, State
  <2> HIDE DEF h
  <2>5. h.call # "update"
    BY <2>2
  <2>6. QED  BY <2>1, <2>2, <2>4, <2>5, BeginShape DEF Steps
<1>5. ASSUME NEW e \in Expenses, NEW dto \in OneField, StartUpdate(r, e, dto)
      PROVE  Shape(r)
  <2> DEFINE base == Handler("update", NoUser, e)
             h == [base EXCEPT !.dto = dto]
  <2>1. /\ Begin(r, "apply", h)
        /\ State(e) \in FinanciallyLockedStates => ~TouchesLockedField(expenses[e], dto)
    BY <1>5 DEF StartUpdate
  <2>2. base \in Locals /\ base.call = "update" /\ base.target = e /\ base.from = State(e)
    BY HandlerType DEF Calls
  <2>3. dto \in UpdateDtos
    BY DEF OneField, NoDto, UpdateDtos
  <2>4. /\ h \in Locals /\ h.call = "update" /\ h.target = e /\ h.dto = dto
        /\ h.from = State(e)
    BY <2>2, <2>3 DEF Locals
  <2>5. \/ expenses[e].expenseWorkflowStatus \notin Decided
        \/ ~TouchesLockedField(expenses[e], dto)
    BY <2>1 DEF State, FinanciallyLockedStates
  <2> HIDE DEF h
  <2>6. h.call \notin {"complete", "cancel"}
    BY <2>4
  <2>7. QED  BY <2>1, <2>4, <2>5, <2>6, BeginShape DEF Steps
<1>6. QED
  BY <1>0, <1>1, <1>2, <1>3, <1>4, <1>5 DEF Start

\* The statements of an approval go on, or refuse it.
LEMMA ApprovalShape ==
    ASSUME IInv, NEW r \in Requests,
           LockBudgetLine(r) \/ SumFirst(r) \/ SumSecond(r) \/ SumLegacy(r)
    PROVE  Shape(r)
<1>0. /\ local[r] \in Locals /\ pc[r] \in Steps /\ local[r].line \in Lines
  BY HandlerFacts DEF LockBudgetLine, SumFirst, SumSecond, SumLegacy, Steps
<1>1. CASE Refuse(r)
  BY <1>1, RefuseShape DEF Refuse
<1>2. CASE LockBudgetLine(r) /\ ~Refuse(r)
  <2> DEFINE l == local[r].line
             h == [local[r] EXCEPT !.budget = budgets[l]]
  <2>1. /\ pc[r] = "lock" /\ holder[l] = NoRequest /\ budgets[l] # NoBudget
        /\ holder' = [holder EXCEPT ![l] = r] /\ Goto(r, "sum1")
        /\ local' = [local EXCEPT ![r].budget = budgets[l]]
        /\ expenses' = expenses /\ budgets' = budgets
        /\ UNCHANGED <<overtaken, moved>>
    BY <1>2 DEF LockBudgetLine
  <2>2. local' = [local EXCEPT ![r] = h] /\ pc' = [pc EXCEPT ![r] = "sum1"]
    BY <2>1 DEF Goto
  <2>3. /\ local'[r] = h /\ pc'[r] = "sum1"
        /\ \A s \in Requests : s # r => pc'[s] = pc[s] /\ local'[s] = local[s]
    BY <2>2, ShapeTypes
  <2>4. budgets[l] \in Nat
    BY <1>0, <2>1, ShapeTypes
  <2>5. /\ h.call = local[r].call /\ h.target = local[r].target
        /\ h.line = local[r].line /\ h.amount = local[r].amount
        /\ h.budget = budgets[l]
    BY <1>0, <2>4 DEF Locals
  <2>6. holder'[l] = r /\ \A k \in Lines : k # l => holder'[k] = holder[k]
    BY <1>0, <2>1, ShapeTypes
  <2>7. Alone(r)
    BY <2>1, <2>3, <2>6 DEF Alone
  <2>8. Went(r)
    BY <1>0, <2>1, <2>3, <2>5, <2>6 DEF Went
  <2>9. QED  BY <2>1, <2>3, <2>7, <2>8 DEF Shape, Recorded
<1>3. CASE SumFirst(r)
  <2> DEFINE h == [local[r] EXCEPT !.sum1 = Bucket(local[r].line, SumOrder[1])]
  <2>1. /\ pc[r] = "sum1" /\ Goto(r, "sum2") /\ local' = [local EXCEPT ![r] = h]
        /\ UNCHANGED <<expenses, budgets, holder, overtaken, moved>>
    BY <1>3 DEF SumFirst
  <2>2. /\ local'[r] = h /\ pc'[r] = "sum2"
        /\ \A s \in Requests : s # r => pc'[s] = pc[s] /\ local'[s] = local[s]
    BY <2>1, ShapeTypes DEF Goto
  <2>3. /\ h.call = local[r].call /\ h.target = local[r].target
        /\ h.line = local[r].line /\ h.amount = local[r].amount
        /\ h.budget = local[r].budget
        /\ h.sum1 = Bucket(local[r].line, SumOrder[1])
    BY <1>0 DEF Locals
  <2>4. SumOrder[1] = "APPROVED"
    BY DEF SumOrder
  <2>5. Alone(r)
    BY <2>1, <2>2 DEF Alone
  <2>6. Went(r)
    BY <1>0, <2>1, <2>2, <2>3, <2>4 DEF Went
  <2>7. QED  BY <2>1, <2>2, <2>5, <2>6 DEF Shape, Recorded
<1>4. CASE SumSecond(r)
  <2> DEFINE h == [local[r] EXCEPT !.sum2 = Bucket(local[r].line, SumOrder[2])]
  <2>1. /\ pc[r] = "sum2" /\ Goto(r, "sum3") /\ local' = [local EXCEPT ![r] = h]
        /\ UNCHANGED <<expenses, budgets, holder, overtaken, moved>>
    BY <1>4 DEF SumSecond
  <2>2. /\ local'[r] = h /\ pc'[r] = "sum3"
        /\ \A s \in Requests : s # r => pc'[s] = pc[s] /\ local'[s] = local[s]
    BY <2>1, ShapeTypes DEF Goto
  <2>3. /\ h.call = local[r].call /\ h.target = local[r].target
        /\ h.line = local[r].line /\ h.amount = local[r].amount
        /\ h.budget = local[r].budget /\ h.sum1 = local[r].sum1
        /\ h.sum2 = Bucket(local[r].line, SumOrder[2])
    BY <1>0 DEF Locals
  <2>4. SumOrder[2] = "COMPLETED"
    BY DEF SumOrder
  <2>5. Alone(r)
    BY <2>1, <2>2 DEF Alone
  <2>6. Went(r)
    BY <1>0, <2>1, <2>2, <2>3, <2>4 DEF Went
  <2>7. QED  BY <2>1, <2>2, <2>5, <2>6 DEF Shape, Recorded
<1>5. CASE SumLegacy(r) /\ ~Refuse(r)
  <2>1. /\ pc[r] = "sum3" /\ Goto(r, "close")
        /\ UNCHANGED <<expenses, budgets, holder, local, overtaken, moved>>
        /\ Fits(local[r], LegacyRealized(local[r].line))
    BY <1>5 DEF SumLegacy
  <2>2. /\ pc'[r] = "close"
        /\ \A s \in Requests : s # r => pc'[s] = pc[s]
    BY <2>1, ShapeTypes DEF Goto
  <2>3. Alone(r)
    BY <2>1, <2>2 DEF Alone
  <2>4. Went(r)
    BY <1>0, <2>1, <2>2 DEF Went
  <2>5. QED  BY <2>1, <2>2, <2>3, <2>4 DEF Shape, Recorded
<1>6. QED  BY <1>1, <1>2, <1>3, <1>4, <1>5

\* What the workflow writes is a row with another status.
LEMMA MoveRow ==
    ASSUME IInv, NEW e \in Expenses, expenses[e].life = "stored",
           NEW to \in ExpenseWorkflowStatuses \cup {NullState}, SetState(e, to)
    PROVE  \E new \in ExpenseRows :
              /\ expenses' = [expenses EXCEPT ![e] = new]
              /\ new.life = "stored" /\ new.expenseWorkflowStatus = to
              /\ SameReservation(expenses[e], new)
              /\ new.status = expenses[e].status
<1> DEFINE row == [expenses[e] EXCEPT !.expenseWorkflowStatus = to]
<1>1. expenses[e] \in ExpenseRows
  BY ShapeTypes
<1>2. /\ row \in ExpenseRows /\ row.life = "stored" /\ row.expenseWorkflowStatus = to
      /\ SameReservation(expenses[e], row) /\ row.status = expenses[e].status
  BY <1>1 DEF ExpenseRows, SameReservation
<1>3. expenses' = [expenses EXCEPT ![e] = row]
  BY DEF SetState
<1>4. QED  BY <1>2, <1>3

\* Every other step of a handler writes one row at most.
LEMMA WorkflowShape ==
    ASSUME IInv, NEW r \in Requests, Close(r) \/ Submit(r) \/ ApplyLifecycle(r)
    PROVE  Shape(r)
<1> DEFINE e == local[r].target
<1>0. e \in Expenses /\ pc[r] \in Steps
  BY HandlerFacts DEF Close, Submit, ApplyLifecycle, Applying, Steps
<1>1. CASE Refuse(r)
  BY <1>1, RefuseShape DEF Refuse
<1>2. CASE ~Refuse(r)
  <2>1. PICK to \in ExpenseWorkflowStatuses \cup {NullState} :
          /\ SetState(e, to) /\ expenses[e].life = "stored"
          /\ Finish(r) /\ budgets' = budgets
          /\ \/ /\ pc[r] = "close"
                /\ expenses[e].expenseWorkflowStatus = "PENDING_APPROVAL"
                /\ to = Decision(local[r].call)
             \/ /\ pc[r] = "submit"
                /\ expenses[e].expenseWorkflowStatus \in {NullState, "REJECTED"}
                /\ to = "PENDING_APPROVAL"
             \/ /\ pc[r] = "apply" /\ local[r].call \in {"complete", "cancel"}
                /\ to = Target(local[r].call)
    <3>1. CASE Close(r)
      <4>1. Decision(local[r].call) \in ExpenseWorkflowStatuses
        BY DEF Decision, ExpenseWorkflowStatuses
      <4>2. /\ SetState(e, Decision(local[r].call)) /\ expenses[e].life = "stored"
            /\ Finish(r) /\ budgets' = budgets /\ pc[r] = "close"
            /\ expenses[e].expenseWorkflowStatus = "PENDING_APPROVAL"
        BY <1>2, <3>1 DEF Close, CanClose, Matches, Stored, State
      <4>3. QED  BY <4>1, <4>2
    <3>2. CASE Submit(r)
      <4>1. "PENDING_APPROVAL" \in ExpenseWorkflowStatuses
        BY DEF ExpenseWorkflowStatuses
      <4>2. /\ SetState(e, "PENDING_APPROVAL") /\ expenses[e].life = "stored"
            /\ Finish(r) /\ budgets' = budgets /\ pc[r] = "submit"
            /\ expenses[e].expenseWorkflowStatus \in {NullState, "REJECTED"}
        BY <1>2, <3>2 DEF Submit, Matches, Stored, State, Source
      <4>3. QED  BY <4>1, <4>2
    <3>3. CASE ApplyLifecycle(r)
      <4>1. Target(local[r].call) \in ExpenseWorkflowStatuses
        BY DEF Target, ExpenseWorkflowStatuses
      <4>2. /\ SetState(e, Target(local[r].call)) /\ expenses[e].life = "stored"
            /\ Finish(r) /\ budgets' = budgets /\ pc[r] = "apply"
            /\ local[r].call \in {"complete", "cancel"}
        BY <1>2, <3>3 DEF ApplyLifecycle, Applying, Stored
      <4>3. QED  BY <4>1, <4>2
    <3>4. QED  BY <3>1, <3>2, <3>3
  <2> HIDE DEF e
  <2>2. PICK new \in ExpenseRows :
          /\ expenses' = [expenses EXCEPT ![e] = new]
          /\ new.life = "stored" /\ new.expenseWorkflowStatus = to
          /\ SameReservation(expenses[e], new)
          /\ new.status = expenses[e].status
    BY <1>0, <2>1, MoveRow
  <2>3. Moves(r, expenses[e], new)
    BY <2>1, <2>2 DEF Moves
  <2>4. QED  BY <1>0, <2>1, <2>2, <2>3, WriteShape DEF e
<1>3. QED  BY <1>1, <1>2

LEMMA RowShape ==
    ASSUME IInv, NEW r \in Requests, ApplyUpdate(r) \/ ApplyDelete(r)
    PROVE  Shape(r)
<1> DEFINE e == local[r].target
<1>0. e \in Expenses /\ pc[r] \in Steps /\ local[r] \in Locals /\ expenses[e] \in ExpenseRows
  BY HandlerFacts, ShapeTypes DEF ApplyUpdate, ApplyDelete, Applying, Steps
<1>1. CASE Refuse(r)
  BY <1>1, RefuseShape DEF Refuse
<1>2. CASE ApplyUpdate(r) /\ ~Refuse(r)
  <2> DEFINE new == Updated(expenses[e], local[r].dto)
  <2>1. /\ expenses' = [expenses EXCEPT ![e] = new]
        /\ Finish(r) /\ budgets' = budgets
        /\ pc[r] = "apply" /\ local[r].call = "update"
    BY <1>2 DEF ApplyUpdate, Applying
  <2>2. local[r].dto \in UpdateDtos
    BY <1>0 DEF Locals
  <2>3. new \in ExpenseRows
    BY <1>0, <2>2 DEF Updated, ExpenseRows, UpdateDtos
  <2>4. Updates(r, expenses[e], new)
    BY <2>1 DEF Updates
  <2> HIDE DEF new
  <2>5. QED  BY <1>0, <2>1, <2>3, <2>4, WriteShape
<1>3. CASE ApplyDelete(r) /\ ~Refuse(r)
  <2> DEFINE new == [expenses[e] EXCEPT !.life = "deleted"]
  <2>1. /\ expenses' = [expenses EXCEPT ![e].life = "deleted"]
        /\ Finish(r) /\ budgets' = budgets /\ pc[r] \in Steps
    BY <1>0, <1>3 DEF ApplyDelete
  <2>2. expenses' = [expenses EXCEPT ![e] = new]
    BY <2>1
  <2>3. /\ new \in ExpenseRows /\ new.life = "deleted"
        /\ SameReservation(expenses[e], new)
        /\ new.expenseWorkflowStatus = expenses[e].expenseWorkflowStatus
    BY <1>0 DEF ExpenseRows, SameReservation
  <2>4. Deletes(r, expenses[e], new)
    BY <2>1, <2>3 DEF Deletes
  <2> HIDE DEF new
  <2>5. QED  BY <1>0, <2>1, <2>2, <2>3, <2>4, WriteShape
<1>4. QED  BY <1>1, <1>2, <1>3

\* Whatever a handler does has one of these shapes.
LEMMA StepShape ==
    ASSUME IInv, NEW r \in Requests, Start(r) \/ Step(r) \/ Fail(r)
    PROVE  Shape(r)
<1>1. CASE Fail(r)
  BY <1>1, RefuseShape DEF Fail
<1>2. CASE Step(r)
  BY <1>2, ApprovalShape, WorkflowShape, RowShape DEF Step
<1>3. QED  BY <1>1, <1>2, StartShape

-----------------------------------------------------------------------------
(***************************************************************************)
(* What a handler in flight is, and what it read first.                    *)
(***************************************************************************)

\* The statements of an approval are run by approvals; complete and cancel go on
\* from an expense they found approved.
CallFits(r) ==
    /\ pc[r] = "idle" => local[r].call # "approve"
    /\ pc[r] \in {"lock", "sum1", "sum2", "sum3"} => local[r].call = "approve"
    /\ pc[r] = "close" => local[r].call \in {"approve", "reject"}
    /\ pc[r] = "apply" /\ local[r].call \in {"complete", "cancel"}
          => local[r].from = "APPROVED"

CallsInv == IInv /\ \A r \in Requests : CallFits(r)

LEMMA CallsInit == Init => CallsInv
<1> SUFFICES ASSUME Init PROVE CallsInv
  OBVIOUS
<1>1. NoCall.call = "none"
  BY DEF NoCall
<1>2. QED  BY <1>1, InitInvariant DEF Init, CallsInv, CallFits

LEMMA CallsStep ==
    ASSUME CallsInv, IInv', NEW r \in Requests, Shape(r)
    PROVE  CallsInv'
<1>1. /\ \A s \in Requests : s # r => pc'[s] = pc[s] /\ local'[s] = local[s]
      /\ pc'[r] \in Steps => Began(r) \/ Went(r)
      /\ pc'[r] # "idle"
  BY DEF Shape, Alone
<1>2. ASSUME NEW s \in Requests PROVE CallFits(s)'
  <2>0. CallFits(s)
    BY DEF CallsInv
  <2>1. CASE s # r
    <3>1. pc'[s] = pc[s] /\ local'[s] = local[s]
      BY <1>1, <2>1
    <3>2. QED  BY <2>0, <3>1 DEF CallFits
  <2>2. CASE s = r /\ pc'[r] \notin Steps
    BY <1>1, <2>2 DEF CallFits, Steps
  <2>3. CASE s = r /\ Began(r)
    BY <1>1, <2>3 DEF CallFits, Began
  <2>4. CASE s = r /\ Went(r)
    BY <1>1, <2>0, <2>4 DEF CallFits, Went
  <2>5. QED  BY <1>1, <2>1, <2>2, <2>3, <2>4
<1>3. QED  BY <1>2 DEF CallsInv

LEMMA CallsNext ==
    ASSUME CallsInv, [Next]_vars PROVE CallsInv'
<1>1. IInv /\ IInv'
  BY NextInvariant DEF CallsInv
<1>2. CASE UNCHANGED vars
  BY <1>1, <1>2 DEF vars, CallsInv, CallFits
<1>3. ASSUME NEW r \in Requests, Start(r) \/ Step(r) \/ Fail(r) PROVE CallsInv'
  BY <1>1, <1>3, StepShape, CallsStep
<1>4. QED  BY <1>2, <1>3 DEF Next

\* A step writes one row, and leaves the others.
LEMMA WrittenRow ==
    ASSUME IInv, NEW r \in Requests, Shape(r), NEW e \in Expenses,
           expenses'[e] # expenses[e]
    PROVE  /\ expenses'[e] \in ExpenseRows
           /\ pc'[r] = "done" /\ budgets' = budgets
           /\ \/ Creates(r, expenses[e], expenses'[e])
              \/ /\ e = local[r].target
                 /\ \/ Moves(r, expenses[e], expenses'[e])
                    \/ Updates(r, expenses[e], expenses'[e])
                    \/ Deletes(r, expenses[e], expenses'[e])
<1>1. PICK d \in Expenses, new \in ExpenseRows : WritesRow(r, d, new)
  BY DEF Shape
<1>2. expenses' = [expenses EXCEPT ![d] = new]
  BY <1>1 DEF WritesRow
<1>3. d = e /\ expenses'[e] = new
  BY <1>2, ShapeTypes
<1>4. QED  BY <1>1, <1>3 DEF WritesRow

\* What an update leaves alone.
LEMMA UpdatedFields ==
    ASSUME NEW row \in ExpenseRows, NEW dto \in UpdateDtos
    PROVE  /\ Updated(row, dto).life = row.life
           /\ Updated(row, dto).expenseWorkflowStatus = row.expenseWorkflowStatus
           /\ ~TouchesLockedField(row, dto) => SameReservation(row, Updated(row, dto))
  BY DEF Updated, ExpenseRows, UpdateDtos, TouchesLockedField, SameReservation

\* What is known of a row a creation fills.
LEMMA CreatedRow ==
    ASSUME IInv, NEW r, NEW e \in Expenses, NEW new, Creates(r, expenses[e], new)
    PROVE  /\ expenses[e].expenseWorkflowStatus = NullState
           /\ new.expenseWorkflowStatus = NullState
  BY DEF IInv, AbsentIsNew, State, Creates

-----------------------------------------------------------------------------
(***************************************************************************)
(* The table of transitions.  complete and cancel write without a guard:   *)
(* what they find approved can only have become completed or cancelled.    *)
(***************************************************************************)
LEMMA TransitionsAction ==
    ASSUME CallsInv, NEW r \in Requests, Shape(r), NEW e \in Expenses,
           State(e)' # State(e)
    PROVE  \/ CanTransition(State(e), State(e)')
           \/ /\ State(e) \in {"COMPLETED", "CANCELLED"}
              /\ Ends(r, {"complete", "cancel"}, e)
              /\ local[r].from = "APPROVED"
<1>0. IInv /\ expenses[e] \in ExpenseRows /\ expenses'[e] # expenses[e]
  BY ShapeTypes DEF CallsInv, State
<1>1. ~Creates(r, expenses[e], expenses'[e])
  BY <1>0, CreatedRow DEF State
<1>2. ~Updates(r, expenses[e], expenses'[e]) /\ ~Deletes(r, expenses[e], expenses'[e])
  <2>1. local[r].dto \in UpdateDtos
    BY <1>0, ShapeTypes DEF Locals
  <2>2. QED  BY <1>0, <2>1, UpdatedFields DEF Updates, Deletes, State
<1>3. Moves(r, expenses[e], expenses'[e]) /\ e = local[r].target /\ pc'[r] = "done"
  BY <1>0, <1>1, <1>2, WrittenRow
<1>4. PICK from, to : from = State(e) /\ to = State(e)' /\ from # to
  OBVIOUS
<1>5. ASSUME \/ from = "PENDING_APPROVAL" /\ to \in {"APPROVED", "REJECTED"}
             \/ from \in {NullState, "REJECTED"} /\ to = "PENDING_APPROVAL"
             \/ from = "APPROVED" /\ to \in {"COMPLETED", "CANCELLED"}
      PROVE  CanTransition(State(e), State(e)')
  <2>1. CanTransition(from, to)
    BY <1>5 DEF CanTransition, AllowedTransitions, NullState
  <2>2. QED  BY <1>4, <2>1
<1>6. CASE pc[r] = "close" \/ pc[r] = "submit"
  <2>1. \/ from = "PENDING_APPROVAL" /\ to \in {"APPROVED", "REJECTED"}
        \/ from \in {NullState, "REJECTED"} /\ to = "PENDING_APPROVAL"
    BY <1>3, <1>4, <1>6 DEF Moves, Decision, State
  <2>2. QED  BY <1>5, <2>1
<1>7. CASE pc[r] = "apply" /\ local[r].call \in {"complete", "cancel"}
  <2>1. from \in Decided /\ local[r].from = "APPROVED"
    BY <1>0, <1>3, <1>4, <1>7, HandlerFacts DEF CallsInv, CallFits
  <2>2. to \in {"COMPLETED", "CANCELLED"}
    BY <1>3, <1>4, <1>7 DEF Moves, Target, State
  <2>3. CASE from = "APPROVED"
    BY <1>5, <2>2, <2>3
  <2>4. CASE from # "APPROVED"
    <3>1. State(e) \in {"COMPLETED", "CANCELLED"}
      BY <1>4, <2>1, <2>4 DEF Decided
    <3>2. Ends(r, {"complete", "cancel"}, e)
      BY <1>3, <1>7 DEF Ends, Applying
    <3>3. QED  BY <2>1, <3>1, <3>2
  <2>5. QED  BY <2>3, <2>4
<1>8. QED  BY <1>3, <1>6, <1>7 DEF Moves

-----------------------------------------------------------------------------
(***************************************************************************)
(* What is reserved.  An update checks the status of its expense when it   *)
(* reads it: an update that read it decided repeats what it reserves, and  *)
(* moves it only where another update has moved it since.                  *)
(***************************************************************************)
KeepsFigures(r) ==
    /\ pc[r] = "apply" /\ local[r].call = "update"
    /\ local[r].from \in Decided /\ local[r].target \notin moved
    => /\ State(local[r].target) \in Decided
       /\ ~TouchesLockedField(expenses[local[r].target], local[r].dto)

FrozenInv == CallsInv /\ \A r \in Requests : KeepsFigures(r)

LEMMA FrozenInit == Init => FrozenInv
  BY CallsInit DEF Init, FrozenInv, KeepsFigures

\* The figures of a row, as this module says it.
LEMMA Figures ==
    ASSUME NEW e PROVE SameFigures(e) <=> SameReservation(expenses[e], expenses'[e])
  BY DEF SameFigures, SameReservation

\* A decided expense keeps its status among the decided ones.
LEMMA DecidedKept ==
    ASSUME IInv, NEW r \in Requests, Shape(r), NEW e \in Expenses, State(e) \in Decided
    PROVE  expenses'[e].expenseWorkflowStatus \in Decided
<1>1. CASE expenses'[e] = expenses[e]
  BY <1>1 DEF State
<1>2. CASE expenses'[e] # expenses[e]
  <2>1. ~Creates(r, expenses[e], expenses'[e])
    BY CreatedRow DEF State, Decided, NullState
  <2>2. CASE Moves(r, expenses[e], expenses'[e])
    BY <2>2 DEF Moves, State, Decided, NullState, Target
  <2>3. CASE Updates(r, expenses[e], expenses'[e]) \/ Deletes(r, expenses[e], expenses'[e])
    <3>1. local[r].dto \in UpdateDtos /\ expenses[e] \in ExpenseRows
      BY ShapeTypes DEF Locals
    <3>2. expenses'[e].expenseWorkflowStatus = expenses[e].expenseWorkflowStatus
      BY <2>3, <3>1, UpdatedFields DEF Updates, Deletes
    <3>3. QED  BY <3>2 DEF State
  <2>4. QED  BY <1>2, <2>1, <2>2, <2>3, WrittenRow
<1>3. QED  BY <1>1, <1>2

LEMMA FrozenStep ==
    ASSUME FrozenInv, IInv', NEW r \in Requests, Shape(r)
    PROVE  FrozenInv'
<1>0. CallsInv /\ IInv /\ CallsInv'
  BY CallsStep DEF FrozenInv, CallsInv
<1>1. /\ \A s \in Requests : s # r => pc'[s] = pc[s] /\ local'[s] = local[s]
      /\ pc'[r] \in Steps => Began(r) \/ Went(r)
      /\ Recorded(r)
  BY DEF Shape, Alone
<1>2. ASSUME NEW s \in Requests PROVE KeepsFigures(s)'
  <2>0. SUFFICES ASSUME pc'[s] = "apply", local'[s].call = "update",
                        local'[s].from \in Decided, local'[s].target \notin moved'
                 PROVE  /\ expenses'[local'[s].target].expenseWorkflowStatus \in Decided
                        /\ ~TouchesLockedField(expenses'[local'[s].target], local'[s].dto)
    BY DEF KeepsFigures, State, TouchesLockedField
  <2>1. CASE s = r
    <3>1. Began(r)
      BY <1>1, <2>0, <2>1 DEF Went, Steps
    <3>2. QED  BY <2>0, <2>1, <3>1 DEF Began
  <2>2. CASE s # r
    <3>1. pc[s] = "apply" /\ local'[s] = local[s]
      BY <1>1, <2>0, <2>2
    <3>2. PICK e \in Expenses : e = local[s].target
      BY <1>0, <3>1, HandlerFacts DEF Steps
    <3>3. e \notin moved /\ (expenses' # expenses => Remember(r))
      BY <1>1, <2>0, <3>1, <3>2 DEF Recorded, Remember
    <3>4. State(e) \in Decided /\ ~TouchesLockedField(expenses[e], local[s].dto)
      BY <2>0, <3>1, <3>2, <3>3 DEF FrozenInv, KeepsFigures
    <3>5. expenses'[e].expenseWorkflowStatus \in Decided
      BY <1>0, <3>4, DecidedKept
    <3>6. SameReservation(expenses[e], expenses'[e])
      <4>1. CASE expenses' = expenses
        BY <4>1 DEF SameReservation
      <4>2. CASE expenses' # expenses
        <5>1. SameFigures(e)
          BY <2>0, <3>1, <3>2, <3>3, <3>4, <4>2 DEF Remember
        <5>2. QED  BY <5>1, Figures
      <4>3. QED  BY <4>1, <4>2
    <3>7. QED
      BY <3>1, <3>2, <3>4, <3>5, <3>6 DEF TouchesLockedField, SameReservation
  <2>3. QED  BY <2>1, <2>2
<1>3. QED  BY <1>0, <1>2 DEF FrozenInv

\* Who moves a decided expense first read it undecided.
LEMMA FrozenAction ==
    ASSUME FrozenInv, NEW r \in Requests, Shape(r), NEW e \in Expenses,
           State(e) \in Decided, ~SameFigures(e), e \notin moved
    PROVE  Ends(r, {"update"}, e) /\ local[r].from \notin Decided
<1>0. IInv /\ expenses[e] \in ExpenseRows /\ ~SameReservation(expenses[e], expenses'[e])
  BY Figures, ShapeTypes DEF FrozenInv, CallsInv
<1>1. expenses'[e] # expenses[e]
  BY <1>0 DEF SameReservation
<1>2. ~Creates(r, expenses[e], expenses'[e])
  BY <1>0, CreatedRow DEF State, Decided, NullState
<1>3. Updates(r, expenses[e], expenses'[e]) /\ e = local[r].target /\ pc'[r] = "done"
  BY <1>0, <1>1, <1>2, WrittenRow DEF Moves, Deletes
<1>4. Ends(r, {"update"}, e)
  BY <1>3 DEF Updates, Ends, Applying
<1>5. ASSUME local[r].from \in Decided PROVE FALSE
  <2>1. local[r].dto \in UpdateDtos
    BY <1>0, ShapeTypes DEF Locals
  <2>2. ~TouchesLockedField(expenses[e], local[r].dto)
    BY <1>3, <1>5 DEF FrozenInv, KeepsFigures, Updates
  <2>3. QED  BY <1>0, <1>3, <2>1, <2>2, UpdatedFields DEF Updates
<1>6. QED  BY <1>4, <1>5

-----------------------------------------------------------------------------
(***************************************************************************)
(* The budget of a line.  From its lock to its end an approval knows every *)
(* expense that counts against its line, unless it is overtaken: the       *)
(* others can leave the line's sums, or pass from one to the next, but     *)
(* none comes in.                                                          *)
(***************************************************************************)

\* Bucket and LegacyRealized, of given rows.
BucketOf(rows, l, state) ==
    {<<e, rows[e].amountXof>> : e \in
        {d \in Expenses : /\ rows[d].life = "stored"
                          /\ rows[d].type = "DEPENSE"
                          /\ rows[d].line = l
                          /\ rows[d].expenseWorkflowStatus = state}}

LegacyOf(rows, l) ==
    {pair \in BucketOf(rows, l, NullState) : rows[pair[1]].status = "VALIDE"}

LEMMA Buckets ==
    ASSUME NEW l, NEW state
    PROVE  /\ Bucket(l, state) = BucketOf(expenses, l, state)
           /\ LegacyRealized(l) = LegacyOf(expenses, l)
  BY DEF Bucket, BucketOf, LegacyRealized, LegacyOf, Stored, State

LEMMA BucketsNext ==
    ASSUME NEW l, NEW state
    PROVE  /\ Bucket(l, state)' = BucketOf(expenses', l, state)
           /\ LegacyRealized(l)' = LegacyOf(expenses', l)
  BY DEF Bucket, BucketOf, LegacyRealized, LegacyOf, Stored, State

\* A row, new over old, brings nothing new to what is counted against line l.
BringsNothing(old, new, l) ==
    new.life = "stored" /\ new.type = "DEPENSE" /\ new.line = l =>
        /\ new.expenseWorkflowStatus = "APPROVED" =>
              /\ old.life = "stored" /\ SameReservation(old, new)
              /\ old.expenseWorkflowStatus = "APPROVED"
        /\ new.expenseWorkflowStatus = "COMPLETED" =>
              /\ old.life = "stored" /\ SameReservation(old, new)
              /\ old.expenseWorkflowStatus \in {"APPROVED", "COMPLETED"}
        /\ new.expenseWorkflowStatus = NullState /\ new.status = "VALIDE" =>
              /\ old.life = "stored" /\ SameReservation(old, new)
              /\ old.expenseWorkflowStatus = NullState
              /\ old.status = "VALIDE"

LEMMA NothingComesIn ==
    ASSUME NEW old, NEW new, NEW l,
           \A e \in Expenses : BringsNothing(old[e], new[e], l)
    PROVE  /\ BucketOf(new, l, "APPROVED") \subseteq BucketOf(old, l, "APPROVED")
           /\ BucketOf(new, l, "COMPLETED")
                \subseteq BucketOf(old, l, "APPROVED") \cup BucketOf(old, l, "COMPLETED")
           /\ LegacyOf(new, l) \subseteq LegacyOf(old, l)
<1>1. BucketOf(new, l, "APPROVED") \subseteq BucketOf(old, l, "APPROVED")
  BY DEF BringsNothing, BucketOf, SameReservation
<1>2. BucketOf(new, l, "COMPLETED")
         \subseteq BucketOf(old, l, "APPROVED") \cup BucketOf(old, l, "COMPLETED")
  BY DEF BringsNothing, BucketOf, SameReservation
<1>3. LegacyOf(new, l) \subseteq LegacyOf(old, l)
  <2> SUFFICES ASSUME NEW pair \in LegacyOf(new, l) PROVE pair \in LegacyOf(old, l)
    OBVIOUS
  <2>1. PICK e \in Expenses :
          /\ new[e].life = "stored" /\ new[e].type = "DEPENSE" /\ new[e].line = l
          /\ new[e].expenseWorkflowStatus = NullState
          /\ pair = <<e, new[e].amountXof>>
    BY DEF LegacyOf, BucketOf
  <2>2. new[e].status = "VALIDE"
    BY <2>1 DEF LegacyOf
  <2>3. /\ old[e].life = "stored" /\ SameReservation(old[e], new[e])
        /\ old[e].expenseWorkflowStatus = NullState /\ old[e].status = "VALIDE"
    BY <2>1, <2>2 DEF BringsNothing
  <2>4. pair = <<e, old[e].amountXof>> /\ pair[1] = e
    BY <2>1, <2>3 DEF SameReservation
  <2>5. pair \in BucketOf(old, l, NullState)
    BY <2>1, <2>3, <2>4 DEF BucketOf, SameReservation
  <2>6. QED  BY <2>3, <2>4, <2>5 DEF LegacyOf
<1>4. QED  BY <1>1, <1>2, <1>3

\* The statements of approval r.
ApprovalAt(r, steps) == pc[r] \in steps /\ local[r].call = "approve"

\* Those of an approval that nobody has overtaken.
InTime(r, steps) == ApprovalAt(r, steps) /\ r \notin overtaken

\* Such an approval works on the line and amount of its expense, which stay.
KnowsItsExpense(r) ==
    InTime(r, {"lock", "sum1", "sum2", "sum3", "close"}) =>
        /\ expenses[local[r].target].life # "absent"
        /\ expenses[local[r].target].line = local[r].line
        /\ expenses[local[r].target].amountXof = local[r].amount

\* Every approval holds its line, whose budget stays.
HoldsItsLine(r) ==
    ApprovalAt(r, {"sum1", "sum2", "sum3", "close"}) =>
        /\ local[r].line \in Lines
        /\ holder[local[r].line] = r
        /\ local[r].budget = budgets[local[r].line]
        /\ local[r].budget \in Nat

\* What is reserved on its line is in the first sum.
HasReserved(r) ==
    InTime(r, {"sum2", "sum3", "close"}) =>
        /\ Weighed(local[r].sum1)
        /\ BucketOf(expenses, local[r].line, "APPROVED") \subseteq local[r].sum1

\* What is consumed is in the second, or in the first when it was reserved then.
HasConsumed(r) ==
    InTime(r, {"sum3", "close"}) =>
        /\ Weighed(local[r].sum2)
        /\ BucketOf(expenses, local[r].line, "COMPLETED")
              \subseteq local[r].sum1 \cup local[r].sum2

\* And with what is realized the amount fits the budget.
HasCompared(r) ==
    InTime(r, {"close"}) =>
        \E legacy \in Summed :
            /\ Weighed(legacy)
            /\ LegacyOf(expenses, local[r].line) \subseteq legacy
            /\ Fits(local[r], legacy)

Reserving(r) ==
    /\ KnowsItsExpense(r) /\ HoldsItsLine(r)
    /\ HasReserved(r) /\ HasConsumed(r) /\ HasCompared(r)

BudgetInv == CallsInv /\ \A r \in Requests : Reserving(r)

\* The sums of a line are finite sets of weighed pairs.
LEMMA BucketWeighed ==
    ASSUME IInv, NEW l, NEW state
    PROVE  /\ BucketOf(expenses, l, state) \in Summed
           /\ Weighed(BucketOf(expenses, l, state))
<1> DEFINE D == {d \in Expenses : /\ expenses[d].life = "stored"
                                  /\ expenses[d].type = "DEPENSE"
                                  /\ expenses[d].line = l
                                  /\ expenses[d].expenseWorkflowStatus = state}
           B == BucketOf(expenses, l, state)
           f == [d \in D |-> <<d, expenses[d].amountXof>>]
<1>1. B = {<<e, expenses[e].amountXof>> : e \in D}
  BY DEF BucketOf
<1>2. \A e \in Expenses : expenses[e].amountXof \in Amounts
  BY ShapeTypes DEF ExpenseRows
<1>3. B \in Summed
  BY <1>1, <1>2 DEF Summed
<1>4. IsFiniteSet(D)
  BY FS_Subset
<1>5. f \in Surjection(D, B)
  BY <1>1 DEF Surjection
<1>6. IsFiniteSet(B)
  <2> HIDE DEF f, D, B
  <2>1. QED  BY <1>4, <1>5, FS_Surjection
<1>7. \A pair \in B : pair[2] \in Nat
  <2> SUFFICES ASSUME NEW pair \in B PROVE pair[2] \in Nat
    OBVIOUS
  <2>1. PICK e \in D : pair = <<e, expenses[e].amountXof>>
    BY <1>1
  <2>2. QED  BY <1>2, <2>1
<1>8. QED  BY <1>3, <1>6, <1>7 DEF Weighed

\* What counts, of given rows.
CountedOf(rows, l) ==
    BucketOf(rows, l, "APPROVED") \cup BucketOf(rows, l, "COMPLETED") \cup LegacyOf(rows, l)

LEMMA RowCounted ==
    ASSUME NEW rows, NEW l, NEW e \in Expenses,
           rows[e].life = "stored", rows[e].type = "DEPENSE", rows[e].line = l,
           \/ rows[e].expenseWorkflowStatus \in {"APPROVED", "COMPLETED"}
           \/ rows[e].expenseWorkflowStatus = NullState /\ rows[e].status = "VALIDE"
    PROVE  <<e, rows[e].amountXof>> \in CountedOf(rows, l)
<1>1. CASE rows[e].expenseWorkflowStatus \in {"APPROVED", "COMPLETED"}
  BY <1>1 DEF CountedOf, BucketOf
<1>2. CASE rows[e].expenseWorkflowStatus = NullState /\ rows[e].status = "VALIDE"
  <2>1. <<e, rows[e].amountXof>> \in BucketOf(rows, l, NullState)
    BY <1>2 DEF BucketOf
  <2>2. <<e, rows[e].amountXof>>[1] = e
    OBVIOUS
  <2>3. QED  BY <1>2, <2>1, <2>2 DEF CountedOf, LegacyOf
<1>3. QED  BY <1>1, <1>2

\* What a step of another leaves of an approval that is not overtaken by it.
LEMMA NotOvertaken ==
    ASSUME NEW q \in Requests, NEW r \in Requests, q # r, Shape(q), r \notin overtaken',
           pc[r] \in Steps, local[r].call = "approve"
    PROVE  /\ r \notin overtaken
           /\ SameReservation(expenses[local[r].target], expenses'[local[r].target])
           /\ pc[r] \in {"sum2", "sum3", "close"} =>
                 \/ expenses' = expenses
                 \/ local[q].call = "approve" /\ q \notin overtaken
                 \/ CountedOf(expenses', local[r].line)
                        \subseteq CountedOf(expenses, local[r].line)
<1>1. Recorded(q) /\ local'[r] = local[r]
  BY DEF Shape, Alone
<1>2. CASE UNCHANGED <<expenses, overtaken, moved>>
  BY <1>2 DEF SameReservation
<1>3. CASE Remember(q)
  <2>1. r \notin overtaken /\ ~Overtakes(q, r)
    BY <1>3 DEF Remember
  <2>2. SameFigures(local[r].target)
    BY <2>1 DEF Overtakes
  <2>3. \/ ~(pc[r] \in {"sum2", "sum3", "close"})
        \/ local[q].call = "approve" /\ q \notin overtaken
        \/ CountedOf(expenses', local'[r].line) \subseteq CountedOf(expenses, local[r].line)
    BY <2>1 DEF Overtakes, Counted, CountedOf, Bucket, BucketOf, LegacyRealized, LegacyOf,
                Stored, State
  <2>4. QED  BY <1>1, <2>1, <2>2, <2>3, Figures
<1>4. QED  BY <1>1, <1>2, <1>3 DEF Recorded

\* A row that counts after a step, and counted the same before it.
LEMMA CountedBringsNothing ==
    ASSUME IInv, NEW q \in Requests, Shape(q), NEW l, NEW e \in Expenses,
           CountedOf(expenses', l) \subseteq CountedOf(expenses, l)
    PROVE  BringsNothing(expenses[e], expenses'[e], l)
<1> DEFINE old == expenses[e]
           new == expenses'[e]
<1>1. SUFFICES ASSUME new.life = "stored", new.type = "DEPENSE", new.line = l,
                      \/ new.expenseWorkflowStatus \in {"APPROVED", "COMPLETED"}
                      \/ new.expenseWorkflowStatus = NullState /\ new.status = "VALIDE",
                      new # old
               PROVE  BringsNothing(old, new, l)
  BY DEF BringsNothing, SameReservation
<1>2. /\ old.life = "stored" /\ old.type = "DEPENSE" /\ old.line = l
      /\ old.amountXof = new.amountXof
      /\ \/ old.expenseWorkflowStatus \in {"APPROVED", "COMPLETED"}
         \/ old.expenseWorkflowStatus = NullState /\ old.status = "VALIDE"
  <2>1. <<e, new.amountXof>> \in CountedOf(expenses', l)
    BY <1>1, RowCounted
  <2>2. <<e, new.amountXof>> \in CountedOf(expenses, l)
    BY <2>1
  <2>3. PICK amount : amount = new.amountXof
    OBVIOUS
  <2>4. /\ expenses[e].life = "stored" /\ expenses[e].type = "DEPENSE"
        /\ expenses[e].line = l /\ expenses[e].amountXof = amount
        /\ \/ expenses[e].expenseWorkflowStatus \in {"APPROVED", "COMPLETED"}
           \/ /\ expenses[e].expenseWorkflowStatus = NullState
              /\ expenses[e].status = "VALIDE"
    <3>1. <<e, amount>> \in CountedOf(expenses, l)
      BY <2>2, <2>3
    <3> HIDE DEF old, new
    <3>2. QED  BY ONLY <3>1 DEF CountedOf, BucketOf, LegacyOf
  <2>5. QED  BY <2>3, <2>4
<1>3. SameReservation(old, new)
  BY <1>1, <1>2 DEF SameReservation
<1>4. \/ new.expenseWorkflowStatus = old.expenseWorkflowStatus
      \/ /\ new.expenseWorkflowStatus = "COMPLETED"
         /\ old.expenseWorkflowStatus \in {"APPROVED", "COMPLETED"}
  <2>1. ~Creates(q, old, new) /\ ~Deletes(q, old, new)
    BY <1>1, <1>2 DEF Creates, Deletes
  <2>2. CASE Updates(q, old, new)
    <3>1. local[q].dto \in UpdateDtos /\ old \in ExpenseRows
      BY ShapeTypes DEF Locals
    <3>2. QED  BY <2>2, <3>1, UpdatedFields DEF Updates
  <2>3. CASE Moves(q, old, new) /\ e = local[q].target
    <3>1. pc[q] = "apply" /\ local[q].call \in {"complete", "cancel"}
          /\ new.expenseWorkflowStatus = Target(local[q].call)
      BY <1>1, <1>2, <2>3 DEF Moves, NullState, Decision
    <3>2. old.expenseWorkflowStatus \in Decided
      BY <2>3, <3>1, HandlerFacts DEF State
    <3>3. new.expenseWorkflowStatus = "COMPLETED"
      BY <1>1, <3>1 DEF Target, NullState
    <3>4. QED  BY <1>2, <3>2, <3>3 DEF Decided, NullState
  <2>4. QED  BY <1>1, <2>1, <2>2, <2>3, WrittenRow
<1>5. QED  BY <1>1, <1>2, <1>3, <1>4 DEF BringsNothing, NullState

\* While an approval that is not overtaken holds its line, nothing that others write
\* comes in.
LEMMA WriterBringsNothing ==
    ASSUME BudgetInv, NEW q \in Requests, NEW r \in Requests, q # r, Shape(q),
           ApprovalAt(r, {"sum2", "sum3", "close"}), r \notin overtaken',
           NEW l, l = local[r].line, NEW e \in Expenses
    PROVE  BringsNothing(expenses[e], expenses'[e], l)
<1>0. /\ IInv /\ CallsInv
      /\ pc[r] \in Steps /\ local[r].call = "approve"
      /\ pc[r] \in {"sum2", "sum3", "close"}
      /\ holder[l] = r
  BY DEF BudgetInv, CallsInv, ApprovalAt, Steps, Reserving, HoldsItsLine
<1>1. CASE expenses'[e] = expenses[e]
  BY <1>1 DEF BringsNothing, SameReservation
<1>2. CASE expenses'[e] # expenses[e]
  <2>1. CASE CountedOf(expenses', l) \subseteq CountedOf(expenses, l)
    BY <1>0, <2>1, CountedBringsNothing
  <2>2. CASE local[q].call = "approve" /\ q \notin overtaken
    <3>1. ~Creates(q, expenses[e], expenses'[e])
      BY <1>0, <2>2 DEF CallsInv, CallFits, Creates
    <3>2. ~Updates(q, expenses[e], expenses'[e])
      BY <2>2 DEF Updates
    <3>3. CASE Deletes(q, expenses[e], expenses'[e])
      BY <3>3 DEF Deletes, BringsNothing
    <3>4. CASE Moves(q, expenses[e], expenses'[e]) /\ e = local[q].target
      <4>1. CASE pc[q] = "close"
        <5>1. InTime(q, {"lock", "sum1", "sum2", "sum3", "close"})
              /\ ApprovalAt(q, {"sum1", "sum2", "sum3", "close"})
          BY <2>2, <4>1 DEF InTime, ApprovalAt
        <5>2. expenses[e].line = local[q].line /\ holder[local[q].line] = q
          BY <3>4, <5>1 DEF BudgetInv, Reserving, KnowsItsExpense, HoldsItsLine
        <5>3. expenses'[e].line # l
          BY <1>0, <3>4, <5>2 DEF Moves, SameReservation
        <5>4. QED  BY <5>3 DEF BringsNothing
      <4>2. CASE pc[q] = "submit"
        <5>1. expenses'[e].expenseWorkflowStatus = "PENDING_APPROVAL"
          BY <3>4, <4>2 DEF Moves
        <5>2. QED  BY <5>1 DEF BringsNothing, NullState
      <4>3. QED  BY <2>2, <3>4, <4>1, <4>2 DEF Moves
    <3>5. QED  BY <1>0, <1>2, <3>1, <3>2, <3>3, <3>4, WrittenRow
  <2>3. QED  BY <1>0, <1>2, <2>1, <2>2, NotOvertaken
<1>3. QED  BY <1>1, <1>2

\* What the others do leaves an approval what it knows.
LEMMA OthersKeepReserving ==
    ASSUME BudgetInv, NEW q \in Requests, NEW r \in Requests, q # r, Shape(q)
    PROVE  Reserving(r)'
<1>0. IInv /\ Reserving(r)
  BY DEF BudgetInv, CallsInv
<1>1. /\ pc'[r] = pc[r] /\ local'[r] = local[r]
      /\ \A l \in Lines : holder[l] \notin {NoRequest, q} =>
            /\ holder'[l] = holder[l]
            /\ budgets[l] # NoBudget => budgets'[l] = budgets[l]
  BY DEF Shape, Alone
<1>2. PICK h \in Locals : h = local[r] /\ h = local'[r]
  BY <1>0, <1>1, ShapeTypes
<1>3. PICK e : e = h.target
  OBVIOUS
<1>4. PICK l : l = h.line
  OBVIOUS
<1>5. HoldsItsLine(r)'
  <2>1. SUFFICES ASSUME pc[r] \in {"sum1", "sum2", "sum3", "close"}, h.call = "approve"
                 PROVE  /\ l \in Lines
                        /\ holder'[l] = r /\ h.budget = budgets'[l] /\ h.budget \in Nat
    BY <1>1, <1>2, <1>4 DEF HoldsItsLine, ApprovalAt
  <2>2. l \in Lines /\ holder[l] = r /\ h.budget = budgets[l] /\ h.budget \in Nat
    BY <1>0, <1>2, <1>4, <2>1 DEF Reserving, HoldsItsLine, ApprovalAt
  <2>3. budgets[l] # NoBudget /\ holder[l] \notin {NoRequest, q}
    BY <2>2 DEF NoBudget
  <2>4. QED  BY <1>1, <2>2, <2>3
<1>6. SUFFICES ASSUME h.call = "approve", r \notin overtaken'
               PROVE  /\ KnowsItsExpense(r)' /\ HasReserved(r)'
                      /\ HasConsumed(r)' /\ HasCompared(r)'
  BY <1>2, <1>5 DEF Reserving, KnowsItsExpense, HasReserved, HasConsumed, HasCompared,
                    InTime, ApprovalAt
<1>7. pc[r] \in Steps => r \notin overtaken
  BY <1>2, <1>6, NotOvertaken
<1>8. KnowsItsExpense(r)'
  <2>1. SUFFICES ASSUME pc[r] \in {"lock", "sum1", "sum2", "sum3", "close"}
                 PROVE  /\ expenses'[e].life # "absent"
                        /\ expenses'[e].line = l
                        /\ expenses'[e].amountXof = h.amount
    BY <1>1, <1>2, <1>3, <1>4 DEF KnowsItsExpense, InTime, ApprovalAt
  <2>2. pc[r] \in Steps
    BY <2>1 DEF Steps
  <2>3. /\ expenses[e].life # "absent"
        /\ expenses[e].line = l
        /\ expenses[e].amountXof = h.amount
    BY <1>0, <1>2, <1>3, <1>4, <1>6, <1>7, <2>1, <2>2
       DEF Reserving, KnowsItsExpense, InTime, ApprovalAt
  <2>4. e \in Expenses
    BY <1>0, <1>2, <1>3, <2>2, HandlerFacts
  <2>5. SameReservation(expenses[e], expenses'[e])
    BY <1>2, <1>3, <1>6, <2>2, NotOvertaken
  <2>6. expenses'[e].life # "absent"
    <3>1. CASE expenses'[e] # expenses[e]
      <4>1. ~Creates(q, expenses[e], expenses'[e])
        BY <2>3 DEF Creates
      <4>2. expenses[e] \in ExpenseRows /\ local[q].dto \in UpdateDtos
        BY <1>0, <2>4, ShapeTypes DEF Locals
      <4>3. QED
        BY <1>0, <2>3, <2>4, <3>1, <4>1, <4>2, WrittenRow, UpdatedFields
           DEF Moves, Updates, Deletes
    <3>2. QED  BY <2>3, <3>1
  <2>7. QED  BY <2>3, <2>5, <2>6 DEF SameReservation
<1>9. ASSUME pc[r] \in {"sum2", "sum3", "close"}
      PROVE  /\ BucketOf(expenses', l, "APPROVED") \subseteq BucketOf(expenses, l, "APPROVED")
             /\ BucketOf(expenses', l, "COMPLETED")
                  \subseteq BucketOf(expenses, l, "APPROVED")
                            \cup BucketOf(expenses, l, "COMPLETED")
             /\ LegacyOf(expenses', l) \subseteq LegacyOf(expenses, l)
             /\ r \notin overtaken
  <2>1. ApprovalAt(r, {"sum2", "sum3", "close"}) /\ l = local[r].line
    BY <1>2, <1>4, <1>6, <1>9 DEF ApprovalAt
  <2>2. \A d \in Expenses : BringsNothing(expenses[d], expenses'[d], l)
    BY <1>6, <2>1, WriterBringsNothing
  <2>3. r \notin overtaken
    BY <1>7, <1>9 DEF Steps
  <2>4. QED  BY <2>2, <2>3, NothingComesIn
<1>10. HasReserved(r)'
  <2>1. SUFFICES ASSUME pc[r] \in {"sum2", "sum3", "close"}
                 PROVE  Weighed(h.sum1) /\ BucketOf(expenses', l, "APPROVED") \subseteq h.sum1
    BY <1>1, <1>2, <1>4 DEF HasReserved, InTime, ApprovalAt
  <2>2. Weighed(h.sum1) /\ BucketOf(expenses, l, "APPROVED") \subseteq h.sum1
    BY <1>0, <1>2, <1>4, <1>6, <1>9, <2>1 DEF Reserving, HasReserved, InTime, ApprovalAt
  <2>3. QED  BY <1>9, <2>1, <2>2
<1>11. HasConsumed(r)'
  <2>1. SUFFICES ASSUME pc[r] \in {"sum3", "close"}
                 PROVE  /\ Weighed(h.sum2)
                        /\ BucketOf(expenses', l, "COMPLETED") \subseteq h.sum1 \cup h.sum2
    BY <1>1, <1>2, <1>4 DEF HasConsumed, InTime, ApprovalAt
  <2>2. /\ Weighed(h.sum2)
        /\ BucketOf(expenses, l, "COMPLETED") \subseteq h.sum1 \cup h.sum2
        /\ BucketOf(expenses, l, "APPROVED") \subseteq h.sum1
    BY <1>0, <1>2, <1>4, <1>6, <1>9, <2>1
       DEF Reserving, HasReserved, HasConsumed, InTime, ApprovalAt
  <2>3. QED  BY <1>9, <2>1, <2>2
<1>12. HasCompared(r)'
  <2>1. SUFFICES ASSUME pc[r] = "close"
                 PROVE  \E legacy \in Summed :
                            /\ Weighed(legacy)
                            /\ LegacyOf(expenses', l) \subseteq legacy
                            /\ Fits(h, legacy)
    BY <1>1, <1>2, <1>4 DEF HasCompared, InTime, ApprovalAt, Summed
  <2>2. PICK legacy \in Summed :
            /\ Weighed(legacy)
            /\ LegacyOf(expenses, l) \subseteq legacy
            /\ Fits(h, legacy)
    BY <1>0, <1>2, <1>4, <1>6, <1>9, <2>1 DEF Reserving, HasCompared, InTime, ApprovalAt
  <2>3. QED  BY <1>9, <2>1, <2>2
<1>13. QED  BY <1>8, <1>10, <1>11, <1>12

\* Each statement of an approval learns what the next ones rely on.
LEMMA OwnReserving ==
    ASSUME BudgetInv, IInv', NEW r \in Requests, Shape(r)
    PROVE  Reserving(r)'
<1>0. IInv /\ Reserving(r) /\ CallFits(r)
  BY DEF BudgetInv, CallsInv
<1>1. PICK h \in Locals, g \in Locals, step \in Steps \cup {"idle", "done"} :
        h = local[r] /\ g = local'[r] /\ step = pc'[r]
  <2>1. /\ local[r] \in Locals /\ local'[r] \in Locals
        /\ pc'[r] \in Steps \cup {"idle", "done"}
    BY <1>0, ShapeTypes DEF IInv, TypeOK
  <2>2. QED  BY <2>1
<1>2. SUFFICES ASSUME step \in Steps, g.call = "approve" PROVE Reserving(r)'
  <2>1. step \notin Steps \/ g.call # "approve" => Reserving(r)'
    BY <1>1 DEF Reserving, KnowsItsExpense, HoldsItsLine, HasReserved, HasConsumed,
                HasCompared, InTime, ApprovalAt, Steps
  <2>2. QED  BY <2>1
<1>3. CASE Began(r)
  <2>1. step \notin {"sum1", "sum2", "sum3", "close"}
    BY <1>1, <1>2, <1>3 DEF Began
  <2>2. step = "lock" => /\ expenses'[g.target].life # "absent"
                         /\ expenses'[g.target].line = g.line
                         /\ expenses'[g.target].amountXof = g.amount
    <3>1. SUFFICES ASSUME step = "lock"
                   PROVE  /\ expenses'[g.target].life # "absent"
                          /\ expenses'[g.target].line = g.line
                          /\ expenses'[g.target].amountXof = g.amount
      OBVIOUS
    <3>2. /\ expenses' = expenses /\ g.target \in Expenses
          /\ expenses[g.target].life = "stored"
          /\ g.line = expenses[g.target].line /\ g.amount = expenses[g.target].amountXof
      BY <1>1, <1>3, <3>1 DEF Began
    <3>3. QED  BY <3>2
  <2>3. KnowsItsExpense(r)'
    BY <1>1, <2>1, <2>2 DEF KnowsItsExpense, InTime, ApprovalAt
  <2>4. HoldsItsLine(r)' /\ HasReserved(r)' /\ HasConsumed(r)' /\ HasCompared(r)'
    BY <1>1, <2>1 DEF HoldsItsLine, HasReserved, HasConsumed, HasCompared,
                      InTime, ApprovalAt
  <2>5. QED  BY <2>3, <2>4 DEF Reserving
<1>4. CASE Went(r)
  <2>1. /\ expenses' = expenses /\ budgets' = budgets
        /\ h.call = "approve" /\ g.target = h.target /\ g.line = h.line
        /\ g.amount = h.amount /\ pc[r] \in {"lock", "sum1", "sum2", "sum3"}
        /\ overtaken' = overtaken
    BY <1>1, <1>2, <1>4 DEF Went
  <2>2. PICK l : l = h.line
    OBVIOUS
  <2>3. l \in Lines
    BY <1>0, <1>1, <2>1, <2>2, HandlerFacts
  <2>4. KnowsItsExpense(r)'
    <3>1. r \notin overtaken =>
            /\ expenses[h.target].life # "absent"
            /\ expenses[h.target].line = l
            /\ expenses[h.target].amountXof = h.amount
      BY <1>0, <1>1, <2>1, <2>2 DEF Reserving, KnowsItsExpense, InTime, ApprovalAt
    <3>2. QED  BY <1>1, <2>1, <2>2, <3>1 DEF KnowsItsExpense, InTime, ApprovalAt
  <2>5. step # "lock"
    BY <1>1, <1>4 DEF Went
  <2>6. HoldsItsLine(r)'
    <3>1. holder'[l] = r /\ g.budget = budgets[l] /\ g.budget \in Nat
      <4>1. CASE pc[r] = "lock"
        <5>1. holder'[l] = r /\ budgets[l] # NoBudget /\ g.budget = budgets[l]
          BY <1>1, <1>4, <2>2, <4>1 DEF Went
        <5>2. budgets[l] \in Nat \cup {NoBudget}
          BY <1>0, <2>3, ShapeTypes
        <5>3. QED  BY <5>1, <5>2
      <4>2. CASE pc[r] # "lock"
        <5>1. pc[r] \in {"sum1", "sum2", "sum3"}
          BY <2>1, <4>2
        <5>2. holder[l] = r /\ h.budget = budgets[l] /\ h.budget \in Nat
          BY <1>0, <1>1, <2>1, <2>2, <5>1 DEF Reserving, HoldsItsLine, ApprovalAt
        <5>3. holder' = holder /\ g.budget = h.budget
          BY <1>1, <1>4, <4>2 DEF Went
        <5>4. QED  BY <5>2, <5>3
      <4>3. QED  BY <4>1, <4>2
    <3>2. QED  BY <1>1, <2>1, <2>2, <2>3, <3>1 DEF HoldsItsLine
  <2>7. step \in {"sum2", "sum3", "close"} /\ r \notin overtaken =>
           Weighed(g.sum1) /\ BucketOf(expenses, l, "APPROVED") \subseteq g.sum1
    <3>0. SUFFICES ASSUME r \notin overtaken, step \in {"sum2", "sum3", "close"}
                   PROVE  Weighed(g.sum1) /\ BucketOf(expenses, l, "APPROVED") \subseteq g.sum1
      OBVIOUS
    <3>1. CASE step = "sum2"
      <4>1. g.sum1 = Bucket(l, "APPROVED")
        BY <1>1, <1>4, <2>2, <3>1 DEF Went
      <4>2. g.sum1 = BucketOf(expenses, l, "APPROVED")
        BY <4>1, Buckets
      <4>3. QED  BY <1>0, <4>2, BucketWeighed
    <3>2. CASE step \in {"sum3", "close"}
      <4>1. pc[r] \in {"sum2", "sum3"} /\ g.sum1 = h.sum1
        BY <1>1, <1>4, <3>2 DEF Went
      <4>2. Weighed(h.sum1) /\ BucketOf(expenses, l, "APPROVED") \subseteq h.sum1
        BY <1>0, <1>1, <2>1, <2>2, <3>0, <4>1 DEF Reserving, HasReserved, InTime, ApprovalAt
      <4>3. QED  BY <4>1, <4>2
    <3>3. QED  BY <3>0, <3>1, <3>2
  <2>8. HasReserved(r)'
    BY <1>1, <2>1, <2>2, <2>7 DEF HasReserved, InTime, ApprovalAt
  <2>9. step \in {"sum3", "close"} /\ r \notin overtaken =>
           /\ Weighed(g.sum2)
           /\ BucketOf(expenses, l, "COMPLETED") \subseteq g.sum1 \cup g.sum2
    <3>0. SUFFICES ASSUME r \notin overtaken, step \in {"sum3", "close"}
                   PROVE  /\ Weighed(g.sum2)
                          /\ BucketOf(expenses, l, "COMPLETED") \subseteq g.sum1 \cup g.sum2
      OBVIOUS
    <3>1. CASE step = "sum3"
      <4>1. g.sum2 = Bucket(l, "COMPLETED")
        BY <1>1, <1>4, <2>2, <3>1 DEF Went
      <4>2. g.sum2 = BucketOf(expenses, l, "COMPLETED")
        BY <4>1, Buckets
      <4>3. QED  BY <1>0, <4>2, BucketWeighed
    <3>2. CASE step = "close"
      <4>1. pc[r] = "sum3" /\ g = h
        BY <1>1, <1>4, <3>2 DEF Went
      <4>2. /\ Weighed(h.sum2)
            /\ BucketOf(expenses, l, "COMPLETED") \subseteq h.sum1 \cup h.sum2
        BY <1>0, <1>1, <2>1, <2>2, <3>0, <4>1 DEF Reserving, HasConsumed, InTime, ApprovalAt
      <4>3. QED  BY <4>1, <4>2
    <3>3. QED  BY <3>0, <3>1, <3>2
  <2>10. HasConsumed(r)'
    BY <1>1, <2>1, <2>2, <2>9 DEF HasConsumed, InTime, ApprovalAt
  <2>11. step = "close" =>
            \E legacy \in Summed :
                /\ Weighed(legacy)
                /\ LegacyOf(expenses, l) \subseteq legacy
                /\ Fits(g, legacy)
    <3>1. SUFFICES ASSUME step = "close"
                   PROVE  \E legacy \in Summed :
                              /\ Weighed(legacy)
                              /\ LegacyOf(expenses, l) \subseteq legacy
                              /\ Fits(g, legacy)
      OBVIOUS
    <3>2. g = h /\ Fits(local[r], LegacyRealized(local[r].line))
      BY <1>1, <1>4, <3>1 DEF Went
    <3>3. LegacyRealized(l) = LegacyOf(expenses, l)
      BY Buckets
    <3>4. Fits(h, LegacyOf(expenses, l))
      BY <1>1, <2>2, <3>2, <3>3
    <3>5. LegacyOf(expenses, l) \subseteq BucketOf(expenses, l, NullState)
      BY DEF LegacyOf
    <3>6. Weighed(LegacyOf(expenses, l)) /\ LegacyOf(expenses, l) \in Summed
      <4>1. /\ BucketOf(expenses, l, NullState) \in Summed
            /\ Weighed(BucketOf(expenses, l, NullState))
        BY <1>0, BucketWeighed
      <4>2. QED  BY <3>5, <4>1, WeighedSubset DEF Summed
    <3>7. QED  BY <3>2, <3>4, <3>6
  <2>12. HasCompared(r)'
    BY <1>1, <2>1, <2>2, <2>11 DEF HasCompared, InTime, ApprovalAt, Summed
  <2>13. QED  BY <2>4, <2>6, <2>8, <2>10, <2>12 DEF Reserving
<1>5. QED  BY <1>1, <1>2, <1>3, <1>4 DEF Shape

LEMMA BudgetInit == Init => BudgetInv
  BY CallsInit DEF Init, BudgetInv, Reserving, KnowsItsExpense, HoldsItsLine,
                   HasReserved, HasConsumed, HasCompared, InTime, ApprovalAt

LEMMA BudgetStep ==
    ASSUME BudgetInv, IInv', NEW q \in Requests, Shape(q)
    PROVE  BudgetInv'
<1>1. CallsInv'
  BY CallsStep DEF BudgetInv
<1>2. ASSUME NEW r \in Requests PROVE Reserving(r)'
  <2>1. CASE q = r
    BY <2>1, OwnReserving
  <2>2. CASE q # r
    BY <2>2, OthersKeepReserving
  <2>3. QED  BY <2>1, <2>2
<1>3. QED  BY <1>1, <1>2 DEF BudgetInv

\* The total of a pair.
LEMMA TotalOfOne ==
    ASSUME NEW e, NEW amount \in Nat
    PROVE  Weighed({<<e, amount>>}) /\ Total({<<e, amount>>}) = amount
<1> DEFINE p == <<e, amount>>
<1>0. p[2] = amount
  OBVIOUS
<1> HIDE DEF p
<1>1. Weighed({p})
  <2>1. IsFiniteSet({p})
    BY FS_Singleton
  <2>2. QED  BY <1>0, <2>1 DEF Weighed
<1>2. Total({p}) = p[2] + Total({p} \ {p})
  BY <1>1, TotalOut
<1>3. {p} \ {p} = {}
  OBVIOUS
<1>4. Total({}) = 0
  BY FS_EmptySet, TotalStep
<1>5. Total({p}) = amount + 0
  BY <1>0, <1>2, <1>3, <1>4
<1>6. QED  BY <1>1, <1>5 DEF p

\* The approval that ends keeps its line within its budget, or was overtaken.
LEMMA BudgetAction ==
    ASSUME BudgetInv, IInv', NEW r \in Requests, Shape(r),
           NEW e \in Expenses, State(e) = "PENDING_APPROVAL", State(e)' = "APPROVED",
           ~(r \in overtaken /\ local[r].target = e /\ pc'[r] = "done")
    PROVE  Committed(expenses[e].line)' <= budgets[expenses[e].line]'
<1>0. /\ IInv /\ expenses \in [Expenses -> ExpenseRows]
      /\ expenses' \in [Expenses -> ExpenseRows]
      /\ expenses'[e] # expenses[e]
      /\ expenses[e].expenseWorkflowStatus = "PENDING_APPROVAL"
      /\ expenses'[e].expenseWorkflowStatus = "APPROVED"
  BY ShapeTypes DEF BudgetInv, CallsInv, State, IInv, TypeOK
<1>1. ~Creates(r, expenses[e], expenses'[e])
  BY <1>0, CreatedRow DEF NullState
<1>2. ~Updates(r, expenses[e], expenses'[e]) /\ ~Deletes(r, expenses[e], expenses'[e])
  <2>1. local[r].dto \in UpdateDtos /\ expenses[e] \in ExpenseRows
    BY <1>0, ShapeTypes DEF Locals
  <2>2. QED  BY <1>0, <2>1, UpdatedFields DEF Updates, Deletes
<1>3. /\ Moves(r, expenses[e], expenses'[e]) /\ e = local[r].target /\ budgets' = budgets
      /\ r \notin overtaken
  BY <1>0, <1>1, <1>2, WrittenRow
<1>4. pc[r] = "close" /\ local[r].call = "approve"
  <2>1. pc[r] = "close"
    <3>1. pc[r] # "apply"
      BY <1>0, <1>3 DEF Moves, Target
    <3>2. QED  BY <1>0, <1>3, <3>1 DEF Moves
  <2>2. QED  BY <1>0, <1>3, <2>1 DEF Moves, Decision
<1>5. PICK h \in Locals, l \in Lines : h = local[r] /\ l = expenses[e].line
  BY <1>0, ShapeTypes DEF ExpenseRows
<1>6. /\ Reserving(r) /\ InTime(r, {"close"})
      /\ InTime(r, {"sum3", "close"}) /\ InTime(r, {"sum2", "sum3", "close"})
      /\ ApprovalAt(r, {"sum1", "sum2", "sum3", "close"})
      /\ InTime(r, {"lock", "sum1", "sum2", "sum3", "close"})
  BY <1>3, <1>4 DEF BudgetInv, InTime, ApprovalAt
<1>7. /\ h.line = l /\ h.amount = expenses[e].amountXof
      /\ h.budget = budgets[l] /\ h.budget \in Nat
      /\ Weighed(h.sum1) /\ Weighed(h.sum2)
      /\ BucketOf(expenses, l, "APPROVED") \subseteq h.sum1
      /\ BucketOf(expenses, l, "COMPLETED") \subseteq h.sum1 \cup h.sum2
  BY <1>3, <1>5, <1>6 DEF Reserving, KnowsItsExpense, HoldsItsLine, HasReserved, HasConsumed
<1>8. PICK legacy \in Summed : /\ Weighed(legacy)
                               /\ LegacyOf(expenses, l) \subseteq legacy
                               /\ Fits(h, legacy)
  BY <1>5, <1>6, <1>7 DEF Reserving, HasCompared
<1>9. \A d \in Expenses : d # e => expenses'[d] = expenses[d]
  <2>1. PICK d \in Expenses, new \in ExpenseRows : WritesRow(r, d, new)
    BY <1>0 DEF Shape
  <2>2. expenses' = [expenses EXCEPT ![d] = new]
    BY <2>1 DEF WritesRow
  <2>3. QED  BY <1>0, <2>2
<1>10. SameReservation(expenses[e], expenses'[e])
  BY <1>3 DEF Moves
<1>11. PICK amount \in Nat : amount = h.amount /\ expenses'[e].amountXof = amount
  BY <1>0, <1>7, <1>10 DEF SameReservation, ExpenseRows
<1> DEFINE pair == <<e, amount>>
           A == BucketOf(expenses', l, "APPROVED")
           C == BucketOf(expenses', l, "COMPLETED")
           L == LegacyOf(expenses', l)
<1>12. A \subseteq BucketOf(expenses, l, "APPROVED") \cup {pair}
  BY <1>9, <1>11 DEF BucketOf
<1>13. C \subseteq BucketOf(expenses, l, "COMPLETED")
  BY <1>0, <1>9 DEF BucketOf
<1>14. L \subseteq LegacyOf(expenses, l)
  <2> SUFFICES ASSUME NEW x \in L PROVE x \in LegacyOf(expenses, l)
    OBVIOUS
  <2>1. PICK d \in Expenses :
          /\ expenses'[d].life = "stored" /\ expenses'[d].type = "DEPENSE"
          /\ expenses'[d].line = l /\ expenses'[d].expenseWorkflowStatus = NullState
          /\ x = <<d, expenses'[d].amountXof>> /\ expenses'[d].status = "VALIDE"
    BY DEF LegacyOf, BucketOf
  <2>2. d # e
    BY <1>0, <2>1 DEF NullState
  <2>3. expenses'[d] = expenses[d]
    BY <1>9, <2>2
  <2>4. x \in BucketOf(expenses, l, NullState)
    BY <2>1, <2>3 DEF BucketOf
  <2>5. x[1] = d
    BY <2>1
  <2>6. QED  BY <2>1, <2>3, <2>4, <2>5 DEF LegacyOf
<1> DEFINE known == (({pair} \cup h.sum1) \cup h.sum2) \cup legacy
<1>15. A \cup C \cup L \subseteq known
  BY <1>7, <1>8, <1>12, <1>13, <1>14
<1> HIDE DEF A, C, L
<1>16. Weighed({pair}) /\ Total({pair}) = amount
  BY TotalOfOne
<1> HIDE DEF pair
<1>17. /\ Weighed({pair} \cup h.sum1)
       /\ Total({pair} \cup h.sum1) <= Total({pair}) + Total(h.sum1)
  BY <1>7, <1>16, TotalUnion
<1>18. /\ Weighed(({pair} \cup h.sum1) \cup h.sum2)
       /\ Total(({pair} \cup h.sum1) \cup h.sum2)
            <= Total({pair} \cup h.sum1) + Total(h.sum2)
  BY <1>7, <1>17, TotalUnion
<1>19. /\ Weighed(known)
       /\ Total(known) <= Total(({pair} \cup h.sum1) \cup h.sum2) + Total(legacy)
  BY <1>8, <1>18, TotalUnion
<1>20. Total(A \cup C \cup L) <= Total(known) /\ Weighed(A \cup C \cup L)
  <2> HIDE DEF known
  <2>1. QED  BY <1>15, <1>19, TotalMonotone, WeighedSubset
<1>21. /\ Total(h.sum1) \in Nat /\ Total(h.sum2) \in Nat /\ Total(legacy) \in Nat
       /\ Total({pair} \cup h.sum1) \in Nat
       /\ Total(({pair} \cup h.sum1) \cup h.sum2) \in Nat
       /\ Total(known) \in Nat /\ Total(A \cup C \cup L) \in Nat
  BY <1>7, <1>8, <1>17, <1>18, <1>19, <1>20, TotalNat
<1>22. amount + Total(h.sum1) + Total(h.sum2) + Total(legacy) <= h.budget
  BY <1>8, <1>11 DEF Fits
<1>23. Total(A \cup C \cup L) <= h.budget
  <2> HIDE DEF known
  <2>1. QED  BY <1>7, <1>11, <1>16, <1>17, <1>18, <1>19, <1>20, <1>21, <1>22
<1>24. Committed(l)' = Total(A \cup C \cup L)
  <2>1. Committed(l)' = Total(Bucket(l, "APPROVED")' \cup Bucket(l, "COMPLETED")'
                               \cup LegacyRealized(l)')
    BY DEF Committed, Counted
  <2>2. A = Bucket(l, "APPROVED")' /\ C = Bucket(l, "COMPLETED")' /\ L = LegacyRealized(l)'
    BY BucketsNext DEF A, C, L
  <2>3. QED  BY <2>1, <2>2
<1>25. expenses'[e].line = l
  BY <1>5, <1>10 DEF SameReservation
<1>26. Committed(expenses[e].line)' = Committed(l)'
  <2>1. Committed(expenses[e].line)' = Total(Bucket(expenses[e].line, "APPROVED")'
              \cup Bucket(expenses[e].line, "COMPLETED")'
              \cup LegacyRealized(expenses[e].line)')
    BY DEF Committed, Counted
  <2>2. Committed(l)' = Total(Bucket(l, "APPROVED")' \cup Bucket(l, "COMPLETED")'
                               \cup LegacyRealized(l)')
    BY DEF Committed, Counted
  <2>3. /\ Bucket(expenses[e].line, "APPROVED")' = Bucket(l, "APPROVED")'
        /\ Bucket(expenses[e].line, "COMPLETED")' = Bucket(l, "COMPLETED")'
        /\ LegacyRealized(expenses[e].line)' = LegacyRealized(l)'
    BY <1>25 DEF Bucket, LegacyRealized, Stored, State
  <2>4. QED  BY <2>1, <2>2, <2>3
<1>27. budgets[expenses[e].line]' = h.budget
  BY <1>3, <1>7, <1>25
<1>28. QED  BY <1>23, <1>24, <1>26, <1>27

-----------------------------------------------------------------------------
(***************************************************************************)
(* The theorems about the steps.                                           *)
(***************************************************************************)

\* An expense moves along the table of transitions, whatever calls overlap and
\* whichever die: only complete and cancel, each of which found it approved, may
\* write over what the other made of it.
THEOREM TransitionsAreAllowed == Spec => OnlyAllowedTransitions
<1>1. Init => CallsInv
  BY CallsInit
<1>2. CallsInv /\ [Next]_vars => CallsInv'
  BY CallsNext
<1>3. CallsInv /\ [Next]_vars
        => [\A e \in Expenses :
                State(e)' # State(e) =>
                    \/ CanTransition(State(e), State(e)')
                    \/ /\ State(e) \in {"COMPLETED", "CANCELLED"}
                       /\ \E r \in Requests :
                             /\ Ends(r, {"complete", "cancel"}, e)
                             /\ local[r].from = "APPROVED"]_vars
  <2> SUFFICES ASSUME CallsInv, Next, NEW e \in Expenses, State(e)' # State(e),
                      ~CanTransition(State(e), State(e)')
               PROVE  /\ State(e) \in {"COMPLETED", "CANCELLED"}
                      /\ \E r \in Requests :
                            /\ Ends(r, {"complete", "cancel"}, e)
                            /\ local[r].from = "APPROVED"
    OBVIOUS
  <2>1. PICK r \in Requests : Start(r) \/ Step(r) \/ Fail(r)
    BY DEF Next
  <2>2. Shape(r)
    BY <2>1, StepShape DEF CallsInv
  <2>3. QED  BY <2>2, TransitionsAction
<1>4. QED  BY <1>1, <1>2, <1>3, PTL DEF Spec, OnlyAllowedTransitions

\* What an approved expense reserves is moved first by an update that had read it
\* before its approval, whatever calls overlap and whichever die: the check on the
\* row that was read holds back every other update, and nothing else moves it.
THEOREM ReservationsMoveLate == Spec => OnlyLateUpdatesMoveReservations
<1>1. Init => FrozenInv
  BY FrozenInit
<1>2. FrozenInv /\ [Next]_vars => FrozenInv'
  <2> SUFFICES ASSUME FrozenInv, [Next]_vars PROVE FrozenInv'
    OBVIOUS
  <2>1. IInv /\ IInv' /\ CallsInv'
    BY NextInvariant, CallsNext DEF FrozenInv, CallsInv
  <2>2. CASE UNCHANGED vars
    BY <2>1, <2>2 DEF vars, FrozenInv, KeepsFigures, State, TouchesLockedField
  <2>3. ASSUME NEW r \in Requests, Start(r) \/ Step(r) \/ Fail(r) PROVE FrozenInv'
    BY <2>1, <2>3, StepShape, FrozenStep
  <2>4. QED  BY <2>2, <2>3 DEF Next
<1>3. FrozenInv /\ [Next]_vars
        => [\A e \in Expenses :
                State(e) \in Decided /\ ~SameFigures(e) =>
                    \/ e \in moved
                    \/ \E r \in Requests :
                          Ends(r, {"update"}, e) /\ local[r].from \notin Decided]_vars
  <2> SUFFICES ASSUME FrozenInv, Next, NEW e \in Expenses,
                      State(e) \in Decided, ~SameFigures(e), e \notin moved
               PROVE  \E r \in Requests :
                          Ends(r, {"update"}, e) /\ local[r].from \notin Decided
    OBVIOUS
  <2>1. PICK r \in Requests : Start(r) \/ Step(r) \/ Fail(r)
    BY DEF Next
  <2>2. Shape(r)
    BY <2>1, StepShape DEF FrozenInv, CallsInv
  <2>3. QED  BY <2>2, FrozenAction
<1>4. QED  BY <1>1, <1>2, <1>3, PTL DEF Spec, OnlyLateUpdatesMoveReservations

\* However many approvals of a line overlap, and whatever else does, no approval takes
\* the line beyond its budget unless an update, a creation or an approval that was
\* itself overtaken has changed the figures it goes by: the lock, and the order of the
\* sums, see to it.
THEOREM ApprovalsFitTheirBudget == Spec => ApprovalFitsBudget
<1>1. Init => BudgetInv
  BY BudgetInit
<1>2. BudgetInv /\ [Next]_vars => BudgetInv'
  <2> SUFFICES ASSUME BudgetInv, [Next]_vars PROVE BudgetInv'
    OBVIOUS
  <2>1. IInv /\ IInv' /\ CallsInv'
    BY NextInvariant, CallsNext DEF BudgetInv, CallsInv
  <2>2. CASE UNCHANGED vars
    <3>1. ASSUME NEW r \in Requests PROVE Reserving(r)'
      <4>1. Reserving(r)
        BY DEF BudgetInv
      <4>2. PICK h : h = local[r] /\ h = local'[r]
        BY <2>2 DEF vars
      <4>3. QED
        BY <2>2, <4>1, <4>2 DEF vars, Reserving, KnowsItsExpense, HoldsItsLine,
                   HasReserved, HasConsumed, HasCompared, InTime, ApprovalAt, BucketOf,
                   LegacyOf
    <3>2. QED  BY <2>1, <3>1 DEF BudgetInv
  <2>3. ASSUME NEW r \in Requests, Start(r) \/ Step(r) \/ Fail(r) PROVE BudgetInv'
    BY <2>1, <2>3, StepShape, BudgetStep
  <2>4. QED  BY <2>2, <2>3 DEF Next
<1>3. BudgetInv /\ [Next]_vars
        => [\A e \in Expenses :
                State(e) = "PENDING_APPROVAL" /\ State(e)' = "APPROVED"
                    => \/ Committed(expenses[e].line)' <= budgets[expenses[e].line]'
                       \/ \E r \in overtaken : local[r].target = e /\ pc'[r] = "done"]_vars
  <2> SUFFICES ASSUME BudgetInv, Next, NEW e \in Expenses,
                      State(e) = "PENDING_APPROVAL", State(e)' = "APPROVED",
                      ~\E r \in overtaken : local[r].target = e /\ pc'[r] = "done"
               PROVE  Committed(expenses[e].line)' <= budgets[expenses[e].line]'
    OBVIOUS
  <2>1. PICK r \in Requests : Start(r) \/ Step(r) \/ Fail(r)
    BY DEF Next
  <2>2. Shape(r) /\ IInv'
    BY <2>1, StepShape, NextInvariant DEF BudgetInv, CallsInv
  <2>3. ~(r \in overtaken /\ local[r].target = e /\ pc'[r] = "done")
    OBVIOUS
  <2>4. QED  BY <2>2, <2>3, BudgetAction
<1>4. QED  BY <1>1, <1>2, <1>3, PTL DEF Spec, ApprovalFitsBudget

-----------------------------------------------------------------------------
(***************************************************************************)
(* What HandlersEnd rests on, apart from fairness: the locks never leave   *)
(* everybody waiting, and no handler takes a step twice.                   *)
(***************************************************************************)

\* The statements an approval runs while it holds the lock of its line.
Holding == {"sum1", "sum2", "sum3", "close"}

HoldersWork ==
    \A l \in Lines : holder[l] # NoRequest => pc[holder[l]] \in Holding

\* A statement by id is one of those there are.
AppliesCall(r) ==
    pc[r] = "apply" => local[r].call \in {"complete", "cancel", "update", "delete"}

ProgressInv == IInv /\ HoldersWork /\ \A r \in Requests : AppliesCall(r)

\* The next statement of r waits for nothing: all that a step of Step(r) asks for.
CanGoOn(r) ==
    \/ pc[r] = "lock" /\ holder[local[r].line] = NoRequest
    \/ pc[r] \in {"sum1", "sum2", "sum3", "close", "submit"}
    \/ Applying(r, {"complete", "cancel", "update", "delete"})

\* How many statements a handler has before it, at most.
Remaining(step) ==
    CASE step = "lock" -> 5
      [] step = "sum1" -> 4
      [] step = "sum2" -> 3
      [] step = "sum3" -> 2
      [] step \in {"close", "submit", "apply"} -> 1
      [] OTHER -> 0

\* A step of r keeps others where they are; r leaves its locks when it ends.
Advances(r) ==
    /\ \A s \in Requests : s # r => pc'[s] = pc[s] /\ local'[s] = local[s]
    /\ \A l \in Lines : \/ holder'[l] \in {holder[l], NoRequest}
                        \/ holder'[l] = r
    /\ \/ pc'[r] \in Holding
       \/ pc[r] = "idle" /\ holder' = holder
       \/ \A l \in Lines : holder'[l] # r
    /\ AppliesCall(r)'
    /\ pc[r] \in Steps => Remaining(pc'[r]) < Remaining(pc[r])

LEMMA FinishAdvances ==
    ASSUME IInv, NEW r \in Requests, Finish(r), pc[r] \in Steps
    PROVE  Advances(r)
<1>1. pc'[r] = "done" /\ \A s \in Requests : s # r => pc'[s] = pc[s] /\ local'[s] = local[s]
  BY ShapeTypes DEF Finish
<1>2. \A l \in Lines : holder'[l] \in {holder[l], NoRequest} /\ holder'[l] # r
  BY NullsAssumption DEF Finish, Release
<1>3. Remaining(pc'[r]) < Remaining(pc[r])
  BY <1>1 DEF Remaining, Steps
<1>4. AppliesCall(r)'
  BY <1>1 DEF AppliesCall
<1>5. QED  BY <1>1, <1>2, <1>3, <1>4 DEF Advances

LEMMA AtOnceAdvances ==
    ASSUME IInv, NEW r \in Requests, AtOnce(r)
    PROVE  Advances(r)
<1>1. pc[r] = "idle" /\ pc'[r] = "done" /\ holder' = holder
  BY ShapeTypes DEF AtOnce, MayStart
<1>2. \A s \in Requests : s # r => pc'[s] = pc[s] /\ local'[s] = local[s]
  BY ShapeTypes DEF AtOnce
<1>3. QED  BY <1>1, <1>2 DEF Advances, AppliesCall, Steps

LEMMA BeginAdvances ==
    ASSUME IInv, NEW r \in Requests, NEW step, NEW h, Begin(r, step, h),
           step = "apply" => h.call \in {"complete", "cancel", "update", "delete"}
    PROVE  Advances(r)
<1>1. pc[r] = "idle" /\ pc'[r] = step /\ local'[r] = h /\ holder' = holder
  BY ShapeTypes DEF Begin, MayStart
<1>2. \A s \in Requests : s # r => pc'[s] = pc[s] /\ local'[s] = local[s]
  BY ShapeTypes DEF Begin
<1>3. AppliesCall(r)'
  BY <1>1 DEF AppliesCall
<1>4. QED  BY <1>1, <1>2, <1>3 DEF Advances, Steps

LEMMA StartAdvances ==
    ASSUME IInv, NEW r \in Requests, Start(r)
    PROVE  Advances(r)
<1>1. ASSUME NEW e \in Expenses, NEW row \in NewRows, Create(r, e, row) PROVE Advances(r)
  BY <1>1, AtOnceAdvances DEF Create
<1>2. ASSUME NEW l \in Lines, NEW b \in Budgets, SetBudget(r, l, b) PROVE Advances(r)
  BY <1>2, AtOnceAdvances DEF SetBudget
<1>3. ASSUME NEW l \in Lines, DeleteBudget(r, l) PROVE Advances(r)
  BY <1>3, AtOnceAdvances DEF DeleteBudget
<1>4. CASE EnsureDefaults(r)
  BY <1>4, AtOnceAdvances DEF EnsureDefaults
<1>5. ASSUME NEW e \in Expenses, NEW u \in Directors, StartSubmit(r, u, e) PROVE Advances(r)
  BY <1>5, BeginAdvances DEF StartSubmit
<1>6. ASSUME NEW e \in Expenses, NEW u \in Directors, StartResubmit(r, u, e) PROVE Advances(r)
  BY <1>6, BeginAdvances DEF StartResubmit
<1>7. ASSUME NEW e \in Expenses, NEW u \in Supervisors, StartApprove(r, u, e)
      PROVE  Advances(r)
  BY <1>7, BeginAdvances DEF StartApprove
<1>8. ASSUME NEW e \in Expenses, NEW u \in Supervisors, StartReject(r, u, e)
      PROVE  Advances(r)
  BY <1>8, BeginAdvances DEF StartReject
<1>9. ASSUME NEW e \in Expenses, NEW u \in Directors, NEW call \in {"complete", "cancel"},
             StartLifecycle(r, u, e, call)
      PROVE  Advances(r)
  <2>1. Handler(call, u, e).call = call
    BY DEF Handler, NoCall
  <2>2. QED  BY <1>9, <2>1, BeginAdvances DEF StartLifecycle
<1>10. ASSUME NEW e \in Expenses, NEW dto \in OneField, StartUpdate(r, e, dto)
       PROVE  Advances(r)
  <2>1. [Handler("update", NoUser, e) EXCEPT !.dto = dto].call = "update"
    BY DEF Handler, NoCall
  <2>2. QED  BY <1>10, <2>1, BeginAdvances DEF StartUpdate
<1>11. ASSUME NEW e \in Expenses, StartDelete(r, e) PROVE Advances(r)
  <2>1. Handler("delete", NoUser, e).call = "delete"
    BY DEF Handler, NoCall
  <2>2. QED  BY <1>11, <2>1, BeginAdvances DEF StartDelete
<1>12. QED
  BY <1>1, <1>2, <1>3, <1>4, <1>5, <1>6, <1>7, <1>8, <1>9, <1>10, <1>11 DEF Start

LEMMA StepAdvances ==
    ASSUME IInv, NEW r \in Requests, Step(r)
    PROVE  Advances(r)
<1>1. CASE LockBudgetLine(r)
  <2>1. CASE Refuse(r)
    BY <1>1, <2>1, FinishAdvances DEF Refuse, LockBudgetLine, Steps
  <2>2. CASE ~Refuse(r)
    <3>1. /\ pc[r] = "lock" /\ pc'[r] = "sum1"
          /\ \A s \in Requests : s # r => pc'[s] = pc[s] /\ local'[s] = local[s]
          /\ \A l \in Lines : holder'[l] \in {holder[l], r}
      BY <1>1, <2>2, ShapeTypes DEF LockBudgetLine, Goto
    <3>2. QED  BY <3>1 DEF Advances, AppliesCall, Remaining, Holding
  <2>3. QED  BY <2>1, <2>2
<1>2. CASE SumFirst(r) \/ SumSecond(r)
  <2>1. /\ \/ pc[r] = "sum1" /\ pc'[r] = "sum2"
           \/ pc[r] = "sum2" /\ pc'[r] = "sum3"
        /\ holder' = holder
        /\ \A s \in Requests : s # r => pc'[s] = pc[s] /\ local'[s] = local[s]
    BY <1>2, ShapeTypes DEF SumFirst, SumSecond, Goto
  <2>2. QED  BY <2>1 DEF Advances, AppliesCall, Remaining, Holding
<1>3. CASE SumLegacy(r)
  <2>1. CASE Refuse(r)
    BY <1>3, <2>1, FinishAdvances DEF Refuse, SumLegacy, Steps
  <2>2. CASE ~Refuse(r)
    <3>1. /\ pc[r] = "sum3" /\ pc'[r] = "close" /\ holder' = holder
          /\ \A s \in Requests : s # r => pc'[s] = pc[s] /\ local'[s] = local[s]
      BY <1>3, <2>2, ShapeTypes DEF SumLegacy, Goto
    <3>2. QED  BY <3>1 DEF Advances, AppliesCall, Remaining, Holding
  <2>3. QED  BY <2>1, <2>2
<1>4. CASE Close(r) \/ Submit(r) \/ ApplyLifecycle(r) \/ ApplyUpdate(r) \/ ApplyDelete(r)
  <2>1. Finish(r) /\ pc[r] \in Steps
    BY <1>4 DEF Close, Submit, ApplyLifecycle, ApplyUpdate, ApplyDelete, Applying, Refuse,
                Steps
  <2>2. QED  BY <2>1, FinishAdvances
<1>5. QED  BY <1>1, <1>2, <1>3, <1>4 DEF Step

LEMMA NextAdvances ==
    ASSUME IInv, NEW r \in Requests, Start(r) \/ Step(r) \/ Fail(r)
    PROVE  Advances(r)
<1>1. CASE Fail(r)
  BY <1>1, FinishAdvances DEF Fail
<1>2. QED  BY <1>1, StartAdvances, StepAdvances

LEMMA ProgressStep ==
    ASSUME ProgressInv, IInv', NEW r \in Requests, Advances(r)
    PROVE  ProgressInv'
<1>1. ASSUME NEW l \in Lines, holder'[l] # NoRequest PROVE pc'[holder'[l]] \in Holding
  <2>1. holder'[l] \in Requests
    BY <1>1, ShapeTypes, IInvParts DEF IInv, TypeOK
  <2>2. CASE holder'[l] = r
    <3>1. CASE pc[r] = "idle" /\ holder' = holder
      BY <1>1, <2>2, <3>1 DEF ProgressInv, HoldersWork, Holding
    <3>2. QED  BY <2>2, <3>1 DEF Advances
  <2>3. CASE holder'[l] # r
    <3>1. holder'[l] = holder[l] /\ pc'[holder'[l]] = pc[holder[l]]
      BY <1>1, <2>1, <2>3 DEF Advances
    <3>2. QED  BY <1>1, <3>1 DEF ProgressInv, HoldersWork
  <2>4. QED  BY <2>2, <2>3
<1>2. ASSUME NEW s \in Requests PROVE AppliesCall(s)'
  <2>1. CASE s = r
    BY <2>1 DEF Advances
  <2>2. CASE s # r
    BY <2>2 DEF Advances, ProgressInv, AppliesCall
  <2>3. QED  BY <2>1, <2>2
<1>3. HoldersWork'
  BY <1>1 DEF HoldersWork
<1>4. QED  BY <1>2, <1>3 DEF ProgressInv

LEMMA ProgressInvariant == Spec => []ProgressInv
<1>1. Init => ProgressInv
  <2> SUFFICES ASSUME Init PROVE HoldersWork /\ \A r \in Requests : AppliesCall(r)
    BY InitInvariant DEF ProgressInv
  <2>1. QED  BY DEF Init, HoldersWork, AppliesCall
<1>2. ProgressInv /\ [Next]_vars => ProgressInv'
  <2> SUFFICES ASSUME ProgressInv, [Next]_vars PROVE ProgressInv'
    OBVIOUS
  <2>1. IInv /\ IInv'
    BY NextInvariant DEF ProgressInv
  <2>2. CASE UNCHANGED vars
    BY <2>1, <2>2 DEF vars, ProgressInv, HoldersWork, AppliesCall
  <2>3. ASSUME NEW r \in Requests, Start(r) \/ Step(r) \/ Fail(r) PROVE ProgressInv'
    BY <2>1, <2>3, NextAdvances, ProgressStep
  <2>4. QED  BY <2>2, <2>3 DEF Next
<1>3. QED  BY <1>1, <1>2, PTL DEF Spec

\* While handlers are in flight one of them waits for nothing: who waits for a line
\* waits for an approval that holds it, and that one waits for nobody.
THEOREM SomebodyCanGoOn ==
    Spec => [](InFlight # {} => \E r \in InFlight : CanGoOn(r))
<1>1. ProgressInv => (InFlight # {} => \E r \in InFlight : CanGoOn(r))
  <2> SUFFICES ASSUME ProgressInv, NEW r \in InFlight
               PROVE  \E q \in InFlight : CanGoOn(q)
    OBVIOUS
  <2>1. r \in Requests /\ pc[r] \in Steps
    BY DEF InFlight
  <2>2. CASE pc[r] = "lock" /\ holder[local[r].line] # NoRequest
    <3>1. PICK l \in Lines : l = local[r].line
      BY <2>1, <2>2 DEF ProgressInv, IInv, HandlerInv, HasLine
    <3>2. PICK q \in Requests : q = holder[l]
      BY <2>2, <3>1 DEF ProgressInv, IInv, TypeOK
    <3>3. pc[q] \in Holding
      BY <2>2, <3>1, <3>2 DEF ProgressInv, HoldersWork
    <3>4. QED  BY <3>3 DEF InFlight, CanGoOn, Holding, Steps
  <2>3. CASE ~(pc[r] = "lock" /\ holder[local[r].line] # NoRequest)
    <3>1. CanGoOn(r)
      BY <2>1, <2>3 DEF ProgressInv, AppliesCall, CanGoOn, Applying, Steps
    <3>2. QED  BY <3>1
  <2>4. QED  BY <2>2, <2>3
<1>2. QED  BY <1>1, ProgressInvariant, PTL

\* Every statement brings its handler nearer to its end, and the statements of others
\* do not put it back: a handler takes five of them at most.
THEOREM HandlersRunDown ==
    Spec => [][\A r \in Requests : pc[r] \in Steps =>
                  \/ pc'[r] = pc[r]
                  \/ Remaining(pc'[r]) < Remaining(pc[r])]_vars
<1>1. IInv /\ [Next]_vars =>
        [\A r \in Requests : pc[r] \in Steps =>
            \/ pc'[r] = pc[r]
            \/ Remaining(pc'[r]) < Remaining(pc[r])]_vars
  <2> SUFFICES ASSUME IInv, NEW q \in Requests, Start(q) \/ Step(q) \/ Fail(q),
                      NEW r \in Requests, pc[r] \in Steps
               PROVE  pc'[r] = pc[r] \/ Remaining(pc'[r]) < Remaining(pc[r])
    BY DEF Next
  <2>1. QED  BY NextAdvances DEF Advances
<1>2. QED  BY <1>1, Invariance, PTL DEF Spec
=============================================================================
