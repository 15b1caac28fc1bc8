---------------------------- MODULE ResourceScreens ----------------------------
(***************************************************************************)
(* The pages of hadoum_frontend about the resources whose operations are   *)
(* validated: which buttons the window of a row shows to whom, what its    *)
(* form may send, and the service each call reaches.  A window loads its   *)
(* row when it is opened and again after each of its calls.                *)
(*                                                                         *)
(* The calls that create a row, and those of documents, are left out.  A   *)
(* procedure shown as EXPIRE has some of the buttons of its status only.   *)
(***************************************************************************)
EXTENDS SupplierContracts, AdministrativeProcedures, MaintenanceTickets,
        InventoryAssets, EntryLogs, GoodsMovementLogs, Submissions

\* What a click sends: the button, and what its form may fill in.
Calls(button, inputs) == {[button |-> button, input |-> i] : i \in inputs}

Click(button) == Calls(button, {"none"})

When(shown, calls) == IF shown THEN calls ELSE {}

PendingValidation(row) == row.validation = "PENDING_VALIDATION"

(***************************************************************************)
(* The buttons of a director, by kind of row.                              *)
(***************************************************************************)
ContractButtons(row) ==
    Click("edit") \cup
    When(~PendingValidation(row),
         When(row.status = "BROUILLON", Click("CREATION")) \cup
         When(row.status \notin {"BROUILLON", "ARCHIVE", "RESILIE"},
              Click("RENEWAL") \cup Click("TERMINATION") \cup Click("archive")))

\* The statuses that the form of a procedure offers: none that its row left.
ProcedureFormStatuses(row) ==
    IF row.status \in MANUALLY_SETTABLE_STATUSES
    THEN MANUALLY_SETTABLE_STATUSES ELSE {"keep"}

ProcedureButtons(row) ==
    Calls("edit", ProcedureFormStatuses(row)) \cup
    When(~PendingValidation(row),
         When(row.status \in {"A_PREPARER", "EN_COURS", "SOUMIS", "EN_ATTENTE_REPONSE"},
              Click("submit")) \cup
         When(row.status # "ARCHIVE",
              Click("RENEWAL") \cup Click("ARCHIVE") \cup Click("archive")))

TicketIsOpen(row) == row.status # "FERME"

TicketButtons(row) ==
    Calls("edit", Urgencies) \cup
    When(~PendingValidation(row) /\ TicketIsOpen(row),
         Click(IF row.class = "CRITIQUE" THEN "submit" ELSE "close"))

\* Mutant: an asset that awaits a validation keeps its buttons.
AssetButtonsWhilePending(row) ==
    When(row.status # "ARCHIVE",
         Calls("edit", Costs) \cup
         Click("assign") \cup Click("transfer") \cup
         Calls("disposal", DisposalTypes) \cup Click("archive"))

AssetButtons(row) ==
    When(row.status # "ARCHIVE",
         Calls("edit", Costs) \cup
         When(~PendingValidation(row),
              Click("assign") \cup Click("transfer") \cup
              Calls("disposal", DisposalTypes) \cup Click("archive")))

\* Whether an arrival is after hours is the time of the click.
EntryButtons(row) ==
    When(row.status # "ARCHIVEE",
         Calls("edit", EntryTypes) \cup
         When(~PendingValidation(row),
              When(row.status \in {"PREVUE", "REFUSEE"},
                   Calls("check-in", {"in_hours", "after_hours"})) \cup
              When(row.status = "PRESENT", Click("check-out")) \cup
              When(row.status = "PREVUE", Click("cancel") \cup Click("refuse")) \cup
              Click("archive")))

MovementButtons(row) ==
    When(row.status # "ARCHIVE" /\ ~PendingValidation(row),
         When(row.status = "SORTI", Click("return")) \cup Click("archive"))

\* Those of a supervisor, in each of the windows.
Decisions(row) ==
    When(PendingValidation(row),
         Click("approve") \cup Click("reject") \cup Click("request-changes"))

(***************************************************************************)
(* The list of the pending validations, read from the requests and not     *)
(* from the rows, decides for these kinds.                                 *)
(***************************************************************************)
GENERIC_DECIDERS ==
    {"SUPPLIER_CONTRACT", "ADMINISTRATIVE_PROCEDURE", "MAINTENANCE_TICKET",
     "INVENTORY_ASSET", "ENTRY_LOG", "GOODS_MOVEMENT_LOG"}

ListedDecisions(x) ==
    When(OpenOf(x) # {} /\ rows[x].kind \in GENERIC_DECIDERS,
         Click("approve") \cup Click("reject"))

\* What a user who has just loaded row x may click.
Offered(x, user) ==
    IF user \in Directors
    THEN CASE rows[x].kind = "SUPPLIER_CONTRACT" -> ContractButtons(rows[x])
           [] rows[x].kind = "ADMINISTRATIVE_PROCEDURE" -> ProcedureButtons(rows[x])
           [] rows[x].kind = "MAINTENANCE_TICKET" -> TicketButtons(rows[x])
           [] rows[x].kind = "INVENTORY_ASSET" -> AssetButtons(rows[x])
           [] rows[x].kind = "ENTRY_LOG" -> EntryButtons(rows[x])
           [] rows[x].kind = "GOODS_MOVEMENT_LOG" -> MovementButtons(rows[x])
           [] OTHER -> {}
    ELSE When(rows[x].kind \in GENERIC_DECIDERS, Decisions(rows[x])) \cup ListedDecisions(x)

(***************************************************************************)
(* What the services answer to the calls of a window: nothing is an error  *)
(* at once when the operation's own checks pass, and nothing will be later *)
(* when ValidationsService.create finds no open request and its review     *)
(* finds one, of somebody else, unless another call comes in between.      *)
(***************************************************************************)
CreateAccepts(x) == FindPendingFor(x) = {}

ReviewAccepts(x, user) == \E q \in FindPendingFor(x) : MayReview(user, q)

ContractAccepts(x, user, call) ==
    CASE call.button \in {"edit", "archive"} -> Is(Contract, x)
      [] call.button \in {"approve", "reject", "request-changes"} ->
            Is(Contract, x) /\ ReviewAccepts(x, user)
      [] OTHER -> CanSubmitContract(x, call.button) /\ CreateAccepts(x)

\* submitValidation of a procedure finalises one that was submitted already.
ProcedureAccepts(x, user, call) ==
    CASE call.button = "edit" -> CanUpdateProcedure(x, SetStatus(call.input))
      [] call.button = "archive" -> CanArchiveProcedure(x)
      [] call.button = "submit" ->
            /\ \E action \in {"SUBMISSION", "FINALIZATION"} : CanSubmitProcedure(x, action)
            /\ CreateAccepts(x)
      [] call.button \in {"approve", "reject", "request-changes"} ->
            Is(Procedure, x) /\ ReviewAccepts(x, user)
      [] OTHER -> CanSubmitProcedure(x, call.button) /\ CreateAccepts(x)

TicketAccepts(x, user, call) ==
    CASE call.button = "edit" -> CanUpdateTicket(x, [NoPatch EXCEPT !.class = call.input])
      [] call.button = "close" -> CanCloseTicket(x)
      [] call.button = "submit" -> Is(Ticket, x) /\ CreateAccepts(x)
      [] OTHER -> Is(Ticket, x) /\ ReviewAccepts(x, user)

AssetAccepts(x, user, call) ==
    CASE call.button = "edit" -> CanUpdateAsset(x, [NoPatch EXCEPT !.class = call.input])
      [] call.button = "assign" -> CanHandleAsset(x)
      [] call.button = "transfer" ->
            CanHandleAsset(x) /\ (TransferIsSensitive(x) => CreateAccepts(x))
      [] call.button \in {"disposal", "archive"} -> CanHandleAsset(x) /\ CreateAccepts(x)
      [] call.button = "approve" -> CanApproveAsset(x) /\ ReviewAccepts(x, user)
      [] OTHER -> Is(Asset, x) /\ ReviewAccepts(x, user)

EntryAccepts(x, user, call) ==
    CASE call.button = "edit" -> CanUpdateEntry(x)
      [] call.button = "check-in" ->
            /\ CanCheckIn(x)
            /\ SensitiveArrival(x, call.input = "after_hours") # "none" => CreateAccepts(x)
      [] call.button = "check-out" ->
            CanCheckOut(x) /\ (ExitIsExceptional(x) => CreateAccepts(x))
      [] call.button = "cancel" -> CanCancelEntry(x)
      [] call.button = "refuse" -> CanRefuseEntry(x)
      [] call.button = "archive" ->
            CanArchiveEntry(x) /\ (~EntryIsOver(x) => CreateAccepts(x))
      [] call.button = "approve" -> CanApproveEntry(x) /\ ReviewAccepts(x, user)
      [] OTHER -> Is(Entry, x) /\ ReviewAccepts(x, user)

MovementAccepts(x, user, call) ==
    CASE call.button = "return" -> CanRecordReturn(x)
      [] call.button = "archive" ->
            CanArchiveMovement(x) /\ (~MovementIsOver(x) => CreateAccepts(x))
      [] call.button = "approve" -> CanApproveMovement(x) /\ ReviewAccepts(x, user)
      [] OTHER -> Is(Movement, x) /\ ReviewAccepts(x, user)

Accepted(x, user, call) ==
    CASE rows[x].kind = "SUPPLIER_CONTRACT" -> ContractAccepts(x, user, call)
      [] rows[x].kind = "ADMINISTRATIVE_PROCEDURE" -> ProcedureAccepts(x, user, call)
      [] rows[x].kind = "MAINTENANCE_TICKET" -> TicketAccepts(x, user, call)
      [] rows[x].kind = "INVENTORY_ASSET" -> AssetAccepts(x, user, call)
      [] rows[x].kind = "ENTRY_LOG" -> EntryAccepts(x, user, call)
      [] rows[x].kind = "GOODS_MOVEMENT_LOG" -> MovementAccepts(x, user, call)
=============================================================================
