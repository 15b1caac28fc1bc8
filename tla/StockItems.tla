----------------------------- MODULE StockItems -----------------------------
(***************************************************************************)
(* One stock item of hadoum_api: its row, its ledger of movements, the     *)
(* validation requests about it, and the HTTP handlers of                  *)
(* StockItemsService that read and write them.                             *)
(*                                                                         *)
(* A handler is a process.  Every awaited Prisma call is one step, and a   *)
(* $transaction whose first statement locks the item row is one step: the  *)
(* database runs READ COMMITTED, so nothing orders two handlers between    *)
(* their awaits.  A handler that is refused by the checks that follow its  *)
(* first read changes nothing, and is not a step.  Notifications, sent     *)
(* after the last write, change no state of this module.                   *)
(*                                                                         *)
(* Quantities are counted in whole units; an item without a unit cost is   *)
(* one whose unit cost is 0: neither makes an exit sensitive by its value. *)
(*                                                                         *)
(* An operator whose comment begins with "Mutant" is no part of the model: *)
(* it is the operator below it with a plausible mistake, which a property  *)
(* of this module must catch.                                              *)
(*                                                                         *)
(* Some fields are history that the database does not keep.  Of a          *)
(* validation request: op, the operation it was created for; applied, the  *)
(* operations applied on the strength of its approval; together, whether   *)
(* two reviewers found it pending at the same time; failed, whether an     *)
(* approval of it ended before its operation was carried out.  Of a        *)
(* movement and of a handler: read, how many movements the ledger held     *)
(* when the quantity before was read.                                      *)
(***************************************************************************)
EXTENDS Integers, Sequences, FiniteSets

CONSTANTS
    Requests,           \* the HTTP calls of a behaviour, each made once
    Directors,          \* users holding the role DIRECTOR
    Supervisors,        \* users holding the role SUPERVISOR
    NoUser,             \* the null of a user column
    Quantities,         \* quantities of entries and exits
    Deltas,             \* signed quantities of adjustments
    Counts,             \* physically counted quantities
    UnitCosts,          \* unit costs an item may be given
    InitialQuantity,    \* quantity the item is created with
    InitialUnitCost,    \* unit cost the item is created with
    LargeExitQuantity,  \* STOCK_EXIT_LARGE_QUANTITY_THRESHOLD
    LargeExitValue,     \* STOCK_EXIT_LARGE_VALUE_THRESHOLD_XOF
    SensitivePercent,   \* STOCK_NEGATIVE_ADJUSTMENT_SENSITIVE_PERCENT
    MaxInFlight,        \* bound: handlers that may overlap
    MaxFaults           \* bound: handlers that may die between two steps

Users == Directors \cup Supervisors

ASSUME QuantitiesAssumption == Quantities \subseteq Nat \ {0}
ASSUME DeltasAssumption == Deltas \subseteq Int
ASSUME CountsAssumption == Counts \subseteq Nat
ASSUME UnitCostsAssumption == UnitCosts \subseteq Nat
ASSUME InitialAssumption == InitialQuantity \in Nat /\ InitialUnitCost \in Nat
ASSUME UsersAssumption == NoUser \notin Users
ASSUME MaxFaultsAssumption == MaxFaults \in Nat
ASSUME ThresholdsAssumption ==
    /\ LargeExitQuantity \in Nat
    /\ LargeExitValue \in Nat
    /\ SensitivePercent \in Nat

VARIABLES
    item,         \* the StockItem row
    movements,    \* its StockMovement rows, in commit order
    validations,  \* its ValidationRequest rows, in order of submittedAt
    pc,           \* the next step of every handler
    local,        \* what every handler holds in memory
    faults        \* handlers that died so far

vars == <<item, movements, validations, pc, local, faults>>

(***************************************************************************)
(* Rows.                                                                   *)
(***************************************************************************)
ValidationStatuses ==
    {"PENDING_VALIDATION", "APPROVED", "REJECTED", "CHANGES_REQUESTED"}

NoStatus == "null"

StockActions ==
    {"LARGE_STOCK_EXIT", "NEGATIVE_ADJUSTMENT", "STOCK_LOSS",
     "INVENTORY_CORRECTION", "STOCK_ITEM_ARCHIVE"}

NoAction == "null"

\* PERTE stands for the three loss types PERTE, CASSE and PEREMPTION.
MovementTypes ==
    {"ENTREE", "SORTIE", "AJUSTEMENT_POSITIF", "AJUSTEMENT_NEGATIF",
     "INVENTAIRE_CORRECTION", "PERTE", "TRANSFERT"}

Payloads ==
    [quantity : Nat, positive : BOOLEAN, type : MovementTypes, unitCost : Nat]

NoPayload ==
    [quantity |-> 0, positive |-> FALSE, type |-> "TRANSFERT", unitCost |-> 0]

ItemRows ==
    [currentQuantity : Int,
     isActive : BOOLEAN,
     unitCost : Nat,
     validationStatus : ValidationStatuses \cup {NoStatus},
     pendingValidationAction : StockActions \cup {NoAction},
     pendingValidationPayload : Payloads]

MovementRows ==
    [type : MovementTypes,
     quantity : Int,
     before : Int,
     after : Int,
     read : Nat,
     unitCost : Nat,
     performedBy : Users,
     approvedBy : Users \cup {NoUser}]

Operations == [action : StockActions, payload : Payloads]

ValidationRows ==
    [status : ValidationStatuses,
     submittedBy : Users,
     reviewedBy : Users \cup {NoUser},
     op : Operations,
     applied : Seq([action : StockActions \cup {NoAction}, payload : Payloads]),
     together : BOOLEAN,
     failed : BOOLEAN]

(***************************************************************************)
(* Handlers.  The steps of a handler after its first read:                 *)
(*   recount    the second read of an inventory count                      *)
(*   apply      the direct effect, one transaction                         *)
(*   find, insert, mark      submission: look for a pending request,       *)
(*              create one, write the pending action on the item           *)
(*   revfind, revupdate, decide      review: find the pending request,     *)
(*              close it, carry the decision out on the item               *)
(***************************************************************************)
Steps == {"recount", "apply", "find", "insert", "mark",
          "revfind", "revupdate", "decide"}

Calls == {"entry", "exit", "adjust", "count", "transfer", "archive",
          "update", "approve", "reject", "requestChanges"}

Locals ==
    [call : Calls \cup {"none"},
     by : Users \cup {NoUser},
     delta : Int,
     type : MovementTypes,
     action : StockActions \cup {NoAction},
     snap : ItemRows,
     read : Nat,
     val : Nat]

InitialItem ==
    [currentQuantity |-> InitialQuantity,
     isActive |-> TRUE,
     unitCost |-> InitialUnitCost,
     validationStatus |-> NoStatus,
     pendingValidationAction |-> NoAction,
     pendingValidationPayload |-> NoPayload]

NoCall ==
    [call |-> "none", by |-> NoUser, delta |-> 0, type |-> "TRANSFERT",
     action |-> NoAction, snap |-> InitialItem, read |-> 0, val |-> 0]

InFlight == {r \in Requests : pc[r] \in Steps}

(***************************************************************************)
(* Decisions the service makes from what it read.                          *)
(***************************************************************************)
Abs(n) == IF n < 0 THEN -n ELSE n

SensitiveExit(q, unitCost) ==
    \/ q > LargeExitQuantity
    \/ unitCost * q > LargeExitValue

\* Beyond SensitivePercent of the stock; an empty stock counts as 100 %.
Material(delta, qty) ==
    IF qty > 0 THEN Abs(delta) * 100 > SensitivePercent * qty
               ELSE 100 > SensitivePercent

\* The validation an adjustment needs, NoAction when it is applied directly.
AdjustmentAction(type, delta, qty) ==
    CASE type = "PERTE" -> "STOCK_LOSS"
      [] type = "INVENTAIRE_CORRECTION" /\ Material(delta, qty)
            -> "INVENTORY_CORRECTION"
      [] type = "AJUSTEMENT_NEGATIF" /\ Material(delta, qty)
            -> "NEGATIVE_ADJUSTMENT"
      [] OTHER -> NoAction

\* The movement types an adjustment of delta may carry.
AdjustmentTypes(delta) ==
    {"INVENTAIRE_CORRECTION"} \cup
    (IF delta > 0 THEN {"AJUSTEMENT_POSITIF"} ELSE {"AJUSTEMENT_NEGATIF", "PERTE"})

Pending(row) == row.validationStatus = "PENDING_VALIDATION"

(***************************************************************************)
(* Control of a handler.                                                   *)
(***************************************************************************)
Begin(r, step, handler) ==
    /\ pc[r] = "idle"
    /\ Cardinality(InFlight) < MaxInFlight
    /\ pc' = [pc EXCEPT ![r] = step]
    /\ local' = [local EXCEPT ![r] = handler]
    /\ UNCHANGED <<item, movements, validations, faults>>

Goto(r, step) == pc' = [pc EXCEPT ![r] = step]

Finish(r) ==
    /\ pc' = [pc EXCEPT ![r] = "done"]
    /\ local' = [local EXCEPT ![r] = NoCall]

Handler(call, by, delta, type, action) ==
    [call |-> call, by |-> by, delta |-> delta, type |-> type,
     action |-> action, snap |-> item, read |-> Len(movements), val |-> 0]

(***************************************************************************)
(* First reads: findRaw, then the checks on what it returned.              *)
(***************************************************************************)
\* Mutant: an entry that forgets assertActive.
StartEntryUnchecked(r, u, q) ==
    Begin(r, "apply", Handler("entry", u, q, "ENTREE", NoAction))

StartEntry(r, u, q) ==
    /\ item.isActive
    /\ Begin(r, "apply", Handler("entry", u, q, "ENTREE", NoAction))

StartExit(r, u, q) ==
    /\ item.isActive
    /\ ~Pending(item)
    /\ q <= item.currentQuantity
    /\ IF SensitiveExit(q, item.unitCost)
       THEN Begin(r, "find", Handler("exit", u, -q, "SORTIE", "LARGE_STOCK_EXIT"))
       ELSE Begin(r, "apply", Handler("exit", u, -q, "SORTIE", NoAction))

\* createAdjustment, called by its own route or, for a count, in memory.
AdjustmentHandler(call, u, delta, type) ==
    Handler(call, u, delta, type,
            AdjustmentAction(type, delta, item.currentQuantity))

AdjustmentStep(handler) == IF handler.action = NoAction THEN "apply" ELSE "find"

AdjustmentAllowed(delta) ==
    /\ item.isActive
    /\ ~Pending(item)
    /\ delta # 0
    /\ item.currentQuantity + delta >= 0

StartAdjustment(r, u, delta) ==
    /\ AdjustmentAllowed(delta)
    /\ \E type \in AdjustmentTypes(delta) :
          LET handler == AdjustmentHandler("adjust", u, delta, type)
          IN  Begin(r, AdjustmentStep(handler), handler)

\* The difference is taken from this read; createAdjustment reads again.
StartCount(r, u, actual) ==
    /\ item.isActive
    /\ ~Pending(item)
    /\ actual # item.currentQuantity
    /\ Begin(r, "recount",
             Handler("count", u, actual - item.currentQuantity,
                     "INVENTAIRE_CORRECTION", NoAction))

StartTransfer(r, u) ==
    /\ item.isActive
    /\ Begin(r, "apply", Handler("transfer", u, 0, "TRANSFERT", NoAction))

\* Mutant: an item is archived directly whatever it still holds.
StartArchiveDirectly(r, u) ==
    /\ item.isActive
    /\ ~Pending(item)
    /\ Begin(r, "apply", Handler("archive", u, 0, "AJUSTEMENT_POSITIF", NoAction))

StartArchive(r, u) ==
    /\ item.isActive
    /\ ~Pending(item)
    /\ IF item.currentQuantity <= 0
       THEN Begin(r, "apply", Handler("archive", u, 0, "AJUSTEMENT_POSITIF", NoAction))
       ELSE Begin(r, "find",
                  Handler("archive", u, 0, "AJUSTEMENT_POSITIF", "STOCK_ITEM_ARCHIVE"))

\* Only the unit cost matters here; it travels in the field delta.
StartUpdate(r, u, cost) ==
    Begin(r, "apply", Handler("update", u, cost, "TRANSFERT", NoAction))

\* The action and the payload to carry out are those of this read.
StartApprove(r, u) ==
    /\ item.pendingValidationAction # NoAction
    /\ Begin(r, "revfind", Handler("approve", u, 0, "TRANSFERT", NoAction))

StartRefusal(r, u, call) ==
    Begin(r, "revfind", Handler(call, u, 0, "TRANSFERT", NoAction))

(***************************************************************************)
(* The second read of an inventory count.                                  *)
(***************************************************************************)
Recount(r) ==
    /\ pc[r] = "recount"
    /\ UNCHANGED <<item, movements, validations, faults>>
    /\ IF AdjustmentAllowed(local[r].delta)
       THEN LET handler == AdjustmentHandler("count", local[r].by, local[r].delta,
                                             "INVENTAIRE_CORRECTION")
            IN  /\ Goto(r, AdjustmentStep(handler))
                /\ local' = [local EXCEPT ![r] = handler]
       ELSE Finish(r)

(***************************************************************************)
(* Direct effects: one transaction on the item and its ledger.             *)
(***************************************************************************)
Movement(type, quantity, before, after, read, unitCost, performer, approver) ==
    [type |-> type, quantity |-> quantity, before |-> before, after |-> after,
     read |-> read, unitCost |-> unitCost, performedBy |-> performer,
     approvedBy |-> approver]

Record(movement) == movements' = Append(movements, movement)

SetQuantity(n) == item' = [item EXCEPT !.currentQuantity = n]

\* Mutant: a removal that trusts the quantity it read.
CanRemoveUnguarded(q) == item.isActive

\* Mutant: a removal that trusts the isActive it read.
CanRemoveArchived(q) == item.currentQuantity >= q

\* The condition of the guarded updateMany of a direct removal of q units.
CanRemove(q) == item.currentQuantity >= q /\ item.isActive

\* A handler that finds its guarded update matching no row answers 409.
Conflict(r) ==
    /\ Finish(r)
    /\ UNCHANGED <<item, movements, validations, faults>>

Applying(r, calls) == pc[r] = "apply" /\ local[r].call \in calls

\* Mutant: the quantity written is computed from the row that was read.
ApplyEntryLosingUpdates(r) ==
    LET h == local[r]
        next == h.snap.currentQuantity + h.delta
    IN  /\ Applying(r, {"entry"})
        /\ SetQuantity(next)
        /\ Record(Movement("ENTREE", h.delta, h.snap.currentQuantity, next,
                           h.read, h.snap.unitCost, h.by, NoUser))
        /\ Finish(r)
        /\ UNCHANGED <<validations, faults>>

\* The quantity before is the one read first, the quantity after the one written.
ApplyEntry(r) ==
    LET h == local[r]
        next == item.currentQuantity + h.delta
    IN  /\ Applying(r, {"entry"})
        /\ SetQuantity(next)
        /\ Record(Movement("ENTREE", h.delta, h.snap.currentQuantity, next,
                           h.read, h.snap.unitCost, h.by, NoUser))
        /\ Finish(r)
        /\ UNCHANGED <<validations, faults>>

ApplyExit(r) ==
    LET h == local[r]
        q == -h.delta
        next == item.currentQuantity - q
    IN  /\ Applying(r, {"exit"})
        /\ IF CanRemove(q)
           THEN /\ SetQuantity(next)
                /\ Record(Movement("SORTIE", q, next + q, next,
                                   Len(movements), h.snap.unitCost, h.by, NoUser))
                /\ Finish(r)
                /\ UNCHANGED <<validations, faults>>
           ELSE Conflict(r)

ApplyAdjustment(r) ==
    LET h == local[r]
        next == item.currentQuantity + h.delta
    IN  /\ Applying(r, {"adjust", "count"})
        /\ IF h.delta < 0 => CanRemove(-h.delta)
           THEN /\ SetQuantity(next)
                /\ Record(Movement(h.type, Abs(h.delta), h.snap.currentQuantity,
                                   next, h.read, h.snap.unitCost, h.by, NoUser))
                /\ Finish(r)
                /\ UNCHANGED <<validations, faults>>
           ELSE Conflict(r)

ApplyTransfer(r) ==
    LET q == local[r].snap.currentQuantity
    IN  /\ Applying(r, {"transfer"})
        /\ Record(Movement("TRANSFERT", q, q, q, local[r].read, 0, local[r].by, NoUser))
        /\ Finish(r)
        /\ UNCHANGED <<item, validations, faults>>

ApplyArchive(r) ==
    /\ Applying(r, {"archive"})
    /\ item' = [item EXCEPT !.isActive = FALSE]
    /\ Finish(r)
    /\ UNCHANGED <<movements, validations, faults>>

ApplyUpdate(r) ==
    /\ Applying(r, {"update"})
    /\ item' = [item EXCEPT !.unitCost = local[r].delta]
    /\ Finish(r)
    /\ UNCHANGED <<movements, validations, faults>>

(***************************************************************************)
(* Submission: ValidationsService.create, two statements, then the item.   *)
(***************************************************************************)
\* Mutant: the request is looked for whatever its status.
AllValidations == DOMAIN validations

PendingValidations ==
    {v \in DOMAIN validations : validations[v].status = "PENDING_VALIDATION"}

PayloadOf(h) ==
    [quantity |-> Abs(h.delta),
     positive |-> h.type = "INVENTAIRE_CORRECTION" /\ h.delta > 0,
     type |-> h.type,
     unitCost |-> h.snap.unitCost]

SubmitFind(r) ==
    /\ pc[r] = "find"
    /\ IF PendingValidations = {}
       THEN Goto(r, "insert") /\ UNCHANGED local
       ELSE Finish(r)
    /\ UNCHANGED <<item, movements, validations, faults>>

SubmitInsert(r) ==
    /\ pc[r] = "insert"
    /\ validations' = Append(validations,
            [status |-> "PENDING_VALIDATION",
             submittedBy |-> local[r].by,
             reviewedBy |-> NoUser,
             op |-> [action |-> local[r].action, payload |-> PayloadOf(local[r])],
             applied |-> <<>>,
             together |-> FALSE,
             failed |-> FALSE])
    /\ Goto(r, "mark")
    /\ UNCHANGED <<item, movements, local, faults>>

\* Mutant: the payload of an earlier operation is left in place.
SubmitMarkActionOnly(r) ==
    /\ pc[r] = "mark"
    /\ item' = [item EXCEPT !.validationStatus = "PENDING_VALIDATION",
                            !.pendingValidationAction = local[r].action]
    /\ Finish(r)
    /\ UNCHANGED <<movements, validations, faults>>

SubmitMark(r) ==
    /\ pc[r] = "mark"
    /\ item' = [item EXCEPT !.validationStatus = "PENDING_VALIDATION",
                            !.pendingValidationAction = local[r].action,
                            !.pendingValidationPayload = PayloadOf(local[r])]
    /\ Finish(r)
    /\ UNCHANGED <<movements, validations, faults>>

(***************************************************************************)
(* Review: ValidationsService.reviewPending, two statements, then the item.*)
(***************************************************************************)
IsLatestPending(v) == \A w \in PendingValidations : w <= v

\* Mutant: a supervisor may review what they submitted.
MayReviewOwn(v, u) == TRUE

MayReview(v, u) == validations[v].submittedBy # u

\* The handlers that found the request pending and have not closed it yet.
Reviewing(v) == {r \in Requests : pc[r] = "revupdate" /\ local[r].val = v}

ReviewFind(r) ==
    /\ pc[r] = "revfind"
    /\ \/ PendingValidations = {} /\ Finish(r) /\ UNCHANGED validations
       \/ \E v \in PendingValidations :
             /\ IsLatestPending(v)
             /\ IF MayReview(v, local[r].by)
                THEN /\ Goto(r, "revupdate")
                     /\ local' = [local EXCEPT ![r].val = v]
                     /\ validations' = [validations EXCEPT
                            ![v].together = @ \/ Reviewing(v) # {}]
                ELSE Finish(r) /\ UNCHANGED validations
    /\ UNCHANGED <<item, movements, faults>>

\* Mutant: the name of the decision instead of the status it results in.
ResultingUnmapped(call) == call

Resulting(call) ==
    CASE call = "approve" -> "APPROVED"
      [] call = "reject" -> "REJECTED"
      [] OTHER -> "CHANGES_REQUESTED"

\* The row is updated by id alone, whatever its status has become.
ReviewUpdate(r) ==
    /\ pc[r] = "revupdate"
    /\ validations' = [validations EXCEPT
            ![local[r].val].status = Resulting(local[r].call),
            ![local[r].val].reviewedBy = local[r].by]
    /\ Goto(r, "decide")
    /\ UNCHANGED <<item, movements, local, faults>>

Deciding(r, calls) == pc[r] = "decide" /\ local[r].call \in calls

\* An approval that is at its last step and ends without carrying it out.
CarriesOutNothing(r) ==
    IF Deciding(r, {"approve"})
    THEN validations' = [validations EXCEPT ![local[r].val].failed = TRUE]
    ELSE UNCHANGED validations

Applied(r) ==
    validations' = [validations EXCEPT ![local[r].val].applied =
        Append(@, [action |-> local[r].snap.pendingValidationAction,
                   payload |-> local[r].snap.pendingValidationPayload])]

\* Mutant: the row stays pending once its operation is carried out.
ClearedActionOnly(row) ==
    [row EXCEPT !.pendingValidationAction = NoAction,
                !.pendingValidationPayload = NoPayload]

Cleared(row) ==
    [row EXCEPT !.validationStatus = "APPROVED",
                !.pendingValidationAction = NoAction,
                !.pendingValidationPayload = NoPayload]

DecideArchive(r) ==
    /\ Deciding(r, {"approve"})
    /\ local[r].snap.pendingValidationAction = "STOCK_ITEM_ARCHIVE"
    /\ item' = [Cleared(item) EXCEPT !.isActive = FALSE]
    /\ Applied(r)
    /\ Finish(r)
    /\ UNCHANGED <<movements, faults>>

\* The quantity before a decided operation, worked back from the one after.
QuantityBefore(p, after) ==
    IF p.positive THEN after - p.quantity ELSE after + p.quantity

\* The guard of the updateMany tests the quantity, and not isActive.
DecideStock(r) ==
    LET h == local[r]
        p == h.snap.pendingValidationPayload
        next == item.currentQuantity + (IF p.positive THEN p.quantity ELSE -p.quantity)
    IN  /\ Deciding(r, {"approve"})
        /\ h.snap.pendingValidationAction # "STOCK_ITEM_ARCHIVE"
        /\ IF p.positive \/ item.currentQuantity >= p.quantity
           THEN /\ item' = [Cleared(item) EXCEPT !.currentQuantity = next]
                /\ Record(Movement(p.type, p.quantity, QuantityBefore(p, next), next,
                                   Len(movements), p.unitCost,
                                   validations[h.val].submittedBy, h.by))
                /\ Applied(r)
                /\ UNCHANGED faults
           ELSE CarriesOutNothing(r) /\ UNCHANGED <<item, movements, faults>>
        /\ Finish(r)

\* The pending action and its payload stay on the item.
DecideRefusal(r) ==
    /\ Deciding(r, {"reject", "requestChanges"})
    /\ item' = [item EXCEPT !.validationStatus = Resulting(local[r].call)]
    /\ Finish(r)
    /\ UNCHANGED <<movements, validations, faults>>

(***************************************************************************)
(* A statement fails, or the process dies: what was committed stays.       *)
(***************************************************************************)
Fail(r) ==
    /\ pc[r] \in Steps
    /\ faults < MaxFaults
    /\ faults' = faults + 1
    /\ CarriesOutNothing(r)
    /\ Finish(r)
    /\ UNCHANGED <<item, movements>>

(***************************************************************************)
(* The item as StockItemsService.create leaves it.                         *)
(***************************************************************************)
Init ==
    /\ item = InitialItem
    /\ \E u \in Directors :
          movements = IF InitialQuantity > 0
                      THEN <<Movement("ENTREE", InitialQuantity, 0, InitialQuantity,
                                      0, InitialUnitCost, u, NoUser)>>
                      ELSE <<>>
    /\ validations = <<>>
    /\ pc = [r \in Requests |-> "idle"]
    /\ local = [r \in Requests |-> NoCall]
    /\ faults = 0

\* Who may call what: the @Roles of the controller's routes.
Start(r) ==
    \/ \E u \in Users, q \in Quantities : StartEntry(r, u, q)
    \/ \E u \in Users, q \in Quantities : StartExit(r, u, q)
    \/ \E u \in Directors, delta \in Deltas : StartAdjustment(r, u, delta)
    \/ \E u \in Users, actual \in Counts : StartCount(r, u, actual)
    \/ \E u \in Directors : StartTransfer(r, u)
    \/ \E u \in Directors : StartArchive(r, u)
    \/ \E u \in Directors, cost \in UnitCosts : StartUpdate(r, u, cost)
    \/ \E u \in Supervisors : StartApprove(r, u)
    \/ \E u \in Supervisors, call \in {"reject", "requestChanges"} :
          StartRefusal(r, u, call)

Step(r) ==
    \/ Recount(r)
    \/ ApplyEntry(r)
    \/ ApplyExit(r)
    \/ ApplyAdjustment(r)
    \/ ApplyTransfer(r)
    \/ ApplyArchive(r)
    \/ ApplyUpdate(r)
    \/ SubmitFind(r)
    \/ SubmitInsert(r)
    \/ SubmitMark(r)
    \/ ReviewFind(r)
    \/ ReviewUpdate(r)
    \/ DecideArchive(r)
    \/ DecideStock(r)
    \/ DecideRefusal(r)

Next == \E r \in Requests : Start(r) \/ Step(r) \/ Fail(r)

Spec == Init /\ [][Next]_vars

-----------------------------------------------------------------------------
(***************************************************************************)
(* Properties.                                                             *)
(***************************************************************************)

\* Every variable keeps the shape of the row, or of the handler, it stands for.
TypeOK ==
    /\ item \in ItemRows
    /\ movements \in Seq(MovementRows)
    /\ validations \in Seq(ValidationRows)
    /\ pc \in [Requests -> Steps \cup {"idle", "done"}]
    /\ local \in [Requests -> Locals]
    /\ faults \in 0..MaxFaults

\* The stock never goes below zero, whatever exits, adjustments and approvals
\* overlap: each removal re-tests the quantity in the statement that applies it.
QuantityNeverNegative == item.currentQuantity >= 0

\* The last movement, after a step that appended one.
Latest == movements'[Len(movements')]

SignedQuantities(m) ==
    CASE m.type = "TRANSFERT" -> {0}
      [] m.type \in {"ENTREE", "AJUSTEMENT_POSITIF"} -> {m.quantity}
      [] m.type \in {"SORTIE", "AJUSTEMENT_NEGATIF", "PERTE"} -> {-m.quantity}
      [] m.type = "INVENTAIRE_CORRECTION" -> {m.quantity, -m.quantity}

\* The quantity and the ledger change together: a change of the quantity comes
\* with one movement that states it and its result, and any movement but a
\* transfer states a change (StockMovementsService.record, "commit atomically").
EveryChangeIsRecorded ==
    [][ LET change == item'.currentQuantity - item.currentQuantity
        IN  \/ movements' = movements /\ change = 0
            \/ /\ Len(movements') = Len(movements) + 1
               /\ change \in SignedQuantities(Latest)
               /\ Latest.type # "TRANSFERT" =>
                    Latest.after = item'.currentQuantity /\ change # 0 ]_vars

\* The movements the routes promise to hold back for a second person, judged
\* from what the ledger itself says of them.
SensitiveMovement(m) ==
    \/ m.type = "SORTIE" /\ SensitiveExit(m.quantity, m.unitCost)
    \/ m.type = "PERTE"
    \/ /\ m.type \in {"AJUSTEMENT_NEGATIF", "INVENTAIRE_CORRECTION"}
       /\ Material(m.quantity, m.before)

\* Whatever calls overlap, a sensitive exit, a loss, or an adjustment of a
\* material share of the stock it was recorded against reaches the ledger only
\* with the approval of a user other than the one it is recorded under.
SensitiveMovementsAreApproved ==
    \A i \in DOMAIN movements :
        SensitiveMovement(movements[i])
            => movements[i].approvedBy \notin {NoUser, movements[i].performedBy}

\* An archived item loses stock only by an approval: the direct removals test
\* isActive in the statement that applies them.
ArchivedItemsLoseStockByApproval ==
    [][ ~item.isActive /\ item'.currentQuantity < item.currentQuantity
            => Latest.approvedBy # NoUser ]_vars

Quiescent == InFlight = {}

\* An approval is carried out at most once, however many reviewers answer.
AppliedAtMostOnce ==
    \A v \in DOMAIN validations : Len(validations[v].applied) <= 1

\* Unless two reviewers found it pending at the same time, whatever else overlaps
\* or dies: an approved request is carried out once, and not at all only if its
\* approval was refused or died at its last step; a request that is not approved,
\* refused or not answered yet, is never carried out.
ApprovalsAreCarriedOutOnce ==
    \A v \in DOMAIN validations :
        LET row == validations[v]
        IN  ~row.together =>
              IF row.status = "APPROVED"
              THEN \/ Len(row.applied) = 1
                   \/ /\ row.applied = <<>>
                      /\ \/ row.failed
                         \/ \E r \in Requests :
                               Deciding(r, {"approve"}) /\ local[r].val = v
              ELSE row.applied = <<>>

\* What an approval applies is the operation submitted with that request, and
\* not one left on the item by another.
AppliedIsWhatWasSubmitted ==
    \A v \in DOMAIN validations : \A i \in DOMAIN validations[v].applied :
        validations[v].applied[i] = validations[v].op

\* Between two handlers, an item is pending exactly when one request about it is,
\* and then it holds the operation of that request.
PendingAgreement ==
    Quiescent =>
        IF Pending(item)
        THEN \E v \in DOMAIN validations :
                /\ PendingValidations = {v}
                /\ validations[v].op.action = item.pendingValidationAction
                /\ validations[v].op.payload = item.pendingValidationPayload
        ELSE PendingValidations = {}

\* The first n movements leave q units in stock; a transfer leaves what it found.
Leaves(n, q) ==
    \/ q = 0 /\ \A i \in 1..n : movements[i].type = "TRANSFERT"
    \/ \E i \in 1..n :
          /\ movements[i].type # "TRANSFERT"
          /\ movements[i].after = q
          /\ \A j \in (i + 1)..n : movements[j].type = "TRANSFERT"

\* Whatever calls overlap, the ledger can be read back: it ends at the quantity of
\* the item, each movement but a transfer states a change of what those before it
\* left, and starts from a quantity the ledger shows: the one its handler read
\* first, or, of an exit and of an approved operation, the very last.
LedgerTellsQuantities ==
    /\ Leaves(Len(movements), item.currentQuantity)
    /\ \A i \in DOMAIN movements :
          LET m == movements[i]
          IN  /\ m.read < i
              /\ Leaves(m.read, m.before)
              /\ m.type = "SORTIE" \/ m.approvedBy # NoUser => m.read = i - 1
              /\ m.type # "TRANSFERT" =>
                    \E change \in SignedQuantities(m) : Leaves(i - 1, m.after - change)

\* A movement reaches an archived item (what assertActive refuses) only with an
\* approval, or by a handler that had read the item before it was archived; and
\* then it takes nothing out of the stock.
OnlyLateMovementsOnceArchived ==
    [][ movements' # movements /\ ~item.isActive =>
          \/ Latest.approvedBy # NoUser
          \/ /\ item'.currentQuantity >= item.currentQuantity
             /\ \E r \in Requests :
                   pc[r] = "apply" /\ pc'[r] = "done" /\ local[r].snap.isActive ]_vars

\* An item that still holds stock is archived only on an approved request.
StockIsArchivedByApproval ==
    ~item.isActive /\ item.currentQuantity > 0 =>
        \E v \in DOMAIN validations :
            /\ validations[v].op.action = "STOCK_ITEM_ARCHIVE"
            /\ validations[v].status = "APPROVED"
=============================================================================
