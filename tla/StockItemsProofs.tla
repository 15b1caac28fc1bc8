--------------------------- MODULE StockItemsProofs ---------------------------
(***************************************************************************)
(* What StockItems guarantees for any number of overlapping handlers, any  *)
(* quantities, thresholds and users, and any number of faults.             *)
(***************************************************************************)
EXTENDS StockItems, FiniteSetTheorems, TLAPS

(***************************************************************************)
(* The inductive invariant.  What a handler applies in its last step was   *)
(* decided several steps before, from a row that has changed since: the    *)
(* parts below say what its memory still guarantees.                       *)
(***************************************************************************)

\* A removal, or a correction that carries its sign.
SoundPayload(p) ==
    /\ p.quantity > 0
    /\ IF p.positive THEN p.type = "INVENTAIRE_CORRECTION"
       ELSE p.type \in {"SORTIE", "AJUSTEMENT_NEGATIF", "PERTE", "INVENTAIRE_CORRECTION"}

\* An operation that will move stock once it is approved is sound.
SoundPending(row) ==
    row.pendingValidationAction \notin {NoAction, "STOCK_ITEM_ARCHIVE"}
        => SoundPayload(row.pendingValidationPayload)

\* The signed quantity in memory agrees with the call it came with.
SoundHandler(h) ==
    /\ h.call = "entry" => h.delta > 0
    /\ h.call = "exit" => h.delta < 0 /\ h.type = "SORTIE"
    /\ h.call \in {"adjust", "count"} => h.delta # 0 /\ h.type \in AdjustmentTypes(h.delta)
    /\ h.call = "update" => h.delta \in Nat
    /\ h.action \notin {NoAction, "STOCK_ITEM_ARCHIVE"} => SoundPayload(PayloadOf(h))
    /\ SoundPending(h.snap)

\* A handler that applies an exit or an adjustment directly found it routine, on
\* the unit cost and the quantity it keeps in memory; and, an update apart, it
\* found the item active.
Routine(h) ==
    /\ h.call # "update" => h.snap.isActive
    /\ h.call = "exit" => ~SensitiveExit(-h.delta, h.snap.unitCost)
    /\ h.call \in {"adjust", "count"} =>
          AdjustmentAction(h.type, h.delta, h.snap.currentQuantity) = NoAction

AppliesRoutine(r) == pc[r] = "apply" => Routine(local[r])

\* A handler past its first read acts for a user.
HasUser(r) == pc[r] \in Steps => local[r].by \in Users

\* A submission has an action; an approval works on one too.
HasAction(r) ==
    /\ pc[r] \in {"find", "insert", "mark"} => local[r].action # NoAction
    /\ local[r].call = "approve" => local[r].snap.pendingValidationAction # NoAction

\* A reviewer past the self-review test holds a request somebody else submitted.
HoldsRequest(r) ==
    pc[r] \in {"revupdate", "decide"} =>
        /\ local[r].val \in DOMAIN validations
        /\ validations[local[r].val].submittedBy # local[r].by

HandlerInv(r) ==
    /\ SoundHandler(local[r])
    /\ AppliesRoutine(r)
    /\ HasUser(r)
    /\ HasAction(r)
    /\ HoldsRequest(r)

IInv ==
    /\ TypeOK
    /\ QuantityNeverNegative
    /\ SensitiveMovementsAreApproved
    /\ SoundPending(item)
    /\ \A r \in Requests : HandlerInv(r)

USE QuantitiesAssumption, DeltasAssumption, CountsAssumption, UnitCostsAssumption,
    InitialAssumption, UsersAssumption, ThresholdsAssumption, MaxFaultsAssumption

-----------------------------------------------------------------------------
(***************************************************************************)
(* The shapes of rows and handlers.                                        *)
(***************************************************************************)

\* The magnitude of a signed quantity is a natural number, zero only for zero.
LEMMA AbsType == ASSUME NEW n \in Int PROVE Abs(n) \in Nat /\ (n # 0 => Abs(n) > 0)
  BY DEF Abs

\* The magnitude of a magnitude is that magnitude.
LEMMA AbsOfAbs == ASSUME NEW n \in Int PROVE Abs(Abs(n)) = Abs(n)
  BY DEF Abs

\* The row that create inserts has the shape of a row.
LEMMA InitialItemType == InitialItem \in ItemRows
  BY DEF InitialItem, ItemRows, NoStatus, NoAction, NoPayload, Payloads, MovementTypes

\* A handler that holds nothing has the shape of one, and nothing in it is unsound.
LEMMA NoCallType ==
    /\ NoCall \in Locals
    /\ SoundHandler(NoCall)
    /\ NoCall.call = "none"
<1>1. NoCall \in Locals
  BY InitialItemType DEF NoCall, Locals, NoAction, MovementTypes
<1>2. SoundHandler(NoCall)
  BY DEF NoCall, SoundHandler, SoundPending, InitialItem, NoAction
<1>3. QED  BY <1>1, <1>2 DEF NoCall

\* What submitPendingOperation stores is a payload.
LEMMA PayloadType == ASSUME NEW h \in Locals PROVE PayloadOf(h) \in Payloads
<1>1. h.delta \in Int /\ h.type \in MovementTypes /\ h.snap.unitCost \in Nat
  BY DEF Locals, ItemRows
<1>2. QED  BY <1>1, AbsType DEF PayloadOf, Payloads

\* An adjustment asks for a known action or none, and never for an archive.
LEMMA ActionType ==
    ASSUME NEW type, NEW delta, NEW qty
    PROVE  /\ AdjustmentAction(type, delta, qty) \in StockActions \cup {NoAction}
           /\ AdjustmentAction(type, delta, qty) # "STOCK_ITEM_ARCHIVE"
  BY DEF AdjustmentAction, StockActions, NoAction

\* The types an adjustment may carry are movement types that fit its sign.
LEMMA AdjustmentTypesType ==
    ASSUME NEW delta PROVE AdjustmentTypes(delta) \subseteq MovementTypes
  BY DEF AdjustmentTypes, MovementTypes

-----------------------------------------------------------------------------
(***************************************************************************)
(* Every first read puts in memory a handler fit for the steps to come.    *)
(***************************************************************************)
FitStart(step, h) ==
    /\ step \in {"apply", "find", "recount", "revfind"}
    /\ h \in Locals
    /\ h.by \in Users
    /\ SoundHandler(h)
    /\ step = "apply" => Routine(h)
    /\ step = "find" => h.action # NoAction
    /\ h.call = "approve" => h.snap.pendingValidationAction # NoAction

\* A handler built from its inputs and the item it read has the shape of one.
LEMMA HandlerType ==
    ASSUME TypeOK,
           NEW call \in Calls, NEW u \in Users, NEW delta \in Int,
           NEW type \in MovementTypes, NEW action \in StockActions \cup {NoAction}
    PROVE  /\ Handler(call, u, delta, type, action) \in Locals
           /\ Handler(call, u, delta, type, action).call = call
           /\ Handler(call, u, delta, type, action).by = u
           /\ Handler(call, u, delta, type, action).delta = delta
           /\ Handler(call, u, delta, type, action).type = type
           /\ Handler(call, u, delta, type, action).action = action
           /\ Handler(call, u, delta, type, action).snap = item
           /\ Handler(call, u, delta, type, action).read = Len(movements)
<1>1. Len(movements) \in Nat /\ item \in ItemRows
  BY DEF TypeOK
<1>2. QED  BY <1>1 DEF Handler, Locals

\* The payload of a removal, or of a correction, states a positive quantity.
LEMMA RemovalPayload ==
    ASSUME NEW h \in Locals,
           \/ h.type = "SORTIE" /\ h.delta < 0
           \/ h.delta # 0 /\ h.type \in AdjustmentTypes(h.delta) \ {"AJUSTEMENT_POSITIF"}
    PROVE  SoundPayload(PayloadOf(h))
<1>1. h.delta \in Int /\ Abs(h.delta) > 0
  BY AbsType DEF Locals
<1>2. PayloadOf(h).quantity > 0
  BY <1>1 DEF PayloadOf
<1>3. h.type \in {"SORTIE", "AJUSTEMENT_NEGATIF", "PERTE", "INVENTAIRE_CORRECTION"}
  BY DEF AdjustmentTypes
<1>4. QED
  BY <1>2, <1>3 DEF PayloadOf, SoundPayload

\* An adjustment or count that passes its checks starts as the invariant wants.
LEMMA AdjustmentHandlerFit ==
    ASSUME TypeOK, SoundPending(item),
           NEW call \in {"adjust", "count"}, NEW u \in Users,
           NEW delta \in Int, AdjustmentAllowed(delta), NEW type \in AdjustmentTypes(delta)
    PROVE  LET h == AdjustmentHandler(call, u, delta, type)
           IN  FitStart(AdjustmentStep(h), h)
<1> DEFINE action == AdjustmentAction(type, delta, item.currentQuantity)
           h == AdjustmentHandler(call, u, delta, type)
<1>1. action \in StockActions \cup {NoAction} /\ action # "STOCK_ITEM_ARCHIVE"
  BY ActionType
<1>2. type \in MovementTypes /\ call \in Calls /\ delta # 0 /\ item.isActive
  BY AdjustmentTypesType DEF Calls, AdjustmentAllowed
<1>3. h = Handler(call, u, delta, type, action)
  BY DEF AdjustmentHandler
<1> HIDE DEF action
<1>4. /\ h \in Locals /\ h.call = call /\ h.by = u /\ h.delta = delta
      /\ h.type = type /\ h.action = action /\ h.snap = item
  BY <1>1, <1>2, <1>3, HandlerType
<1>5. action # NoAction => type # "AJUSTEMENT_POSITIF"
  BY DEF action, AdjustmentAction, NoAction
<1> HIDE DEF h
<1>6. action # NoAction => SoundPayload(PayloadOf(h))
  BY <1>2, <1>4, <1>5, RemovalPayload
<1>7. SoundHandler(h)
  BY <1>2, <1>4, <1>6 DEF SoundHandler
<1>8. FitStart(AdjustmentStep(h), h)
  BY <1>2, <1>4, <1>7 DEF FitStart, AdjustmentStep, Routine, action
<1>9. QED  BY <1>8 DEF h

\* So does every handler, whichever route it serves.
LEMMA StartFit ==
    ASSUME TypeOK, SoundPending(item), NEW r \in Requests, Start(r)
    PROVE  \E step, h : FitStart(step, h) /\ Begin(r, step, h)
<1>0. /\ Directors \subseteq Users /\ Supervisors \subseteq Users
      /\ {"entry", "exit", "count", "transfer", "archive", "update", "approve", "reject",
          "requestChanges"} \subseteq Calls
      /\ {"ENTREE", "SORTIE", "INVENTAIRE_CORRECTION", "TRANSFERT", "AJUSTEMENT_POSITIF"}
            \subseteq MovementTypes
      /\ {NoAction, "LARGE_STOCK_EXIT", "STOCK_ITEM_ARCHIVE"} \subseteq StockActions \cup {NoAction}
  BY DEF Users, Calls, MovementTypes, StockActions
<1>a. 0 \in Int /\ \A n \in Nat : n \in Int  OBVIOUS
<1>1. CASE \E u \in Users, q \in Quantities : StartEntry(r, u, q)
  <2>1. PICK u \in Users, q \in Quantities : StartEntry(r, u, q)
    BY <1>1
  <2> DEFINE h == Handler("entry", u, q, "ENTREE", NoAction)
  <2>2. q \in Nat /\ q > 0  OBVIOUS
  <2>3. h \in Locals /\ h.call = "entry" /\ h.by = u /\ h.delta = q /\ h.action = NoAction
        /\ h.snap = item
    BY <1>0, <2>2, HandlerType
  <2>4. Begin(r, "apply", h) /\ item.isActive
    BY <2>1 DEF StartEntry
  <2> HIDE DEF h
  <2>5. FitStart("apply", h)
    BY <2>2, <2>3, <2>4 DEF FitStart, Routine, SoundHandler, NoAction
  <2>6. QED  BY <2>4, <2>5
<1>2. CASE \E u \in Users, q \in Quantities : StartExit(r, u, q)
  <2>1. PICK u \in Users, q \in Quantities : StartExit(r, u, q)
    BY <1>2
  <2>2. q \in Nat /\ q > 0 /\ -q \in Int /\ -(-q) = q  OBVIOUS
  <2>3. CASE SensitiveExit(q, item.unitCost)
    <3> DEFINE h == Handler("exit", u, -q, "SORTIE", "LARGE_STOCK_EXIT")
    <3>1. h \in Locals /\ h.call = "exit" /\ h.by = u /\ h.delta = -q
          /\ h.action = "LARGE_STOCK_EXIT" /\ h.type = "SORTIE" /\ h.snap = item
      BY <1>0, <2>2, HandlerType
    <3>2. Begin(r, "find", h)
      BY <2>1, <2>3 DEF StartExit
    <3> HIDE DEF h
    <3>a. h.type = "SORTIE" /\ h.delta < 0
      BY <2>2, <3>1
    <3>3. SoundPayload(PayloadOf(h))
      BY <3>1, <3>a, RemovalPayload
    <3>4. FitStart("find", h)
      BY <2>2, <3>1, <3>3 DEF FitStart, Routine, SoundHandler, NoAction
    <3>5. QED  BY <3>2, <3>4
  <2>4. CASE ~SensitiveExit(q, item.unitCost)
    <3> DEFINE h == Handler("exit", u, -q, "SORTIE", NoAction)
    <3>1. h \in Locals /\ h.call = "exit" /\ h.by = u /\ h.delta = -q
          /\ h.action = NoAction /\ h.type = "SORTIE" /\ h.snap = item
      BY <1>0, <2>2, HandlerType
    <3>2. Begin(r, "apply", h) /\ item.isActive
      BY <2>1, <2>4 DEF StartExit
    <3> HIDE DEF h
    <3>3. FitStart("apply", h)
      BY <2>2, <2>4, <3>1, <3>2 DEF FitStart, Routine, SoundHandler, NoAction
    <3>4. QED  BY <3>2, <3>3
  <2>5. QED  BY <2>3, <2>4
<1>3. CASE \E u \in Directors, delta \in Deltas : StartAdjustment(r, u, delta)
  <2>1. PICK u \in Directors, delta \in Deltas : StartAdjustment(r, u, delta)
    BY <1>3
  <2>2. PICK type \in AdjustmentTypes(delta) :
           LET h == AdjustmentHandler("adjust", u, delta, type)
           IN  Begin(r, AdjustmentStep(h), h)
    BY <2>1 DEF StartAdjustment
  <2>3. delta \in Int /\ AdjustmentAllowed(delta)
    BY <2>1 DEF StartAdjustment
  <2>4. QED  BY <1>0, <2>2, <2>3, AdjustmentHandlerFit
<1>4. CASE \E u \in Users, actual \in Counts : StartCount(r, u, actual)
  <2>1. PICK u \in Users, actual \in Counts : StartCount(r, u, actual)
    BY <1>4
  <2> DEFINE d == actual - item.currentQuantity
             h == Handler("count", u, d, "INVENTAIRE_CORRECTION", NoAction)
  <2>2. d \in Int /\ d # 0
    BY <2>1 DEF StartCount, TypeOK, ItemRows
  <2>3. Begin(r, "recount", h)
    BY <2>1 DEF StartCount
  <2> HIDE DEF d
  <2>4. h \in Locals /\ h.call = "count" /\ h.by = u /\ h.delta = d
        /\ h.action = NoAction /\ h.type = "INVENTAIRE_CORRECTION" /\ h.snap = item
    BY <1>0, <2>2, HandlerType
  <2> HIDE DEF h
  <2>5. FitStart("recount", h)
    BY <2>2, <2>4 DEF FitStart, Routine, SoundHandler, NoAction, AdjustmentTypes
  <2>6. QED  BY <2>3, <2>5
<1>5. CASE \E u \in Directors : StartTransfer(r, u)
  <2>1. PICK u \in Directors : StartTransfer(r, u)
    BY <1>5
  <2> DEFINE h == Handler("transfer", u, 0, "TRANSFERT", NoAction)
  <2>2. h \in Locals /\ h.call = "transfer" /\ h.by = u /\ h.action = NoAction /\ h.snap = item
    BY <1>0, <1>a, HandlerType
  <2>3. Begin(r, "apply", h) /\ item.isActive
    BY <2>1 DEF StartTransfer
  <2> HIDE DEF h
  <2>4. FitStart("apply", h)
    BY <1>0, <2>2, <2>3 DEF FitStart, Routine, SoundHandler, NoAction
  <2>5. QED  BY <2>3, <2>4
<1>6. CASE \E u \in Directors : StartArchive(r, u)
  <2>1. PICK u \in Directors : StartArchive(r, u)
    BY <1>6
  <2>2. CASE item.currentQuantity <= 0
    <3> DEFINE h == Handler("archive", u, 0, "AJUSTEMENT_POSITIF", NoAction)
    <3>1. h \in Locals /\ h.call = "archive" /\ h.by = u /\ h.action = NoAction /\ h.snap = item
      BY <1>0, <1>a, HandlerType
    <3>2. Begin(r, "apply", h) /\ item.isActive
      BY <2>1, <2>2 DEF StartArchive
    <3> HIDE DEF h
    <3>3. FitStart("apply", h)
      BY <1>0, <3>1, <3>2 DEF FitStart, Routine, SoundHandler, NoAction
    <3>4. QED  BY <3>2, <3>3
  <2>3. CASE ~(item.currentQuantity <= 0)
    <3> DEFINE h == Handler("archive", u, 0, "AJUSTEMENT_POSITIF", "STOCK_ITEM_ARCHIVE")
    <3>1. h \in Locals /\ h.call = "archive" /\ h.by = u /\ h.action = "STOCK_ITEM_ARCHIVE"
          /\ h.snap = item
      BY <1>0, <1>a, HandlerType
    <3>2. Begin(r, "find", h)
      BY <2>1, <2>3 DEF StartArchive
    <3> HIDE DEF h
    <3>3. FitStart("find", h)
      BY <1>0, <3>1 DEF FitStart, Routine, SoundHandler, NoAction
    <3>4. QED  BY <3>2, <3>3
  <2>4. QED  BY <2>2, <2>3
<1>7. CASE \E u \in Directors, cost \in UnitCosts : StartUpdate(r, u, cost)
  <2>1. PICK u \in Directors, cost \in UnitCosts : StartUpdate(r, u, cost)
    BY <1>7
  <2> DEFINE h == Handler("update", u, cost, "TRANSFERT", NoAction)
  <2>2. h \in Locals /\ h.call = "update" /\ h.by = u /\ h.delta = cost
        /\ h.action = NoAction /\ h.snap = item
    BY <1>0, <1>a, HandlerType
  <2>3. Begin(r, "apply", h)
    BY <2>1 DEF StartUpdate
  <2> HIDE DEF h
  <2>4. FitStart("apply", h)
    BY <1>0, <2>2 DEF FitStart, Routine, SoundHandler, NoAction
  <2>5. QED  BY <2>3, <2>4
<1>8. CASE \E u \in Supervisors : StartApprove(r, u)
  <2>1. PICK u \in Supervisors : StartApprove(r, u)
    BY <1>8
  <2> DEFINE h == Handler("approve", u, 0, "TRANSFERT", NoAction)
  <2>2. h \in Locals /\ h.call = "approve" /\ h.by = u /\ h.action = NoAction /\ h.snap = item
    BY <1>0, <1>a, HandlerType
  <2>3. Begin(r, "revfind", h) /\ item.pendingValidationAction # NoAction
    BY <2>1 DEF StartApprove
  <2> HIDE DEF h
  <2>4. FitStart("revfind", h)
    BY <1>0, <2>2, <2>3 DEF FitStart, Routine, SoundHandler
  <2>5. QED  BY <2>3, <2>4
<1>9. CASE \E u \in Supervisors, call \in {"reject", "requestChanges"} : StartRefusal(r, u, call)
  <2>1. PICK u \in Supervisors, call \in {"reject", "requestChanges"} : StartRefusal(r, u, call)
    BY <1>9
  <2> DEFINE h == Handler(call, u, 0, "TRANSFERT", NoAction)
  <2>2. h \in Locals /\ h.call = call /\ h.by = u /\ h.action = NoAction /\ h.snap = item
    BY <1>0, <1>a, HandlerType
  <2>3. Begin(r, "revfind", h)
    BY <2>1 DEF StartRefusal
  <2> HIDE DEF h
  <2>4. FitStart("revfind", h)
    BY <1>0, <2>2 DEF FitStart, Routine, SoundHandler
  <2>5. QED  BY <2>3, <2>4
<1>10. QED
  BY <1>1, <1>2, <1>3, <1>4, <1>5, <1>6, <1>7, <1>8, <1>9 DEF Start

-----------------------------------------------------------------------------
(***************************************************************************)
(* Frames: what a step leaves to the handlers it does not run.             *)
(***************************************************************************)

\* No step loses a request or changes who submitted it.
KeepsSubmitters ==
    \A v \in DOMAIN validations :
        /\ v \in DOMAIN validations'
        /\ validations'[v].submittedBy = validations[v].submittedBy

HandlersOK ==
    /\ pc \in [Requests -> Steps \cup {"idle", "done"}]
    /\ local \in [Requests -> Locals]
    /\ \A s \in Requests : HandlerInv(s)

\* Moving one handler keeps the invariant of the others.
LEMMA OneHandlerMoves ==
    ASSUME HandlersOK, KeepsSubmitters,
           NEW r \in Requests, NEW step \in Steps \cup {"idle", "done"}, NEW h \in Locals,
           pc' = [pc EXCEPT ![r] = step],
           local' = [local EXCEPT ![r] = h],
           HandlerInv(r)'
    PROVE  HandlersOK'
<1>1. /\ pc' \in [Requests -> Steps \cup {"idle", "done"}]
      /\ local' \in [Requests -> Locals]
  BY DEF HandlersOK
<1>2. ASSUME NEW s \in Requests, s # r PROVE HandlerInv(s)'
  <2>1. pc'[s] = pc[s] /\ local'[s] = local[s] /\ HandlerInv(s)
    BY <1>2 DEF HandlersOK
  <2>2. /\ SoundHandler(local[s])' /\ AppliesRoutine(s)' /\ HasUser(s)' /\ HasAction(s)'
    BY <2>1 DEF HandlerInv, AppliesRoutine, HasUser, HasAction, SoundHandler,
                SoundPending
  <2>3. HoldsRequest(s)'
    BY <2>1 DEF HandlerInv, HoldsRequest, KeepsSubmitters
  <2>4. QED  BY <2>2, <2>3 DEF HandlerInv
<1>3. QED  BY <1>1, <1>2 DEF HandlersOK

\* A handler that ends, answering or failing, keeps the invariant of handlers.
LEMMA FinishedHandler ==
    ASSUME HandlersOK, KeepsSubmitters, NEW r \in Requests, Finish(r)
    PROVE  HandlersOK'
<1>1. pc'[r] = "done" /\ local'[r] = NoCall
  BY DEF Finish, HandlersOK
<1>2. HandlerInv(r)'
  BY <1>1, NoCallType DEF HandlerInv, AppliesRoutine, HasUser, HasAction, HoldsRequest, Steps,
                          SoundHandler, SoundPending
<1>3. QED
  BY <1>2, NoCallType, OneHandlerMoves DEF Finish

(***************************************************************************)
(* The item and its ledger.                                                *)
(***************************************************************************)
ItemOK ==
    /\ item \in ItemRows
    /\ QuantityNeverNegative
    /\ SoundPending(item)

LedgerOK ==
    /\ movements \in Seq(MovementRows)
    /\ SensitiveMovementsAreApproved

ValidationsOK == validations \in Seq(ValidationRows)

\* The invariant, cut by the variable each part is about.
LEMMA IInvParts ==
    IInv <=> HandlersOK /\ ItemOK /\ LedgerOK /\ ValidationsOK /\ faults \in 0..MaxFaults
  BY DEF IInv, HandlersOK, ItemOK, LedgerOK, ValidationsOK, TypeOK

\* The same cut, in the state after a step.
LEMMA IInvPartsNext ==
    ASSUME HandlersOK', ItemOK', LedgerOK', ValidationsOK', faults' \in 0..MaxFaults
    PROVE  IInv'
  BY DEF IInv, HandlersOK, ItemOK, LedgerOK, ValidationsOK, TypeOK

\* Appending a movement that is routine or approved keeps the ledger sound.
LEMMA RecordKeepsLedger ==
    ASSUME LedgerOK, NEW m \in MovementRows, Record(m),
           SensitiveMovement(m) => m.approvedBy \notin {NoUser, m.performedBy}
    PROVE  LedgerOK'
<1>1. movements' \in Seq(MovementRows)
  BY DEF LedgerOK, Record
<1>2. ASSUME NEW i \in DOMAIN movements'
      PROVE  movements'[i] = m \/ (i \in DOMAIN movements /\ movements'[i] = movements[i])
  BY DEF LedgerOK, Record
<1>3. SensitiveMovementsAreApproved'
  BY <1>2 DEF LedgerOK, SensitiveMovementsAreApproved
<1>4. QED  BY <1>1, <1>3 DEF LedgerOK

\* Setting the quantity to a natural number keeps the row sound.
LEMMA QuantityKeepsItem ==
    ASSUME ItemOK, NEW n \in Int, n >= 0, SetQuantity(n)
    PROVE  ItemOK'
<1>1. item' \in ItemRows /\ item'.currentQuantity = n
      /\ item'.pendingValidationAction = item.pendingValidationAction
      /\ item'.pendingValidationPayload = item.pendingValidationPayload
  BY DEF ItemOK, SetQuantity, ItemRows
<1>2. QED  BY <1>1 DEF ItemOK, QuantityNeverNegative, SoundPending

\* Rows that a step leaves alone stay sound.
LEMMA UnchangedKeeps ==
    /\ LedgerOK /\ UNCHANGED movements => LedgerOK'
    /\ ItemOK /\ UNCHANGED item => ItemOK'
    /\ ValidationsOK /\ UNCHANGED validations => ValidationsOK' /\ KeepsSubmitters
<1>1. LedgerOK /\ UNCHANGED movements => LedgerOK'
  BY DEF LedgerOK, SensitiveMovementsAreApproved
<1>2. ItemOK /\ UNCHANGED item => ItemOK'
  BY DEF ItemOK, QuantityNeverNegative, SoundPending
<1>3. ValidationsOK /\ UNCHANGED validations => ValidationsOK' /\ KeepsSubmitters
  BY DEF ValidationsOK, KeepsSubmitters
<1>4. QED  BY <1>1, <1>2, <1>3

\* What the invariant says of the handler that moves.
LEMMA HandlerFacts ==
    ASSUME HandlersOK, NEW r \in Requests
    PROVE  /\ local[r] \in Locals
           /\ local[r].delta \in Int
           /\ local[r].type \in MovementTypes
           /\ local[r].snap \in ItemRows
           /\ local[r].snap.unitCost \in Nat
           /\ local[r].snap.currentQuantity \in Int
           /\ local[r].read \in Nat
           /\ local[r].snap.pendingValidationPayload \in Payloads
           /\ local[r].snap.pendingValidationAction \in StockActions \cup {NoAction}
           /\ HandlerInv(r)
           /\ pc[r] \in Steps => local[r].by \in Users
<1>1. local[r] \in Locals /\ HandlerInv(r)
  BY DEF HandlersOK
<1>2. local[r].snap \in ItemRows
  BY <1>1 DEF Locals
<1>3. QED
  BY <1>1, <1>2 DEF Locals, ItemRows, HandlerInv, HasUser

-----------------------------------------------------------------------------
(***************************************************************************)
(* The invariant holds initially, and every step keeps it.                 *)
(***************************************************************************)

\* What StockItemsService.create commits satisfies the invariant.
LEMMA InitInvariant == Init => IInv
<1> SUFFICES ASSUME Init PROVE IInv
  OBVIOUS
<1>1. ItemOK
  BY InitialItemType DEF Init, ItemOK, QuantityNeverNegative, SoundPending, InitialItem, NoAction
<1>2. LedgerOK
  <2>1. PICK u \in Directors :
          movements = IF InitialQuantity > 0
                      THEN <<Movement("ENTREE", InitialQuantity, 0, InitialQuantity,
                                      0, InitialUnitCost, u, NoUser)>>
                      ELSE <<>>
    BY DEF Init
  <2> DEFINE m == Movement("ENTREE", InitialQuantity, 0, InitialQuantity, 0,
                           InitialUnitCost, u, NoUser)
  <2>2. m \in MovementRows /\ m.type = "ENTREE"
    BY DEF Users, MovementTypes, Movement, MovementRows
  <2> HIDE DEF m
  <2>3. CASE movements = <<m>>
    BY <2>2, <2>3 DEF LedgerOK, SensitiveMovementsAreApproved, SensitiveMovement
  <2>4. CASE movements = <<>>
    BY <2>4 DEF LedgerOK, SensitiveMovementsAreApproved
  <2>5. QED  BY <2>1, <2>3, <2>4 DEF m
<1>3. ValidationsOK /\ faults \in 0..MaxFaults
  BY DEF Init, ValidationsOK
<1>4. HandlersOK
  <2>1. \A r \in Requests : pc[r] = "idle" /\ local[r] = NoCall
    BY DEF Init
  <2>2. \A r \in Requests : HandlerInv(r)
    BY <2>1, NoCallType DEF HandlerInv, AppliesRoutine, HasUser, HasAction, HoldsRequest, Steps
  <2>3. QED  BY <2>2, NoCallType DEF Init, HandlersOK
<1>5. QED  BY <1>1, <1>2, <1>3, <1>4, IInvParts

\* The first read of a handler keeps the invariant.
LEMMA BeginInvariant ==
    ASSUME IInv, NEW r \in Requests, NEW step, NEW h, FitStart(step, h), Begin(r, step, h)
    PROVE  IInv'
<1>1. step \in Steps /\ h \in Locals
  BY DEF FitStart, Steps
<1>2. /\ pc' = [pc EXCEPT ![r] = step]
      /\ local' = [local EXCEPT ![r] = h]
      /\ UNCHANGED <<item, movements, validations, faults>>
  BY DEF Begin
<1>3. HandlersOK /\ ItemOK /\ LedgerOK /\ ValidationsOK /\ faults \in 0..MaxFaults
  BY IInvParts
<1>4. ItemOK' /\ LedgerOK' /\ ValidationsOK' /\ KeepsSubmitters /\ faults' \in 0..MaxFaults
  BY <1>2, <1>3, UnchangedKeeps
<1>5. pc'[r] = step /\ local'[r] = h
  BY <1>2, <1>3 DEF HandlersOK
<1>6. HandlerInv(r)'
  BY <1>5 DEF HandlerInv, FitStart, AppliesRoutine, HasUser, HasAction, HoldsRequest,
              SoundHandler, SoundPending
<1>7. HandlersOK'
  BY <1>1, <1>2, <1>3, <1>4, <1>6, OneHandlerMoves
<1>8. QED  BY <1>4, <1>7, IInvPartsNext

\* A step of handler r that ends it: the rows it wrote must be sound.
LEMMA FinishInvariant ==
    ASSUME IInv, NEW r \in Requests, Finish(r),
           ItemOK', LedgerOK', ValidationsOK', KeepsSubmitters, faults' \in 0..MaxFaults
    PROVE  IInv'
  BY FinishedHandler, IInvParts, IInvPartsNext

\* Answering 409 keeps the invariant.
LEMMA ConflictInvariant ==
    ASSUME IInv, NEW r \in Requests, Finish(r),
           UNCHANGED <<item, movements, validations, faults>>
    PROVE  IInv'
<1>1. ItemOK /\ LedgerOK /\ ValidationsOK /\ faults \in 0..MaxFaults
  BY IInvParts
<1>2. ItemOK' /\ LedgerOK' /\ ValidationsOK' /\ KeepsSubmitters /\ faults' \in 0..MaxFaults
  BY <1>1, UnchangedKeeps
<1>3. QED  BY <1>2, FinishInvariant

\* The second read of an inventory count keeps the invariant.
LEMMA RecountInvariant ==
    ASSUME IInv, NEW r \in Requests, Recount(r) PROVE IInv'
<1>0. HandlersOK /\ ItemOK /\ LedgerOK /\ ValidationsOK /\ faults \in 0..MaxFaults
  BY IInvParts
<1>1. UNCHANGED <<item, movements, validations, faults>> /\ pc[r] = "recount"
  BY DEF Recount
<1>2. CASE AdjustmentAllowed(local[r].delta)
  <2> DEFINE h == AdjustmentHandler("count", local[r].by, local[r].delta, "INVENTAIRE_CORRECTION")
             step == AdjustmentStep(h)
  <2>1. local[r].by \in Users /\ local[r].delta \in Int
    BY <1>0, <1>1, HandlerFacts DEF Steps
  <2>2. FitStart(step, h)
    BY <1>0, <1>2, <2>1, AdjustmentHandlerFit DEF IInv, ItemOK, AdjustmentTypes
  <2>3. pc' = [pc EXCEPT ![r] = step] /\ local' = [local EXCEPT ![r] = h]
    BY <1>2 DEF Recount, Goto
  <2> HIDE DEF h, step
  <2>4. step \in Steps /\ h \in Locals
    BY <2>2 DEF FitStart, Steps
  <2>5. pc'[r] = step /\ local'[r] = h
    BY <1>0, <2>3 DEF HandlersOK
  <2>6. HandlerInv(r)'
    BY <2>2, <2>5 DEF HandlerInv, FitStart, AppliesRoutine, HasUser, HasAction, HoldsRequest,
                      SoundHandler, SoundPending
  <2>7. ItemOK' /\ LedgerOK' /\ ValidationsOK' /\ KeepsSubmitters /\ faults' \in 0..MaxFaults
    BY <1>0, <1>1, UnchangedKeeps
  <2>8. HandlersOK'
    BY <1>0, <2>3, <2>4, <2>6, <2>7, OneHandlerMoves
  <2>9. QED  BY <2>7, <2>8, IInvPartsNext
<1>3. CASE ~AdjustmentAllowed(local[r].delta)
  BY <1>1, <1>3, ConflictInvariant DEF Recount
<1>4. QED  BY <1>2, <1>3

\* The transaction of createEntry keeps the invariant.
LEMMA ApplyEntryInvariant ==
    ASSUME IInv, NEW r \in Requests, ApplyEntry(r) PROVE IInv'
<1> DEFINE h == local[r]
           next == item.currentQuantity + h.delta
           m == Movement("ENTREE", h.delta, h.snap.currentQuantity, next, h.read, h.snap.unitCost,
                         h.by, NoUser)
<1>0. HandlersOK /\ ItemOK /\ LedgerOK /\ ValidationsOK /\ faults \in 0..MaxFaults
  BY IInvParts
<1>1. /\ pc[r] = "apply" /\ h.call = "entry" /\ SetQuantity(next) /\ Record(m)
      /\ Finish(r) /\ UNCHANGED <<validations, faults>>
  BY DEF ApplyEntry, Applying
<1>2. h.delta > 0 /\ h.delta \in Int /\ h.by \in Users /\ h.snap.currentQuantity \in Int
      /\ h.snap.unitCost \in Nat /\ h.read \in Nat
  BY <1>0, <1>1, HandlerFacts DEF HandlerInv, SoundHandler, Steps
<1>3. next \in Int /\ next >= 0
  BY <1>0, <1>2 DEF ItemOK, QuantityNeverNegative, ItemRows
<1>4. ItemOK'
  BY <1>0, <1>1, <1>3, QuantityKeepsItem
<1> HIDE DEF next
<1>5. m \in MovementRows /\ m.type = "ENTREE"
  BY <1>2, <1>3, AbsType DEF MovementTypes, Movement, MovementRows
<1> HIDE DEF m
<1>6. LedgerOK'
  BY <1>0, <1>1, <1>5, RecordKeepsLedger DEF SensitiveMovement
<1>7. QED  BY <1>0, <1>1, <1>4, <1>6, UnchangedKeeps, FinishInvariant

\* The transaction of createExit keeps it: the guard bounds what is removed.
LEMMA ApplyExitInvariant ==
    ASSUME IInv, NEW r \in Requests, ApplyExit(r) PROVE IInv'
<1> DEFINE h == local[r]
           q == -h.delta
           next == item.currentQuantity - q
           m == Movement("SORTIE", q, next + q, next, Len(movements), h.snap.unitCost,
                         h.by, NoUser)
<1>0. HandlersOK /\ ItemOK /\ LedgerOK /\ ValidationsOK /\ faults \in 0..MaxFaults
  BY IInvParts
<1>1. pc[r] = "apply" /\ h.call = "exit"
  BY DEF ApplyExit, Applying
<1>2. CASE CanRemove(q)
  <2>1. SetQuantity(next) /\ Record(m) /\ Finish(r) /\ UNCHANGED <<validations, faults>>
    BY <1>2 DEF ApplyExit
  <2>2. q \in Int /\ h.by \in Users /\ h.snap.unitCost \in Nat
        /\ ~SensitiveExit(q, h.snap.unitCost)
    BY <1>0, <1>1, HandlerFacts DEF HandlerInv, AppliesRoutine, Routine, Steps
  <2>3. item.currentQuantity \in Int /\ Len(movements) \in Nat
    BY <1>0 DEF ItemOK, ItemRows, LedgerOK
  <2> HIDE DEF q
  <2>4. next \in Int /\ next >= 0 /\ next + q \in Int
    BY <1>2, <2>2, <2>3 DEF CanRemove
  <2>5. ItemOK'
    BY <1>0, <2>1, <2>4, QuantityKeepsItem
  <2> HIDE DEF next
  <2>6. m \in MovementRows /\ m.type = "SORTIE" /\ m.quantity = q
        /\ m.unitCost = h.snap.unitCost
    BY <2>2, <2>3, <2>4, AbsType DEF MovementTypes, Movement, MovementRows
  <2> HIDE DEF m
  <2>7. LedgerOK'
    BY <1>0, <2>1, <2>2, <2>6, RecordKeepsLedger DEF SensitiveMovement
  <2>8. QED  BY <1>0, <2>1, <2>5, <2>7, UnchangedKeeps, FinishInvariant
<1>3. CASE ~CanRemove(q)
  BY <1>3, ConflictInvariant DEF ApplyExit, Conflict
<1>4. QED  BY <1>2, <1>3

\* The transaction of createAdjustment keeps it, for either sign.
LEMMA ApplyAdjustmentInvariant ==
    ASSUME IInv, NEW r \in Requests, ApplyAdjustment(r) PROVE IInv'
<1> DEFINE h == local[r]
           next == item.currentQuantity + h.delta
           m == Movement(h.type, Abs(h.delta), h.snap.currentQuantity, next, h.read,
                         h.snap.unitCost, h.by, NoUser)
<1>0. HandlersOK /\ ItemOK /\ LedgerOK /\ ValidationsOK /\ faults \in 0..MaxFaults
  BY IInvParts
<1>1. pc[r] = "apply" /\ h.call \in {"adjust", "count"}
  BY DEF ApplyAdjustment, Applying
<1>2. CASE h.delta < 0 => CanRemove(-h.delta)
  <2>1. SetQuantity(next) /\ Record(m) /\ Finish(r) /\ UNCHANGED <<validations, faults>>
    BY <1>2 DEF ApplyAdjustment
  <2>2. /\ h.delta \in Int /\ h.by \in Users /\ h.snap.currentQuantity \in Int
        /\ h.snap.unitCost \in Nat /\ h.type \in MovementTypes /\ h.read \in Nat
        /\ h.type \in AdjustmentTypes(h.delta)
    BY <1>0, <1>1, HandlerFacts DEF HandlerInv, SoundHandler, Steps
  <2>3. item.currentQuantity \in Int /\ item.currentQuantity >= 0
    BY <1>0 DEF ItemOK, ItemRows, QuantityNeverNegative
  <2>4. next \in Int /\ next >= 0
    BY <1>2, <2>2, <2>3 DEF CanRemove
  <2>5. ItemOK'
    BY <1>0, <2>1, <2>4, QuantityKeepsItem
  <2> HIDE DEF next
  <2>6. m \in MovementRows /\ m.type = h.type /\ m.quantity = Abs(h.delta)
        /\ m.before = h.snap.currentQuantity
    BY <2>2, <2>4, AbsType DEF Movement, MovementRows
  <2> HIDE DEF m
  <2>7. ~SensitiveMovement(m)
    <3>1. AdjustmentAction(h.type, h.delta, h.snap.currentQuantity) = NoAction
      BY <1>0, <1>1, HandlerFacts DEF HandlerInv, AppliesRoutine, Routine
    <3>2. Material(m.quantity, m.before) = Material(h.delta, h.snap.currentQuantity)
      BY <2>2, <2>6, AbsOfAbs DEF Material
    <3>3. h.type \in {"AJUSTEMENT_POSITIF", "AJUSTEMENT_NEGATIF", "PERTE", "INVENTAIRE_CORRECTION"}
      BY <2>2 DEF AdjustmentTypes
    <3>4. QED  BY <2>6, <3>1, <3>2, <3>3 DEF SensitiveMovement, AdjustmentAction, NoAction
  <2>8. LedgerOK'
    BY <1>0, <2>1, <2>6, <2>7, RecordKeepsLedger
  <2>9. QED  BY <1>0, <2>1, <2>5, <2>8, UnchangedKeeps, FinishInvariant
<1>3. CASE ~(h.delta < 0 => CanRemove(-h.delta))
  BY <1>3, ConflictInvariant DEF ApplyAdjustment, Conflict
<1>4. QED  BY <1>2, <1>3

\* The transaction of createTransfer keeps the invariant.
LEMMA ApplyTransferInvariant ==
    ASSUME IInv, NEW r \in Requests, ApplyTransfer(r) PROVE IInv'
<1> DEFINE q == local[r].snap.currentQuantity
           m == Movement("TRANSFERT", q, q, q, local[r].read, 0, local[r].by, NoUser)
<1>0. HandlersOK /\ ItemOK /\ LedgerOK /\ ValidationsOK /\ faults \in 0..MaxFaults
  BY IInvParts
<1>1. pc[r] = "apply" /\ Record(m) /\ Finish(r) /\ UNCHANGED <<item, validations, faults>>
  BY DEF ApplyTransfer, Applying
<1>2. m \in MovementRows /\ m.type = "TRANSFERT"
  BY <1>0, <1>1, HandlerFacts, AbsType DEF MovementTypes, Steps, Movement, MovementRows
<1> HIDE DEF m
<1>3. LedgerOK'
  BY <1>0, <1>1, <1>2, RecordKeepsLedger DEF SensitiveMovement
<1>4. QED  BY <1>0, <1>1, <1>3, UnchangedKeeps, FinishInvariant

\* The direct archive of an empty item keeps the invariant.
LEMMA ApplyArchiveInvariant ==
    ASSUME IInv, NEW r \in Requests, ApplyArchive(r) PROVE IInv'
<1>0. HandlersOK /\ ItemOK /\ LedgerOK /\ ValidationsOK /\ faults \in 0..MaxFaults
  BY IInvParts
<1>1. Finish(r) /\ UNCHANGED <<movements, validations, faults>>
  BY DEF ApplyArchive
<1>2. ItemOK'
  BY <1>0 DEF ApplyArchive, ItemOK, ItemRows, QuantityNeverNegative, SoundPending
<1>3. QED  BY <1>0, <1>1, <1>2, UnchangedKeeps, FinishInvariant

\* The update of the descriptive columns keeps the invariant.
LEMMA ApplyUpdateInvariant ==
    ASSUME IInv, NEW r \in Requests, ApplyUpdate(r) PROVE IInv'
<1>0. HandlersOK /\ ItemOK /\ LedgerOK /\ ValidationsOK /\ faults \in 0..MaxFaults
  BY IInvParts
<1>1. Finish(r) /\ UNCHANGED <<movements, validations, faults>> /\ local[r].call = "update"
  BY DEF ApplyUpdate, Applying
<1>2. local[r].delta \in Nat
  BY <1>0, <1>1, HandlerFacts DEF HandlerInv, SoundHandler
<1>3. ItemOK'
  BY <1>0, <1>2 DEF ApplyUpdate, ItemOK, ItemRows, QuantityNeverNegative, SoundPending
<1>4. QED  BY <1>0, <1>1, <1>3, UnchangedKeeps, FinishInvariant

\* A step that moves handler r on to another step of its own.
LEMMA GotoInvariant ==
    ASSUME IInv, NEW r \in Requests, NEW step \in Steps, NEW h \in Locals,
           pc' = [pc EXCEPT ![r] = step], local' = [local EXCEPT ![r] = h],
           HandlerInv(r)', ItemOK', LedgerOK', ValidationsOK', KeepsSubmitters,
           faults' \in 0..MaxFaults
    PROVE  IInv'
  BY OneHandlerMoves, IInvParts, IInvPartsNext

\* Looking for a pending request keeps the invariant.
LEMMA SubmitFindInvariant ==
    ASSUME IInv, NEW r \in Requests, SubmitFind(r) PROVE IInv'
<1>0. HandlersOK /\ ItemOK /\ LedgerOK /\ ValidationsOK /\ faults \in 0..MaxFaults
  BY IInvParts
<1>1. pc[r] = "find" /\ UNCHANGED <<item, movements, validations, faults>>
  BY DEF SubmitFind
<1>2. CASE PendingValidations = {}
  <2>1. pc' = [pc EXCEPT ![r] = "insert"] /\ local' = local
    BY <1>2 DEF SubmitFind, Goto
  <2>2. local' = [local EXCEPT ![r] = local[r]] /\ local[r] \in Locals
    BY <1>0, <2>1 DEF HandlersOK
  <2>3. pc'[r] = "insert" /\ local'[r] = local[r] /\ HandlerInv(r)
    BY <1>0, <2>1 DEF HandlersOK
  <2>4. HandlerInv(r)'
    BY <1>1, <2>3 DEF HandlerInv, AppliesRoutine, HasUser, HasAction, HoldsRequest, Steps,
                      SoundHandler, SoundPending
  <2>5. "insert" \in Steps
    BY DEF Steps
  <2>6. QED
    BY <1>0, <1>1, <2>1, <2>2, <2>4, <2>5, UnchangedKeeps, GotoInvariant
<1>3. CASE PendingValidations # {}
  BY <1>1, <1>3, ConflictInvariant DEF SubmitFind
<1>4. QED  BY <1>2, <1>3

\* Inserting a request keeps the invariant: no held request changes its author.
LEMMA SubmitInsertInvariant ==
    ASSUME IInv, NEW r \in Requests, SubmitInsert(r) PROVE IInv'
<1> DEFINE v == [status |-> "PENDING_VALIDATION",
                 submittedBy |-> local[r].by,
                 reviewedBy |-> NoUser,
                 op |-> [action |-> local[r].action, payload |-> PayloadOf(local[r])],
                 applied |-> <<>>, together |-> FALSE, failed |-> FALSE]
<1>0. HandlersOK /\ ItemOK /\ LedgerOK /\ ValidationsOK /\ faults \in 0..MaxFaults
  BY IInvParts
<1>1. /\ pc[r] = "insert" /\ validations' = Append(validations, v)
      /\ pc' = [pc EXCEPT ![r] = "mark"] /\ UNCHANGED <<item, movements, local, faults>>
  BY DEF SubmitInsert, Goto
<1>2. local[r] \in Locals /\ local[r].by \in Users /\ local[r].action # NoAction
  BY <1>0, <1>1, HandlerFacts DEF HandlerInv, HasAction, Steps
<1>3. [action |-> local[r].action, payload |-> PayloadOf(local[r])] \in Operations
  BY <1>2, PayloadType DEF Operations, Locals
<1>4. v \in ValidationRows
  BY <1>2, <1>3 DEF ValidationRows, ValidationStatuses
<1> HIDE DEF v
<1>5. ValidationsOK' /\ KeepsSubmitters
  BY <1>0, <1>1, <1>4 DEF ValidationsOK, KeepsSubmitters
<1>6. local' = [local EXCEPT ![r] = local[r]]
  BY <1>0, <1>1 DEF HandlersOK
<1>7. pc'[r] = "mark" /\ local'[r] = local[r] /\ HandlerInv(r)
  BY <1>0, <1>1 DEF HandlersOK
<1>8. HandlerInv(r)'
  BY <1>1, <1>7 DEF HandlerInv, AppliesRoutine, HasUser, HasAction, HoldsRequest, Steps,
                    SoundHandler, SoundPending
<1>9. "mark" \in Steps
  BY DEF Steps
<1>10. QED
  BY <1>0, <1>1, <1>2, <1>5, <1>6, <1>8, <1>9, UnchangedKeeps, GotoInvariant

\* Marking the item keeps it: the payload written is sound.
LEMMA SubmitMarkInvariant ==
    ASSUME IInv, NEW r \in Requests, SubmitMark(r) PROVE IInv'
<1>0. HandlersOK /\ ItemOK /\ LedgerOK /\ ValidationsOK /\ faults \in 0..MaxFaults
  BY IInvParts
<1>1. Finish(r) /\ UNCHANGED <<movements, validations, faults>> /\ pc[r] = "mark"
  BY DEF SubmitMark
<1>2. /\ local[r].action \in StockActions \cup {NoAction}
      /\ PayloadOf(local[r]) \in Payloads
      /\ local[r].action \notin {NoAction, "STOCK_ITEM_ARCHIVE"}
            => SoundPayload(PayloadOf(local[r]))
  BY <1>0, HandlerFacts, PayloadType DEF Locals, HandlerInv, SoundHandler
<1>3. item' \in ItemRows /\ item'.currentQuantity = item.currentQuantity
      /\ item'.pendingValidationAction = local[r].action
      /\ item'.pendingValidationPayload = PayloadOf(local[r])
  BY <1>0, <1>2 DEF SubmitMark, ItemOK, ItemRows, ValidationStatuses
<1>4. ItemOK'
  BY <1>0, <1>2, <1>3 DEF ItemOK, QuantityNeverNegative, SoundPending
<1>5. QED  BY <1>0, <1>1, <1>4, UnchangedKeeps, FinishInvariant

\* Closing a request, or noting what was applied, keeps the rows well formed.
LEMMA ValidationEdit ==
    ASSUME ValidationsOK, NEW v \in DOMAIN validations, NEW row \in ValidationRows,
           row.submittedBy = validations[v].submittedBy,
           validations' = [validations EXCEPT ![v] = row]
    PROVE  ValidationsOK' /\ KeepsSubmitters
  BY DEF ValidationsOK, KeepsSubmitters

\* The history of a request that one more reviewer finds pending.
FoundBy(v) ==
    validations' = [validations EXCEPT ![v].together = @ \/ Reviewing(v) # {}]

LEMMA FoundKeeps ==
    ASSUME ValidationsOK, NEW v \in DOMAIN validations, FoundBy(v)
    PROVE  ValidationsOK' /\ KeepsSubmitters
<1> DEFINE row == [validations[v] EXCEPT !.together = @ \/ Reviewing(v) # {}]
<1>1. validations[v] \in ValidationRows
  BY DEF ValidationsOK
<1>2. row \in ValidationRows /\ row.submittedBy = validations[v].submittedBy
  BY <1>1 DEF ValidationRows
<1>3. validations' = [validations EXCEPT ![v] = row]
  BY DEF FoundBy, ValidationsOK
<1> HIDE DEF row
<1>4. QED  BY <1>2, <1>3, ValidationEdit

\* Finding the pending request keeps it: the reviewer did not submit it.
LEMMA ReviewFindInvariant ==
    ASSUME IInv, NEW r \in Requests, ReviewFind(r) PROVE IInv'
<1>0. HandlersOK /\ ItemOK /\ LedgerOK /\ ValidationsOK /\ faults \in 0..MaxFaults
  BY IInvParts
<1>1. pc[r] = "revfind" /\ UNCHANGED <<item, movements, faults>>
  BY DEF ReviewFind, MayReview
<1>2. CASE Finish(r) /\ UNCHANGED validations
  BY <1>1, <1>2, ConflictInvariant
<1>3. ASSUME NEW v \in PendingValidations,
             validations[v].submittedBy # local[r].by,
             pc' = [pc EXCEPT ![r] = "revupdate"],
             local' = [local EXCEPT ![r].val = v],
             FoundBy(v)
      PROVE  IInv'
  <2> DEFINE h == [local[r] EXCEPT !.val = v]
  <2>1. v \in DOMAIN validations
    BY DEF PendingValidations
  <2>2. v \in Nat
    BY <1>0, <2>1 DEF ValidationsOK
  <2>3. local' = [local EXCEPT ![r] = h]
    BY <1>0, <1>3 DEF HandlersOK
  <2>4. local[r] \in Locals /\ HandlerInv(r)
    BY <1>0 DEF HandlersOK
  <2>5. h \in Locals /\ h.val = v /\ h.call = local[r].call /\ h.by = local[r].by
        /\ h.delta = local[r].delta /\ h.type = local[r].type /\ h.action = local[r].action
        /\ h.snap = local[r].snap
    BY <2>2, <2>4 DEF Locals
  <2> HIDE DEF h
  <2>6. pc'[r] = "revupdate" /\ local'[r] = h
    BY <1>0, <1>3, <2>3 DEF HandlersOK
  <2>7. SoundHandler(local[r])'
    BY <2>4, <2>5, <2>6 DEF HandlerInv, SoundHandler, SoundPending, PayloadOf
  <2>a. ValidationsOK' /\ KeepsSubmitters
    BY <1>0, <1>3, <2>1, FoundKeeps
  <2>8. HoldsRequest(r)'
    BY <1>1, <1>3, <2>1, <2>5, <2>6, <2>a DEF HoldsRequest, KeepsSubmitters
  <2>9. HandlerInv(r)'
    BY <1>1, <2>4, <2>5, <2>6, <2>7, <2>8 DEF HandlerInv, AppliesRoutine, HasUser, HasAction, Steps
  <2>10. "revupdate" \in Steps
    BY DEF Steps
  <2>11. QED
    BY <1>0, <1>1, <1>3, <2>3, <2>5, <2>9, <2>10, <2>a, UnchangedKeeps, GotoInvariant
<1>4. QED
  BY <1>2, <1>3 DEF ReviewFind, MayReview, Goto, FoundBy

\* Closing the request keeps the invariant.
LEMMA ReviewUpdateInvariant ==
    ASSUME IInv, NEW r \in Requests, ReviewUpdate(r) PROVE IInv'
<1> DEFINE v == local[r].val
           row == [validations[v] EXCEPT !.status = Resulting(local[r].call),
                                         !.reviewedBy = local[r].by]
<1>0. HandlersOK /\ ItemOK /\ LedgerOK /\ ValidationsOK /\ faults \in 0..MaxFaults
  BY IInvParts
<1>1. pc[r] = "revupdate" /\ pc' = [pc EXCEPT ![r] = "decide"]
      /\ UNCHANGED <<item, movements, local, faults>>
  BY DEF ReviewUpdate, Goto
<1>2. v \in DOMAIN validations /\ local[r].by \in Users
  BY <1>0, <1>1, HandlerFacts DEF HandlerInv, HoldsRequest, Steps
<1>3. validations[v] \in ValidationRows
  BY <1>0, <1>2 DEF ValidationsOK
<1>4. Resulting(local[r].call) \in ValidationStatuses
  BY DEF Resulting, ValidationStatuses
<1>5. row \in ValidationRows /\ row.submittedBy = validations[v].submittedBy
  BY <1>2, <1>3, <1>4 DEF ValidationRows
<1>6. validations' = [validations EXCEPT ![v] = row]
  BY <1>0, <1>2 DEF ReviewUpdate, ValidationsOK
<1> HIDE DEF row
<1>7. ValidationsOK' /\ KeepsSubmitters
  BY <1>0, <1>2, <1>5, <1>6, ValidationEdit
<1>8. local' = [local EXCEPT ![r] = local[r]] /\ local[r] \in Locals
  BY <1>0, <1>1 DEF HandlersOK
<1>9. pc'[r] = "decide" /\ local'[r] = local[r] /\ HandlerInv(r)
  BY <1>0, <1>1 DEF HandlersOK
<1>10. HoldsRequest(r)'
  BY <1>1, <1>7, <1>9 DEF HandlerInv, HoldsRequest, KeepsSubmitters
<1>11. HandlerInv(r)'
  BY <1>1, <1>9, <1>10 DEF HandlerInv, AppliesRoutine, HasUser, HasAction, Steps, SoundHandler,
                           SoundPending
<1>12. "decide" \in Steps
  BY DEF Steps
<1>13. QED
  BY <1>0, <1>1, <1>7, <1>8, <1>11, <1>12, UnchangedKeeps, GotoInvariant

\* Noting what handler r applied, in the history of the request it approved.
LEMMA AppliedKeepsValidations ==
    ASSUME IInv, NEW r \in Requests, pc[r] = "decide", Applied(r)
    PROVE  ValidationsOK' /\ KeepsSubmitters
<1> DEFINE v == local[r].val
           op == [action |-> local[r].snap.pendingValidationAction,
                  payload |-> local[r].snap.pendingValidationPayload]
           row == [validations[v] EXCEPT !.applied = Append(@, op)]
           Ops == [action : StockActions \cup {NoAction}, payload : Payloads]
<1>0. HandlersOK /\ ValidationsOK
  BY IInvParts
<1>1. v \in DOMAIN validations
  BY <1>0, HandlerFacts DEF HandlerInv, HoldsRequest
<1>2. op \in Ops
  BY <1>0, HandlerFacts
<1>3. validations[v] \in ValidationRows
  BY <1>0, <1>1 DEF ValidationsOK
<1>4. validations[v].applied \in Seq(Ops)
  BY <1>3 DEF ValidationRows
<1>5. validations' = [validations EXCEPT ![v] = row]
  BY <1>0, <1>1 DEF Applied, ValidationsOK
<1> HIDE DEF op, Ops
<1>6. Append(validations[v].applied, op) \in Seq(Ops)
  BY <1>2, <1>4
<1>7. row \in ValidationRows /\ row.submittedBy = validations[v].submittedBy
  BY <1>3, <1>6 DEF ValidationRows, Ops
<1> HIDE DEF row
<1>8. QED  BY <1>0, <1>1, <1>5, <1>7, ValidationEdit

\* Noting that an approval ended without carrying its operation out.
LEMMA CarriesOutNothingKeeps ==
    ASSUME IInv, NEW r \in Requests, CarriesOutNothing(r)
    PROVE  ValidationsOK' /\ KeepsSubmitters
<1> DEFINE v == local[r].val
           row == [validations[v] EXCEPT !.failed = TRUE]
<1>0. HandlersOK /\ ValidationsOK
  BY IInvParts
<1>1. CASE Deciding(r, {"approve"})
  <2>1. v \in DOMAIN validations
    BY <1>0, <1>1, HandlerFacts DEF HandlerInv, HoldsRequest, Deciding
  <2>2. validations[v] \in ValidationRows
    BY <1>0, <2>1 DEF ValidationsOK
  <2>3. row \in ValidationRows /\ row.submittedBy = validations[v].submittedBy
    BY <2>2 DEF ValidationRows
  <2>4. validations' = [validations EXCEPT ![v] = row]
    BY <1>0, <1>1, <2>1 DEF CarriesOutNothing, ValidationsOK
  <2> HIDE DEF row
  <2>5. QED  BY <1>0, <2>1, <2>3, <2>4, ValidationEdit
<1>2. CASE ~Deciding(r, {"approve"})
  BY <1>0, <1>2, UnchangedKeeps DEF CarriesOutNothing
<1>3. QED  BY <1>1, <1>2

\* Carrying an approved archive out keeps the invariant.
LEMMA DecideArchiveInvariant ==
    ASSUME IInv, NEW r \in Requests, DecideArchive(r) PROVE IInv'
<1>0. HandlersOK /\ ItemOK /\ LedgerOK /\ ValidationsOK /\ faults \in 0..MaxFaults
  BY IInvParts
<1>1. Finish(r) /\ UNCHANGED <<movements, faults>> /\ pc[r] = "decide" /\ Applied(r)
  BY DEF DecideArchive, Deciding
<1>2. item' \in ItemRows /\ item'.currentQuantity = item.currentQuantity
      /\ item'.pendingValidationAction = NoAction
  BY <1>0 DEF DecideArchive, Cleared, ItemOK, ItemRows, ValidationStatuses, NoPayload,
              Payloads, MovementTypes
<1>3. ItemOK'
  BY <1>0, <1>2 DEF ItemOK, QuantityNeverNegative, SoundPending
<1>4. QED  BY <1>0, <1>1, <1>3, AppliedKeepsValidations, UnchangedKeeps, FinishInvariant

\* Carrying an approved operation out keeps it, the payload read being sound.
LEMMA DecideStockInvariant ==
    ASSUME IInv, NEW r \in Requests, DecideStock(r) PROVE IInv'
<1> DEFINE h == local[r]
           p == h.snap.pendingValidationPayload
           next == item.currentQuantity + (IF p.positive THEN p.quantity ELSE -p.quantity)
           before == IF p.positive THEN next - p.quantity ELSE next + p.quantity
           performer == validations[h.val].submittedBy
           m == Movement(p.type, p.quantity, before, next, Len(movements), p.unitCost,
                         performer, h.by)
<1>0. HandlersOK /\ ItemOK /\ LedgerOK /\ ValidationsOK /\ faults \in 0..MaxFaults
  BY IInvParts
<1>1. pc[r] = "decide"
  BY DEF DecideStock, QuantityBefore, Deciding
<1>2. CASE p.positive \/ item.currentQuantity >= p.quantity
  <2>1. /\ item' = [Cleared(item) EXCEPT !.currentQuantity = next]
        /\ Record(m) /\ Applied(r) /\ Finish(r) /\ UNCHANGED faults
    BY <1>2 DEF DecideStock, QuantityBefore
  <2>2. p.quantity \in Nat /\ p.positive \in BOOLEAN /\ p.type \in MovementTypes
        /\ p.unitCost \in Nat
    BY <1>0, HandlerFacts DEF Payloads
  <2>3. item.currentQuantity \in Int /\ item.currentQuantity >= 0 /\ Len(movements) \in Nat
    BY <1>0 DEF ItemOK, ItemRows, QuantityNeverNegative, LedgerOK
  <2>4. next \in Int /\ next >= 0 /\ before \in Int
    BY <1>2, <2>2, <2>3
  <2>5. h.by \in Users /\ h.val \in DOMAIN validations /\ performer # h.by
    BY <1>0, <1>1, HandlerFacts DEF HandlerInv, HoldsRequest, Steps
  <2>6. performer \in Users
    <3>1. validations[h.val] \in ValidationRows
      BY <1>0, <2>5 DEF ValidationsOK
    <3>2. QED  BY <3>1 DEF ValidationRows
  <2> HIDE DEF next, before, performer
  <2>7. item' \in ItemRows /\ item'.currentQuantity = next
        /\ item'.pendingValidationAction = NoAction
    BY <1>0, <2>1, <2>4 DEF Cleared, ItemOK, ItemRows, ValidationStatuses, NoPayload,
                            Payloads, MovementTypes
  <2>8. ItemOK'
    BY <2>4, <2>7 DEF ItemOK, QuantityNeverNegative, SoundPending
  <2>9. m \in MovementRows /\ m.performedBy = performer /\ m.approvedBy = h.by
    BY <2>2, <2>3, <2>4, <2>5, <2>6 DEF Movement, MovementRows
  <2> HIDE DEF m
  <2>10. LedgerOK'
    BY <1>0, <2>1, <2>5, <2>9, RecordKeepsLedger
  <2>11. QED
    BY <1>0, <1>1, <2>1, <2>8, <2>10, AppliedKeepsValidations, FinishInvariant
<1>3. CASE ~(p.positive \/ item.currentQuantity >= p.quantity)
  <2>1. CarriesOutNothing(r) /\ Finish(r) /\ UNCHANGED <<item, movements, faults>>
    BY <1>3 DEF DecideStock
  <2>2. QED  BY <1>0, <2>1, CarriesOutNothingKeeps, UnchangedKeeps, FinishInvariant
<1>4. QED  BY <1>2, <1>3

\* Carrying a refusal out keeps the invariant.
LEMMA DecideRefusalInvariant ==
    ASSUME IInv, NEW r \in Requests, DecideRefusal(r) PROVE IInv'
<1>0. HandlersOK /\ ItemOK /\ LedgerOK /\ ValidationsOK /\ faults \in 0..MaxFaults
  BY IInvParts
<1>1. Finish(r) /\ UNCHANGED <<movements, validations, faults>>
  BY DEF DecideRefusal
<1>2. Resulting(local[r].call) \in ValidationStatuses
  BY DEF Resulting, ValidationStatuses
<1>3. ItemOK'
  BY <1>0, <1>2 DEF DecideRefusal, ItemOK, ItemRows, QuantityNeverNegative, SoundPending
<1>4. QED  BY <1>0, <1>1, <1>3, UnchangedKeeps, FinishInvariant

\* The death of a handler keeps the invariant.
LEMMA FailInvariant ==
    ASSUME IInv, NEW r \in Requests, Fail(r) PROVE IInv'
<1>0. ItemOK /\ LedgerOK /\ ValidationsOK /\ faults \in 0..MaxFaults
  BY IInvParts
<1>1. Finish(r) /\ CarriesOutNothing(r) /\ UNCHANGED <<item, movements>>
  BY DEF Fail
<1>2. faults' \in 0..MaxFaults
  BY <1>0 DEF Fail
<1>3. ValidationsOK' /\ KeepsSubmitters
  BY <1>1, CarriesOutNothingKeeps
<1>4. QED  BY <1>0, <1>1, <1>2, <1>3, UnchangedKeeps, FinishInvariant

\* Every step keeps the invariant.
LEMMA NextInvariant == IInv /\ [Next]_vars => IInv'
<1> SUFFICES ASSUME IInv, [Next]_vars PROVE IInv'
  OBVIOUS
<1>1. CASE UNCHANGED vars
  BY <1>1 DEF vars, IInv, TypeOK, QuantityNeverNegative, SensitiveMovementsAreApproved,
              SoundPending, HandlerInv, SoundHandler, AppliesRoutine, HasUser, HasAction,
              HoldsRequest
<1>2. ASSUME NEW r \in Requests, Start(r) PROVE IInv'
  <2>1. PICK step, h : FitStart(step, h) /\ Begin(r, step, h)
    BY <1>2, StartFit DEF IInv
  <2>2. QED  BY <2>1, BeginInvariant
<1>3. ASSUME NEW r \in Requests, Step(r) PROVE IInv'
  BY <1>3, RecountInvariant, ApplyEntryInvariant, ApplyExitInvariant, ApplyAdjustmentInvariant,
     ApplyTransferInvariant, ApplyArchiveInvariant, ApplyUpdateInvariant, SubmitFindInvariant,
     SubmitInsertInvariant, SubmitMarkInvariant, ReviewFindInvariant, ReviewUpdateInvariant,
     DecideArchiveInvariant, DecideStockInvariant, DecideRefusalInvariant
  DEF Step
<1>4. ASSUME NEW r \in Requests, Fail(r) PROVE IInv'
  BY <1>4, FailInvariant
<1>5. QED  BY <1>1, <1>2, <1>3, <1>4 DEF Next

\* The strengthened invariant holds throughout every behaviour of StockItemsService.
THEOREM Invariance == Spec => []IInv
<1>1. QED  BY InitInvariant, NextInvariant, PTL DEF Spec

\* Every row and every handler in memory keeps its shape in every behaviour.
THEOREM TypeCorrect == Spec => []TypeOK
<1>1. IInv => TypeOK  BY DEF IInv
<1>2. QED  BY <1>1, Invariance, PTL

\* The quantity column never goes negative, however many handlers overlap.
THEOREM StockSafe == Spec => []QuantityNeverNegative
<1>1. IInv => QuantityNeverNegative  BY DEF IInv
<1>2. QED  BY <1>1, Invariance, PTL

\* A sensitive movement is recorded with an approver who is not its performer.
THEOREM FourEyes == Spec => []SensitiveMovementsAreApproved
<1>1. IInv => SensitiveMovementsAreApproved  BY DEF IInv
<1>2. QED  BY <1>1, Invariance, PTL

-----------------------------------------------------------------------------
(***************************************************************************)
(* Action properties.                                                      *)
(***************************************************************************)
Explained ==
    LET change == item'.currentQuantity - item.currentQuantity
    IN  \/ movements' = movements /\ change = 0
        \/ /\ Len(movements') = Len(movements) + 1
           /\ change \in SignedQuantities(Latest)
           /\ Latest.type # "TRANSFERT" =>
                Latest.after = item'.currentQuantity /\ change # 0

Authorised ==
    ~item.isActive /\ item'.currentQuantity < item.currentQuantity
        => Latest.approvedBy # NoUser

\* Record makes the movement the latest one.
LEMMA RecordedLast ==
    ASSUME movements \in Seq(MovementRows), NEW m \in MovementRows, Record(m)
    PROVE  Len(movements') = Len(movements) + 1 /\ Latest = m
  BY DEF Record, Latest

\* A step that leaves the quantity and the ledger alone explains itself.
LEMMA SameQuantity ==
    ASSUME IInv, item'.currentQuantity = item.currentQuantity, movements' = movements
    PROVE  Explained /\ Authorised
<1>1. item.currentQuantity \in Int
  BY DEF IInv, TypeOK, ItemRows
<1>2. QED  BY <1>1 DEF Explained, Authorised

\* Adding a nonzero quantity changes a quantity by just that.
LEMMA Shift ==
    ASSUME NEW a \in Int, NEW d \in Int, d # 0
    PROVE  /\ a + d \in Int /\ a + d # a /\ (a + d) - a = d
           /\ (a + d < a => d < 0)
  OBVIOUS

\* Every step of a handler explains and authorises the change it makes.
LEMMA StepExplained ==
    ASSUME IInv, NEW r \in Requests, Step(r)
    PROVE  Explained /\ Authorised
<1> DEFINE h == local[r]
<1>0. HandlersOK /\ ItemOK /\ LedgerOK /\ ValidationsOK
  BY IInvParts
<1>1. /\ item.currentQuantity \in Int /\ item \in ItemRows
      /\ movements \in Seq(MovementRows) /\ Len(movements) \in Nat
  BY <1>0 DEF ItemOK, LedgerOK, ItemRows
<1>2. ASSUME NEW m \in MovementRows, Record(m), NEW n \in Int,
             item'.currentQuantity = n, n # item.currentQuantity, m.after = n,
             n - item.currentQuantity \in SignedQuantities(m),
             ~item.isActive /\ n < item.currentQuantity => m.approvedBy # NoUser
      PROVE  Explained /\ Authorised
  <2>1. Len(movements') = Len(movements) + 1 /\ Latest = m
    BY <1>1, <1>2, RecordedLast
  <2>2. QED  BY <1>1, <1>2, <2>1 DEF Explained, Authorised
<1>3. CASE ApplyEntry(r)
  <2> DEFINE next == item.currentQuantity + h.delta
             m == Movement("ENTREE", h.delta, h.snap.currentQuantity, next, h.read, h.snap.unitCost,
                           h.by, NoUser)
  <2>1. pc[r] = "apply" /\ h.call = "entry" /\ SetQuantity(next) /\ Record(m)
    BY <1>3 DEF ApplyEntry, Applying
  <2>2. h.delta > 0 /\ h.delta \in Int /\ h.by \in Users /\ h.snap.currentQuantity \in Int
        /\ h.snap.unitCost \in Nat /\ h.read \in Nat
    BY <1>0, <2>1, HandlerFacts DEF HandlerInv, SoundHandler, Steps
  <2>3. next \in Int /\ next > item.currentQuantity /\ next - item.currentQuantity = h.delta
    BY <1>1, <2>2
  <2>4. item'.currentQuantity = next
    BY <1>1, <2>1 DEF SetQuantity, ItemRows
  <2> HIDE DEF next
  <2>5. m \in MovementRows /\ m.type = "ENTREE" /\ m.quantity = h.delta /\ m.after = next
    BY <2>2, <2>3 DEF Movement, MovementRows, MovementTypes
  <2> HIDE DEF m
  <2>6. SignedQuantities(m) = {h.delta}
    BY <2>5 DEF SignedQuantities
  <2>7. QED  BY <1>1, <1>2, <2>1, <2>3, <2>4, <2>5, <2>6
<1>4. CASE ApplyExit(r)
  <2> DEFINE q == -h.delta
             next == item.currentQuantity - q
             m == Movement("SORTIE", q, next + q, next, Len(movements), h.snap.unitCost,
                         h.by, NoUser)
  <2>1. pc[r] = "apply" /\ h.call = "exit"
    BY <1>4 DEF ApplyExit, Applying
  <2>2. CASE CanRemove(q)
    <3>1. SetQuantity(next) /\ Record(m)
      BY <1>4, <2>2 DEF ApplyExit
    <3>2. q > 0 /\ q \in Int /\ h.by \in Users /\ h.snap.unitCost \in Nat
      BY <1>0, <2>1, HandlerFacts DEF HandlerInv, SoundHandler, Steps
    <3> HIDE DEF q
    <3>3. next \in Int /\ next # item.currentQuantity /\ next - item.currentQuantity = -q
          /\ next + q \in Int
      BY <1>1, <3>2
    <3>4. item'.currentQuantity = next
      BY <1>1, <3>1 DEF SetQuantity, ItemRows
    <3> HIDE DEF next
    <3>5. m \in MovementRows /\ m.type = "SORTIE" /\ m.quantity = q /\ m.after = next
      BY <1>1, <3>2, <3>3 DEF Movement, MovementRows, MovementTypes
    <3> HIDE DEF m
    <3>6. SignedQuantities(m) = {-q}
      BY <3>5 DEF SignedQuantities
    <3>7. item.isActive
      BY <2>2 DEF CanRemove
    <3>8. QED  BY <1>2, <3>1, <3>3, <3>4, <3>5, <3>6, <3>7
  <2>3. CASE ~CanRemove(q)
    BY <1>4, <2>3, SameQuantity DEF ApplyExit, Conflict
  <2>4. QED  BY <2>2, <2>3
<1>5. CASE ApplyAdjustment(r)
  <2> DEFINE next == item.currentQuantity + h.delta
             m == Movement(h.type, Abs(h.delta), h.snap.currentQuantity, next, h.read,
                         h.snap.unitCost, h.by, NoUser)
  <2>1. pc[r] = "apply" /\ h.call \in {"adjust", "count"}
    BY <1>5 DEF ApplyAdjustment, Applying
  <2>2. CASE h.delta < 0 => CanRemove(-h.delta)
    <3>1. SetQuantity(next) /\ Record(m)
      BY <1>5, <2>2 DEF ApplyAdjustment
    <3>2. /\ h.delta # 0 /\ h.delta \in Int /\ h.by \in Users /\ h.snap.unitCost \in Nat
          /\ h.snap.currentQuantity \in Int /\ h.type \in MovementTypes /\ h.read \in Nat
          /\ h.type \in AdjustmentTypes(h.delta)
      BY <1>0, <2>1, HandlerFacts DEF HandlerInv, SoundHandler, Steps
    <3>3. next \in Int /\ next # item.currentQuantity /\ next - item.currentQuantity = h.delta
          /\ (next < item.currentQuantity => h.delta < 0)
      <4>1. item.currentQuantity \in Int /\ h.delta \in Int /\ h.delta # 0
        BY <1>1, <3>2
      <4>2. QED  BY ONLY <4>1, Shift
    <3>4. item'.currentQuantity = next
      BY <1>1, <3>1 DEF SetQuantity, ItemRows
    <3>5. h.delta < 0 => item.isActive
      BY <2>2 DEF CanRemove
    <3> HIDE DEF next
    <3>6. m \in MovementRows /\ m.type = h.type /\ m.quantity = Abs(h.delta) /\ m.after = next
      BY <3>2, <3>3, AbsType DEF Movement, MovementRows
    <3> HIDE DEF m
    <3>7. h.delta \in SignedQuantities(m)
      BY <3>2, <3>6 DEF SignedQuantities, AdjustmentTypes, Abs
    <3>8. QED  BY <1>2, <3>1, <3>3, <3>4, <3>5, <3>6, <3>7
  <2>3. CASE ~(h.delta < 0 => CanRemove(-h.delta))
    BY <1>5, <2>3, SameQuantity DEF ApplyAdjustment, Conflict
  <2>4. QED  BY <2>2, <2>3
<1>6. CASE ApplyTransfer(r)
  <2> DEFINE q == h.snap.currentQuantity
             m == Movement("TRANSFERT", q, q, q, h.read, 0, h.by, NoUser)
  <2>1. pc[r] = "apply" /\ Record(m) /\ item' = item
    BY <1>6 DEF ApplyTransfer, Applying
  <2>2. m \in MovementRows /\ m.type = "TRANSFERT"
    BY <1>0, <2>1, HandlerFacts DEF Steps, Movement, MovementRows, MovementTypes
  <2> HIDE DEF m
  <2>3. Len(movements') = Len(movements) + 1 /\ Latest = m
    BY <1>1, <2>1, <2>2, RecordedLast
  <2>4. QED
    BY <1>1, <2>1, <2>2, <2>3 DEF Explained, Authorised, SignedQuantities
<1>7. CASE DecideStock(r)
  <2> DEFINE p == h.snap.pendingValidationPayload
             next == item.currentQuantity + (IF p.positive THEN p.quantity ELSE -p.quantity)
             before == IF p.positive THEN next - p.quantity ELSE next + p.quantity
             performer == validations[h.val].submittedBy
             m == Movement(p.type, p.quantity, before, next, Len(movements), p.unitCost,
                         performer, h.by)
  <2>1. /\ pc[r] = "decide" /\ h.call = "approve"
        /\ h.snap.pendingValidationAction # "STOCK_ITEM_ARCHIVE"
    BY <1>7 DEF DecideStock, Deciding
  <2>2. CASE p.positive \/ item.currentQuantity >= p.quantity
    <3>1. item' = [Cleared(item) EXCEPT !.currentQuantity = next] /\ Record(m)
      BY <1>7, <2>2 DEF DecideStock, QuantityBefore
    <3>2. /\ p.quantity \in Nat /\ p.positive \in BOOLEAN /\ p.type \in MovementTypes
          /\ p.unitCost \in Nat
      BY <1>0, HandlerFacts DEF Payloads
    <3>3. SoundPayload(p)
      BY <1>0, <2>1, HandlerFacts DEF HandlerInv, HasAction, SoundHandler, SoundPending
    <3>4. /\ next \in Int /\ next # item.currentQuantity /\ before \in Int
          /\ next - item.currentQuantity = IF p.positive THEN p.quantity ELSE -p.quantity
      <4> DEFINE d == IF p.positive THEN p.quantity ELSE -p.quantity
      <4>1. item.currentQuantity \in Int /\ d \in Int /\ d # 0 /\ p.quantity \in Int
        BY <1>1, <3>2, <3>3 DEF SoundPayload
      <4> HIDE DEF d
      <4>2. item.currentQuantity + d # item.currentQuantity
            /\ (item.currentQuantity + d) - item.currentQuantity = d
            /\ item.currentQuantity + d \in Int
        BY <4>1, Shift
      <4>3. before \in Int
        BY <4>1, <4>2 DEF d
      <4>4. QED  BY <4>2, <4>3 DEF d
    <3>5. h.by \in Users /\ h.val \in DOMAIN validations
      BY <1>0, <2>1, HandlerFacts DEF HandlerInv, HoldsRequest, Steps
    <3>6. performer \in Users
      <4>1. validations[h.val] \in ValidationRows
        BY <1>0, <3>5 DEF ValidationsOK
      <4>2. QED  BY <4>1 DEF ValidationRows
    <3> HIDE DEF next, before, performer
    <3>7. item'.currentQuantity = next
      BY <1>1, <3>1 DEF Cleared, ItemRows
    <3>8. m \in MovementRows /\ m.type = p.type /\ m.quantity = p.quantity /\ m.after = next
          /\ m.approvedBy = h.by
      BY <1>1, <3>2, <3>4, <3>5, <3>6 DEF Movement, MovementRows
    <3> HIDE DEF m
    <3>9. next - item.currentQuantity \in SignedQuantities(m)
      BY <3>2, <3>3, <3>4, <3>8 DEF SignedQuantities, SoundPayload
    <3>10. m.approvedBy # NoUser
      BY <3>5, <3>8
    <3>11. QED  BY <1>2, <3>1, <3>4, <3>7, <3>8, <3>9, <3>10
  <2>3. CASE ~(p.positive \/ item.currentQuantity >= p.quantity)
    BY <1>7, <2>3, SameQuantity DEF DecideStock
  <2>4. QED  BY <2>2, <2>3
<1>8. CASE Recount(r) \/ SubmitFind(r) \/ SubmitInsert(r) \/ ReviewFind(r) \/ ReviewUpdate(r)
  BY <1>8, SameQuantity DEF Recount, SubmitFind, SubmitInsert, ReviewFind, ReviewUpdate
<1>9. CASE ApplyArchive(r) \/ ApplyUpdate(r) \/ SubmitMark(r) \/ DecideArchive(r)
           \/ DecideRefusal(r)
  <2>1. movements' = movements /\ item'.currentQuantity = item.currentQuantity
    BY <1>1, <1>9 DEF ApplyArchive, ApplyUpdate, SubmitMark, DecideArchive, DecideRefusal,
                      Cleared, ItemRows
  <2>2. QED  BY <2>1, SameQuantity
<1>10. QED
  BY <1>3, <1>4, <1>5, <1>6, <1>7, <1>8, <1>9 DEF Step

\* So does every step of the system.
LEMMA NextExplained == IInv /\ [Next]_vars => Explained /\ Authorised
<1> SUFFICES ASSUME IInv, [Next]_vars PROVE Explained /\ Authorised
  OBVIOUS
<1>1. CASE UNCHANGED vars
  BY <1>1, SameQuantity DEF vars
<1>2. ASSUME NEW r \in Requests, Start(r) PROVE Explained /\ Authorised
  <2>1. PICK step, h : Begin(r, step, h)
    BY <1>2, StartFit DEF IInv
  <2>2. QED  BY <2>1, SameQuantity DEF Begin
<1>3. ASSUME NEW r \in Requests, Fail(r) PROVE Explained /\ Authorised
  BY <1>3, SameQuantity DEF Fail
<1>4. QED  BY <1>1, <1>2, <1>3, StepExplained DEF Next

\* A change of the quantity always comes with the one movement that states it.
THEOREM LedgerExplains == Spec => EveryChangeIsRecorded
<1>1. IInv /\ [Next]_vars => [Explained]_vars
  BY NextExplained
<1>2. QED  BY <1>1, Invariance, PTL DEF Spec, EveryChangeIsRecorded, Explained

\* Once archived, an item loses stock only through an approval.
THEOREM ArchivedStockIsGuarded == Spec => ArchivedItemsLoseStockByApproval
<1>1. IInv /\ [Next]_vars => [Authorised]_vars
  BY NextExplained
<1>2. QED  BY <1>1, Invariance, PTL DEF Spec, ArchivedItemsLoseStockByApproval, Authorised

\* What a movement on an archived item needs.
Timely ==
    movements' # movements /\ ~item.isActive =>
        \/ Latest.approvedBy # NoUser
        \/ /\ item'.currentQuantity >= item.currentQuantity
           /\ \E r \in Requests :
                 pc[r] = "apply" /\ pc'[r] = "done" /\ local[r].snap.isActive

\* A handler that applies was allowed to by the item it read; what removes stock
\* directly tests the item again.
LEMMA StepTimely ==
    ASSUME IInv, NEW r \in Requests, Step(r)
    PROVE  Timely
<1> DEFINE h == local[r]
<1>0. HandlersOK /\ ItemOK /\ LedgerOK /\ ValidationsOK
  BY IInvParts
<1>1. /\ item.currentQuantity \in Int /\ item \in ItemRows
      /\ movements \in Seq(MovementRows) /\ Len(movements) \in Nat
  BY <1>0 DEF ItemOK, LedgerOK, ItemRows
<1>2. ASSUME pc[r] = "apply", h.call # "update", Finish(r),
             item'.currentQuantity >= item.currentQuantity
      PROVE  Timely
  <2>1. h.snap.isActive
    BY <1>0, <1>2, HandlerFacts DEF HandlerInv, AppliesRoutine, Routine
  <2>2. pc'[r] = "done"
    BY <1>0, <1>2 DEF Finish, HandlersOK
  <2>3. QED  BY <1>2, <2>1, <2>2 DEF Timely
<1>3. CASE ApplyEntry(r)
  <2>1. /\ pc[r] = "apply" /\ h.call = "entry" /\ Finish(r)
        /\ SetQuantity(item.currentQuantity + h.delta)
    BY <1>3 DEF ApplyEntry, Applying
  <2>2. h.delta > 0 /\ h.delta \in Int
    BY <1>0, <2>1, HandlerFacts DEF HandlerInv, SoundHandler
  <2>3. item'.currentQuantity >= item.currentQuantity
    BY <1>1, <2>1, <2>2 DEF SetQuantity, ItemRows
  <2>4. QED  BY <1>2, <2>1, <2>3
<1>4. CASE ApplyExit(r)
  BY <1>4 DEF ApplyExit, CanRemove, Conflict, Timely
<1>5. CASE ApplyAdjustment(r)
  <2>1. pc[r] = "apply" /\ h.call \in {"adjust", "count"} /\ h.delta \in Int
    BY <1>0, <1>5, HandlerFacts DEF ApplyAdjustment, Applying
  <2>2. CASE h.delta < 0
    BY <1>5, <2>2 DEF ApplyAdjustment, CanRemove, Conflict, Timely
  <2>3. CASE ~(h.delta < 0)
    <3>1. SetQuantity(item.currentQuantity + h.delta) /\ Finish(r)
      BY <1>5, <2>3 DEF ApplyAdjustment
    <3>2. item'.currentQuantity >= item.currentQuantity
      BY <1>1, <2>1, <2>3, <3>1 DEF SetQuantity, ItemRows
    <3>3. QED  BY <1>2, <2>1, <3>1, <3>2
  <2>4. QED  BY <2>2, <2>3
<1>6. CASE ApplyTransfer(r)
  <2>1. pc[r] = "apply" /\ h.call = "transfer" /\ Finish(r) /\ item' = item
    BY <1>6 DEF ApplyTransfer, Applying
  <2>2. QED  BY <1>1, <1>2, <2>1
<1>7. CASE DecideStock(r)
  <2> DEFINE p == h.snap.pendingValidationPayload
             next == item.currentQuantity + (IF p.positive THEN p.quantity ELSE -p.quantity)
             m == Movement(p.type, p.quantity, QuantityBefore(p, next), next, Len(movements),
                           p.unitCost, validations[h.val].submittedBy, h.by)
  <2>1. CASE p.positive \/ item.currentQuantity >= p.quantity
    <3>1. Record(m) /\ pc[r] = "decide"
      BY <1>7, <2>1 DEF DecideStock, Deciding
    <3>2. m.approvedBy = h.by /\ h.by \in Users
      BY <1>0, <3>1, HandlerFacts DEF Movement, Steps
    <3> HIDE DEF m
    <3>3. movements' = Append(movements, m)
      BY <3>1 DEF Record
    <3>4. Latest = m
      BY <1>1, <3>3 DEF Latest
    <3>5. QED  BY <3>2, <3>4 DEF Timely
  <2>2. CASE ~(p.positive \/ item.currentQuantity >= p.quantity)
    BY <1>7, <2>2 DEF DecideStock, Timely
  <2>3. QED  BY <2>1, <2>2
<1>8. CASE \/ Recount(r) \/ SubmitFind(r) \/ SubmitInsert(r) \/ ReviewFind(r) \/ ReviewUpdate(r)
           \/ ApplyArchive(r) \/ ApplyUpdate(r) \/ SubmitMark(r) \/ DecideArchive(r)
           \/ DecideRefusal(r)
  BY <1>8 DEF Recount, SubmitFind, SubmitInsert, ReviewFind, ReviewUpdate, ApplyArchive,
              ApplyUpdate, SubmitMark, DecideArchive, DecideRefusal, Timely
<1>9. QED  BY <1>3, <1>4, <1>5, <1>6, <1>7, <1>8 DEF Step

LEMMA NextTimely == IInv /\ [Next]_vars => Timely
<1> SUFFICES ASSUME IInv, [Next]_vars PROVE Timely
  OBVIOUS
<1>1. CASE UNCHANGED vars
  BY <1>1 DEF vars, Timely
<1>2. ASSUME NEW r \in Requests, Start(r) PROVE Timely
  <2>1. PICK step, h : Begin(r, step, h)
    BY <1>2, StartFit DEF IInv
  <2>2. QED  BY <2>1 DEF Begin, Timely
<1>3. ASSUME NEW r \in Requests, Fail(r) PROVE Timely
  BY <1>3 DEF Fail, Timely
<1>4. QED  BY <1>1, <1>2, <1>3, StepTimely DEF Next

\* Once archived, an item is moved only by an approval, or by a handler that read
\* it before, and that takes nothing out.
THEOREM ArchivedStockMovesLate == Spec => OnlyLateMovementsOnceArchived
<1>1. IInv /\ [Next]_vars => [Timely]_vars
  BY NextTimely
<1>2. QED  BY <1>1, Invariance, PTL DEF Spec, OnlyLateMovementsOnceArchived, Timely

-----------------------------------------------------------------------------
(***************************************************************************)
(* The ledger can be read back, under any overlap.                         *)
(***************************************************************************)

\* What a handler read first is a quantity the ledger shows.
ReadsLedger(r) ==
    pc[r] \in Steps =>
        /\ local[r].read <= Len(movements)
        /\ Leaves(local[r].read, local[r].snap.currentQuantity)

LedgerInv ==
    /\ LedgerTellsQuantities
    /\ \A r \in Requests : ReadsLedger(r)

\* The row a movement makes of the ledger.
LEMMA Recorded ==
    ASSUME movements \in Seq(MovementRows), NEW m \in MovementRows, Record(m)
    PROVE  /\ Len(movements) \in Nat
           /\ Len(movements') = Len(movements) + 1
           /\ DOMAIN movements = 1..Len(movements)
           /\ DOMAIN movements' = 1..(Len(movements) + 1)
           /\ movements'[Len(movements) + 1] = m
           /\ \A i \in 1..Len(movements) : movements'[i] = movements[i]
  BY DEF Record

\* A new movement changes nothing of what those before it left.
LEMMA LeavesKept ==
    ASSUME movements \in Seq(MovementRows), NEW m \in MovementRows, Record(m),
           NEW n \in 0..Len(movements), NEW q, Leaves(n, q)
    PROVE  Leaves(n, q)'
<1>1. \A i \in 1..n : movements'[i] = movements[i]
  BY Recorded
<1>2. CASE q = 0 /\ \A i \in 1..n : movements[i].type = "TRANSFERT"
  BY <1>1, <1>2 DEF Leaves
<1>3. CASE ~(q = 0 /\ \A i \in 1..n : movements[i].type = "TRANSFERT")
  <2>1. PICK i \in 1..n : /\ movements[i].type # "TRANSFERT"
                          /\ movements[i].after = q
                          /\ \A j \in (i + 1)..n : movements[j].type = "TRANSFERT"
    BY <1>3 DEF Leaves
  <2>2. \A j \in (i + 1)..n : j \in 1..n
    BY Recorded
  <2>3. QED  BY <1>1, <2>1, <2>2 DEF Leaves
<1>4. QED  BY <1>2, <1>3

\* What the new movement leaves.
LEMMA LeavesLatest ==
    ASSUME movements \in Seq(MovementRows), NEW m \in MovementRows, Record(m)
    PROVE  /\ m.type # "TRANSFERT" => Leaves(Len(movements), m.after)'
           /\ \A q : m.type = "TRANSFERT" /\ Leaves(Len(movements), q)
                        => Leaves(Len(movements), q)'
<1>n. PICK n : n = Len(movements)
  OBVIOUS
<1>1. /\ n \in Nat /\ Len(movements') = n + 1 /\ movements'[n + 1] = m
      /\ \A i \in 1..n : movements'[i] = movements[i]
  BY <1>n, Recorded
<1>2. ASSUME m.type # "TRANSFERT" PROVE Leaves(n + 1, m.after)'
  <2>1. n + 1 \in 1..(n + 1) /\ (n + 1 + 1)..(n + 1) = {}
    BY <1>1
  <2>2. QED  BY <1>1, <1>2, <2>1 DEF Leaves
<1>3. ASSUME NEW q, m.type = "TRANSFERT", Leaves(n, q) PROVE Leaves(n + 1, q)'
  <2>1. \A i \in 1..(n + 1) : i \in 1..n \/ i = n + 1
    BY <1>1
  <2>2. CASE q = 0 /\ \A i \in 1..n : movements[i].type = "TRANSFERT"
    BY <1>1, <1>3, <2>1, <2>2 DEF Leaves
  <2>3. CASE ~(q = 0 /\ \A i \in 1..n : movements[i].type = "TRANSFERT")
    <3>1. PICK i \in 1..n : /\ movements[i].type # "TRANSFERT"
                            /\ movements[i].after = q
                            /\ \A j \in (i + 1)..n : movements[j].type = "TRANSFERT"
      BY <1>3, <2>3 DEF Leaves
    <3>2. i \in 1..(n + 1)
      BY <1>1
    <3>3. \A j \in (i + 1)..(n + 1) : (j \in (i + 1)..n /\ j \in 1..n) \/ j = n + 1
      BY <1>1
    <3>4. \A j \in (i + 1)..(n + 1) : movements'[j].type = "TRANSFERT"
      BY <1>1, <1>3, <3>1, <3>3
    <3>5. QED  BY <1>1, <3>1, <3>2, <3>4 DEF Leaves
  <2>4. QED  BY <2>2, <2>3
<1>4. QED  BY <1>n, <1>1, <1>2, <1>3

\* A movement that starts from a quantity the ledger shows and states its change.
LEMMA LedgerGrows ==
    ASSUME LedgerTellsQuantities, movements \in Seq(MovementRows),
           NEW m \in MovementRows, Record(m),
           m.read <= Len(movements), Leaves(m.read, m.before),
           m.type = "SORTIE" \/ m.approvedBy # NoUser => m.read = Len(movements),
           m.type # "TRANSFERT" =>
               /\ m.after = item'.currentQuantity
               /\ \E change \in SignedQuantities(m) : m.after - change = item.currentQuantity,
           m.type = "TRANSFERT" => item'.currentQuantity = item.currentQuantity
    PROVE  LedgerTellsQuantities'
<1>n. PICK n : n = Len(movements)
  OBVIOUS
<1>1. /\ n \in Nat /\ Len(movements') = n + 1 /\ movements'[n + 1] = m
      /\ DOMAIN movements = 1..n /\ DOMAIN movements' = 1..(n + 1)
      /\ \A i \in 1..n : movements'[i] = movements[i]
  BY <1>n, Recorded
<1>2. Leaves(n, item.currentQuantity)
  BY <1>n DEF LedgerTellsQuantities
<1>3. \A q : \A k \in 0..n : Leaves(k, q) => Leaves(k, q)'
  BY <1>n, LeavesKept
<1>4. Leaves(Len(movements), item.currentQuantity)'
  <2>1. PICK q : q = item'.currentQuantity
    OBVIOUS
  <2>2. CASE m.type = "TRANSFERT"
    <3>1. Leaves(Len(movements), q)
      BY <1>n, <1>2, <2>1, <2>2
    <3>2. Leaves(Len(movements), q)'
      BY <2>2, <3>1, LeavesLatest
    <3>3. QED  BY <2>1, <3>2
  <2>3. CASE m.type # "TRANSFERT"
    <3>1. Leaves(Len(movements), m.after)' /\ m.after = q
      BY <2>1, <2>3, LeavesLatest
    <3>2. QED  BY <2>1, <3>1
  <2>4. QED  BY <2>2, <2>3
<1>5. ASSUME NEW i \in 1..n, NEW c, c = movements[i]
      PROVE  /\ c.read < i
             /\ Leaves(c.read, c.before)'
             /\ c.type = "SORTIE" \/ c.approvedBy # NoUser => c.read = i - 1
             /\ c.type # "TRANSFERT" =>
                   \E change \in SignedQuantities(c) : Leaves(i - 1, c.after - change)'
  <2>1. c \in MovementRows
    BY <1>1, <1>5
  <2>2. c.read \in Nat
    BY <2>1 DEF MovementRows
  <2>3. /\ c.read < i
        /\ Leaves(c.read, c.before)
        /\ c.type = "SORTIE" \/ c.approvedBy # NoUser => c.read = i - 1
        /\ c.type # "TRANSFERT" =>
              \E change \in SignedQuantities(c) : Leaves(i - 1, c.after - change)
    BY <1>1, <1>5 DEF LedgerTellsQuantities
  <2>4. c.read \in 0..n /\ i - 1 \in 0..n
    BY <1>1, <2>2, <2>3
  <2>5. Leaves(c.read, c.before)'
    BY <1>3, <2>3, <2>4
  <2>6. ASSUME c.type # "TRANSFERT"
        PROVE  \E change \in SignedQuantities(c) : Leaves(i - 1, c.after - change)'
    <3>1. PICK change \in SignedQuantities(c) : Leaves(i - 1, c.after - change)
      BY <2>3, <2>6
    <3>2. Leaves(i - 1, c.after - change)'
      BY <1>3, <2>4, <3>1
    <3>3. QED  BY <3>2
  <2>7. QED  BY <2>3, <2>5, <2>6
<1>6. /\ m.read < n + 1
      /\ Leaves(m.read, m.before)'
      /\ m.type = "SORTIE" \/ m.approvedBy # NoUser => m.read = (n + 1) - 1
      /\ m.type # "TRANSFERT" =>
            \E change \in SignedQuantities(m) : Leaves((n + 1) - 1, m.after - change)'
  <2>1. m.read \in Nat
    BY DEF MovementRows
  <2>2. m.read \in 0..n /\ m.read < n + 1 /\ (n + 1) - 1 = n /\ n \in 0..n
    BY <1>n, <1>1, <2>1
  <2>3. Leaves(m.read, m.before)'
    BY <1>3, <2>2
  <2>4. ASSUME m.type # "TRANSFERT"
        PROVE  \E change \in SignedQuantities(m) : Leaves(n, m.after - change)'
    <3>1. PICK change \in SignedQuantities(m) : m.after - change = item.currentQuantity
      BY <2>4
    <3>2. PICK q : q = item.currentQuantity
      OBVIOUS
    <3>3. Leaves(n, q)'
      BY <1>2, <1>3, <2>2, <3>2
    <3>4. QED  BY <3>1, <3>2, <3>3
  <2>5. QED  BY <1>n, <2>2, <2>3, <2>4
<1>7. ASSUME NEW i \in DOMAIN movements'
      PROVE  LET c == movements'[i]
             IN  /\ c.read < i
                 /\ Leaves(movements[i].read, movements[i].before)'
                 /\ c.type = "SORTIE" \/ c.approvedBy # NoUser => c.read = i - 1
                 /\ c.type # "TRANSFERT" =>
                       \E change \in SignedQuantities(c) :
                          Leaves(i - 1, movements[i].after - change)'
  <2>1. PICK c : c = movements'[i]
    OBVIOUS
  <2>2. CASE i \in 1..n
    <3>1. c = movements[i]
      BY <1>1, <2>1, <2>2
    <3>2. /\ c.read < i
          /\ Leaves(c.read, c.before)'
          /\ c.type = "SORTIE" \/ c.approvedBy # NoUser => c.read = i - 1
          /\ c.type # "TRANSFERT" =>
                \E change \in SignedQuantities(c) : Leaves(i - 1, c.after - change)'
      BY <1>5, <2>2, <3>1
    <3>3. QED  BY <2>1, <3>2
  <2>3. CASE i = n + 1
    <3>1. c = m
      BY <1>1, <2>1, <2>3
    <3>2. QED  BY <1>6, <2>1, <2>3, <3>1
  <2>4. QED  BY <1>1, <2>2, <2>3
<1>8. QED  BY <1>4, <1>7 DEF LedgerTellsQuantities, SignedQuantities

\* A step of handler r that records movement m and ends.
LEMMA RecordsLedger ==
    ASSUME IInv, LedgerInv, NEW r \in Requests, Finish(r),
           NEW m \in MovementRows, Record(m),
           m.read <= Len(movements), Leaves(m.read, m.before),
           m.type = "SORTIE" \/ m.approvedBy # NoUser => m.read = Len(movements),
           m.type # "TRANSFERT" =>
               /\ m.after = item'.currentQuantity
               /\ \E change \in SignedQuantities(m) : m.after - change = item.currentQuantity,
           m.type = "TRANSFERT" => item'.currentQuantity = item.currentQuantity
    PROVE  LedgerInv'
<1>1. movements \in Seq(MovementRows) /\ HandlersOK
  BY IInvParts DEF LedgerOK
<1>2. LedgerTellsQuantities'
  BY <1>1, LedgerGrows DEF LedgerInv
<1>3. ASSUME NEW s \in Requests PROVE ReadsLedger(s)'
  <2>1. CASE s = r
    BY <1>1, <2>1 DEF Finish, HandlersOK, ReadsLedger, Steps
  <2>2. CASE s # r
    <3>1. pc'[s] = pc[s] /\ local'[s] = local[s] /\ local[s] \in Locals
      BY <1>1, <2>2 DEF Finish, HandlersOK
    <3>2. PICK n, q : n = local[s].read /\ q = local[s].snap.currentQuantity
      OBVIOUS
    <3>3. n \in Nat /\ Len(movements) \in Nat /\ Len(movements') = Len(movements) + 1
      BY <1>1, <3>1, <3>2, Recorded DEF Locals
    <3>4. CASE pc[s] \in Steps
      <4>1. n <= Len(movements) /\ Leaves(n, q)
        BY <3>2, <3>4 DEF LedgerInv, ReadsLedger
      <4>2. Leaves(n, q)'
        BY <1>1, <3>3, <4>1, LeavesKept
      <4>3. QED  BY <3>1, <3>2, <3>3, <4>1, <4>2 DEF ReadsLedger
    <3>5. QED  BY <3>1, <3>4 DEF ReadsLedger
  <2>3. QED  BY <2>1, <2>2
<1>4. QED  BY <1>2, <1>3 DEF LedgerInv

\* A ledger that is left alone tells what it told.
LEMMA SameLedger ==
    ASSUME movements' = movements, item'.currentQuantity = item.currentQuantity
    PROVE  /\ \A n, q : Leaves(n, q) <=> Leaves(n, q)'
           /\ LedgerTellsQuantities => LedgerTellsQuantities'
<1>1. ASSUME NEW n, NEW q PROVE Leaves(n, q) <=> Leaves(n, q)'
  BY DEF Leaves
<1>2. ASSUME LedgerTellsQuantities PROVE LedgerTellsQuantities'
  <2>1. PICK n, q : n = Len(movements) /\ q = item.currentQuantity
    OBVIOUS
  <2>2. Leaves(n, q)'
    BY <1>1, <1>2, <2>1 DEF LedgerTellsQuantities
  <2>3. Leaves(Len(movements), item.currentQuantity)'
    BY <2>1, <2>2
  <2>4. ASSUME NEW i \in DOMAIN movements, NEW c, c = movements[i]
        PROVE  /\ c.read < i
               /\ Leaves(c.read, c.before)'
               /\ c.type = "SORTIE" \/ c.approvedBy # NoUser => c.read = i - 1
               /\ c.type # "TRANSFERT" =>
                     \E change \in SignedQuantities(c) : Leaves(i - 1, c.after - change)'
    <3>1. /\ c.read < i
          /\ Leaves(c.read, c.before)
          /\ c.type = "SORTIE" \/ c.approvedBy # NoUser => c.read = i - 1
          /\ c.type # "TRANSFERT" =>
                \E change \in SignedQuantities(c) : Leaves(i - 1, c.after - change)
      BY <1>2, <2>4 DEF LedgerTellsQuantities
    <3>2. /\ Leaves(c.read, c.before)'
          /\ \A change : Leaves(i - 1, c.after - change) => Leaves(i - 1, c.after - change)'
      BY <1>1, <3>1
    <3>3. QED  BY <3>1, <3>2
  <2>5. QED  BY <2>3, <2>4 DEF LedgerTellsQuantities, SignedQuantities
<1>3. QED  BY <1>1, <1>2

\* A step of handler r that moves no stock, and that keeps what r read first, ends
\* it, or reads the item again.
LEMMA KeepsLedger ==
    ASSUME IInv, LedgerInv, NEW r \in Requests,
           movements' = movements, item'.currentQuantity = item.currentQuantity,
           \A s \in Requests : s # r => pc'[s] = pc[s] /\ local'[s] = local[s],
           pc'[r] \in Steps =>
               \/ /\ pc[r] \in Steps
                  /\ local'[r].snap = local[r].snap /\ local'[r].read = local[r].read
               \/ local'[r].snap = item /\ local'[r].read = Len(movements)
    PROVE  LedgerInv'
<1>1. movements \in Seq(MovementRows) /\ Len(movements) \in Nat
  BY IInvParts DEF LedgerOK
<1>2. \A n, q : Leaves(n, q) => Leaves(n, q)'
  BY SameLedger
<1>3. LedgerTellsQuantities'
  BY SameLedger DEF LedgerInv
<1>4. ASSUME NEW s \in Requests, pc'[s] \in Steps PROVE ReadsLedger(s)'
  <2>1. PICK n, q : n = local'[s].read /\ q = local'[s].snap.currentQuantity
    OBVIOUS
  <2>2. n <= Len(movements) /\ Leaves(n, q)
    BY <1>1, <1>4, <2>1 DEF LedgerInv, LedgerTellsQuantities, ReadsLedger
  <2>3. Leaves(n, q)'
    BY <1>2, <2>2
  <2>4. QED  BY <2>1, <2>2, <2>3 DEF ReadsLedger
<1>5. QED  BY <1>3, <1>4 DEF LedgerInv, ReadsLedger

\* Every handler starts from the quantity the ledger ends at.
LEMMA StartReads ==
    ASSUME NEW r \in Requests, Start(r)
    PROVE  \E step, h : Begin(r, step, h) /\ h.snap = item /\ h.read = Len(movements)
<1>1. CASE \E u \in Users, q \in Quantities : StartEntry(r, u, q)
  BY <1>1 DEF StartEntry, Handler
<1>2. CASE \E u \in Users, q \in Quantities : StartExit(r, u, q)
  BY <1>2 DEF StartExit, Handler
<1>3. CASE \E u \in Directors, delta \in Deltas : StartAdjustment(r, u, delta)
  BY <1>3 DEF StartAdjustment, AdjustmentHandler, Handler
<1>4. CASE \E u \in Users, actual \in Counts : StartCount(r, u, actual)
  BY <1>4 DEF StartCount, Handler
<1>5. CASE \E u \in Directors : StartTransfer(r, u) \/ StartArchive(r, u)
  BY <1>5 DEF StartTransfer, StartArchive, Handler
<1>6. CASE \E u \in Directors, cost \in UnitCosts : StartUpdate(r, u, cost)
  BY <1>6 DEF StartUpdate, Handler
<1>7. CASE \E u \in Supervisors : StartApprove(r, u)
  BY <1>7 DEF StartApprove, Handler
<1>8. CASE \E u \in Supervisors, call \in {"reject", "requestChanges"} : StartRefusal(r, u, call)
  BY <1>8 DEF StartRefusal, Handler
<1>9. QED  BY <1>1, <1>2, <1>3, <1>4, <1>5, <1>6, <1>7, <1>8 DEF Start

LEMMA StepLedger ==
    ASSUME IInv, LedgerInv, NEW r \in Requests, Step(r)
    PROVE  LedgerInv'
<1> DEFINE h == local[r]
<1>0. HandlersOK /\ ItemOK /\ LedgerOK /\ ValidationsOK
  BY IInvParts
<1>1. /\ item.currentQuantity \in Int /\ item \in ItemRows
      /\ movements \in Seq(MovementRows) /\ Len(movements) \in Nat
      /\ pc \in [Requests -> Steps \cup {"idle", "done"}] /\ local \in [Requests -> Locals]
  BY <1>0 DEF ItemOK, LedgerOK, ItemRows, HandlersOK
<1>2. pc[r] \in Steps => h.read <= Len(movements) /\ Leaves(h.read, h.snap.currentQuantity)
  BY DEF LedgerInv, ReadsLedger
<1>3. CASE ApplyEntry(r)
  <2> DEFINE next == item.currentQuantity + h.delta
             m == Movement("ENTREE", h.delta, h.snap.currentQuantity, next, h.read,
                           h.snap.unitCost, h.by, NoUser)
  <2>1. pc[r] = "apply" /\ h.call = "entry" /\ SetQuantity(next) /\ Record(m) /\ Finish(r)
    BY <1>3 DEF ApplyEntry, Applying
  <2>2. h.delta \in Int /\ h.by \in Users /\ h.snap.currentQuantity \in Int
        /\ h.snap.unitCost \in Nat /\ h.read \in Nat
    BY <1>0, <2>1, HandlerFacts DEF Steps
  <2>3. next \in Int /\ next - h.delta = item.currentQuantity
    BY <1>1, <2>2
  <2>4. item'.currentQuantity = next
    BY <1>1, <2>1 DEF SetQuantity, ItemRows
  <2> HIDE DEF next
  <2>5. m \in MovementRows /\ m.type = "ENTREE" /\ m.quantity = h.delta /\ m.after = next
        /\ m.before = h.snap.currentQuantity /\ m.read = h.read /\ m.approvedBy = NoUser
    BY <2>2, <2>3 DEF Movement, MovementRows, MovementTypes
  <2> HIDE DEF m
  <2>6. h.delta \in SignedQuantities(m)
    BY <2>5 DEF SignedQuantities
  <2>7. pc[r] \in Steps
    BY <2>1 DEF Steps
  <2>8. QED  BY <1>2, <2>1, <2>3, <2>4, <2>5, <2>6, <2>7, RecordsLedger
<1>4. CASE ApplyExit(r)
  <2> DEFINE q == -h.delta
             next == item.currentQuantity - q
             m == Movement("SORTIE", q, next + q, next, Len(movements), h.snap.unitCost,
                           h.by, NoUser)
  <2>1. pc[r] = "apply"
    BY <1>4 DEF ApplyExit, Applying
  <2>2. CASE CanRemove(q)
    <3>1. SetQuantity(next) /\ Record(m) /\ Finish(r)
      BY <1>4, <2>2 DEF ApplyExit
    <3>2. q \in Int /\ h.by \in Users /\ h.snap.unitCost \in Nat
      BY <1>0, <2>1, HandlerFacts DEF Steps
    <3> HIDE DEF q
    <3>3. next \in Int /\ next + q = item.currentQuantity /\ next - (-q) = item.currentQuantity
      BY <1>1, <3>2
    <3>4. item'.currentQuantity = next
      BY <1>1, <3>1 DEF SetQuantity, ItemRows
    <3> HIDE DEF next
    <3>5. m \in MovementRows /\ m.type = "SORTIE" /\ m.quantity = q /\ m.after = next
          /\ m.before = item.currentQuantity /\ m.read = Len(movements)
      BY <1>1, <3>2, <3>3 DEF Movement, MovementRows, MovementTypes
    <3> HIDE DEF m
    <3>6. -q \in SignedQuantities(m)
      BY <3>5 DEF SignedQuantities
    <3>7. Leaves(m.read, m.before) /\ m.read <= Len(movements)
      BY <1>1, <3>5 DEF LedgerInv, LedgerTellsQuantities
    <3>8. QED  BY <3>1, <3>3, <3>4, <3>5, <3>6, <3>7, RecordsLedger
  <2>3. CASE ~CanRemove(q)
    BY <1>1, <1>4, <2>3, KeepsLedger DEF ApplyExit, Conflict, Finish, Steps
  <2>4. QED  BY <2>2, <2>3
<1>5. CASE ApplyAdjustment(r)
  <2> DEFINE next == item.currentQuantity + h.delta
             m == Movement(h.type, Abs(h.delta), h.snap.currentQuantity, next, h.read,
                           h.snap.unitCost, h.by, NoUser)
  <2>1. pc[r] = "apply" /\ h.call \in {"adjust", "count"} /\ pc[r] \in Steps
    BY <1>5 DEF ApplyAdjustment, Applying, Steps
  <2>2. CASE h.delta < 0 => CanRemove(-h.delta)
    <3>1. SetQuantity(next) /\ Record(m) /\ Finish(r)
      BY <1>5, <2>2 DEF ApplyAdjustment
    <3>2. /\ h.delta # 0 /\ h.delta \in Int /\ h.by \in Users /\ h.snap.unitCost \in Nat
          /\ h.snap.currentQuantity \in Int /\ h.type \in MovementTypes /\ h.read \in Nat
          /\ h.type \in AdjustmentTypes(h.delta)
      BY <1>0, <2>1, HandlerFacts DEF HandlerInv, SoundHandler
    <3>3. next \in Int /\ next - h.delta = item.currentQuantity
      <4>1. item.currentQuantity \in Int /\ h.delta \in Int
        BY <1>1, <3>2
      <4>2. QED  BY <4>1
    <3>4. item'.currentQuantity = next
      BY <1>1, <3>1 DEF SetQuantity, ItemRows
    <3> HIDE DEF next
    <3>5. m \in MovementRows /\ m.type = h.type /\ m.quantity = Abs(h.delta) /\ m.after = next
          /\ m.before = h.snap.currentQuantity /\ m.read = h.read /\ m.approvedBy = NoUser
      BY <3>2, <3>3, AbsType DEF Movement, MovementRows
    <3> HIDE DEF m
    <3>6. h.delta \in SignedQuantities(m)
      BY <3>2, <3>5 DEF SignedQuantities, AdjustmentTypes, Abs
    <3>7. m.type \notin {"SORTIE", "TRANSFERT"}
      BY <3>2, <3>5 DEF AdjustmentTypes
    <3>8. QED  BY <1>2, <2>1, <3>1, <3>3, <3>4, <3>5, <3>6, <3>7, RecordsLedger
  <2>3. CASE ~(h.delta < 0 => CanRemove(-h.delta))
    BY <1>1, <1>5, <2>3, KeepsLedger DEF ApplyAdjustment, Conflict, Finish, Steps
  <2>4. QED  BY <2>2, <2>3
<1>6. CASE ApplyTransfer(r)
  <2> DEFINE q == h.snap.currentQuantity
             m == Movement("TRANSFERT", q, q, q, h.read, 0, h.by, NoUser)
  <2>1. pc[r] = "apply" /\ Record(m) /\ Finish(r) /\ item' = item /\ pc[r] \in Steps
    BY <1>6 DEF ApplyTransfer, Applying, Steps
  <2>2. m \in MovementRows /\ m.type = "TRANSFERT" /\ m.before = q /\ m.read = h.read
        /\ m.approvedBy = NoUser
    BY <1>0, <2>1, HandlerFacts DEF Movement, MovementRows, MovementTypes
  <2> HIDE DEF m
  <2>3. QED  BY <1>2, <2>1, <2>2, RecordsLedger
<1>7. CASE DecideStock(r)
  <2> DEFINE p == h.snap.pendingValidationPayload
             d == IF p.positive THEN p.quantity ELSE -p.quantity
             next == item.currentQuantity + d
             before == QuantityBefore(p, next)
             performer == validations[h.val].submittedBy
             m == Movement(p.type, p.quantity, before, next, Len(movements), p.unitCost,
                           performer, h.by)
  <2>1. /\ pc[r] = "decide" /\ h.call = "approve" /\ Finish(r)
        /\ h.snap.pendingValidationAction # "STOCK_ITEM_ARCHIVE"
    BY <1>7 DEF DecideStock, Deciding
  <2>2. CASE p.positive \/ item.currentQuantity >= p.quantity
    <3>1. item' = [Cleared(item) EXCEPT !.currentQuantity = next] /\ Record(m)
      BY <1>7, <2>2 DEF DecideStock
    <3>2. /\ p.quantity \in Nat /\ p.positive \in BOOLEAN /\ p.type \in MovementTypes
          /\ p.unitCost \in Nat
      BY <1>0, HandlerFacts DEF Payloads
    <3>3. SoundPayload(p)
      BY <1>0, <2>1, HandlerFacts DEF HandlerInv, HasAction, SoundHandler, SoundPending
    <3>4. d \in Int /\ next \in Int /\ next - d = item.currentQuantity
          /\ before = item.currentQuantity
      BY <1>1, <3>2 DEF QuantityBefore
    <3>5. h.by \in Users /\ h.val \in DOMAIN validations
      BY <1>0, <2>1, HandlerFacts DEF HandlerInv, HoldsRequest, Steps
    <3>6. performer \in Users
      <4>1. validations[h.val] \in ValidationRows
        BY <1>0, <3>5 DEF ValidationsOK
      <4>2. QED  BY <4>1 DEF ValidationRows
    <3> HIDE DEF next, before, performer
    <3>7. item'.currentQuantity = next
      BY <1>1, <3>1 DEF Cleared, ItemRows
    <3>8. m \in MovementRows /\ m.type = p.type /\ m.quantity = p.quantity /\ m.after = next
          /\ m.before = item.currentQuantity /\ m.read = Len(movements)
      BY <1>1, <3>2, <3>4, <3>5, <3>6 DEF Movement, MovementRows
    <3> HIDE DEF m
    <3>9. d \in SignedQuantities(m) /\ m.type # "TRANSFERT"
      BY <3>2, <3>3, <3>8 DEF SignedQuantities, SoundPayload
    <3> HIDE DEF d
    <3>10. Leaves(m.read, m.before) /\ m.read <= Len(movements)
      BY <1>1, <3>8 DEF LedgerInv, LedgerTellsQuantities
    <3>11. QED  BY <2>1, <3>1, <3>4, <3>7, <3>8, <3>9, <3>10, RecordsLedger
  <2>3. CASE ~(p.positive \/ item.currentQuantity >= p.quantity)
    <3>1. item' = item /\ movements' = movements
      BY <1>7, <2>3 DEF DecideStock
    <3>2. QED  BY <1>1, <2>1, <3>1, KeepsLedger DEF Finish, Steps
  <2>4. QED  BY <2>2, <2>3
<1>8. CASE Recount(r)
  <2> DEFINE g == AdjustmentHandler("count", h.by, h.delta, "INVENTAIRE_CORRECTION")
  <2>1. CASE AdjustmentAllowed(h.delta)
    <3>1. local' = [local EXCEPT ![r] = g] /\ Goto(r, AdjustmentStep(g))
          /\ item' = item /\ movements' = movements
      BY <1>8, <2>1 DEF Recount
    <3>2. g.snap = item /\ g.read = Len(movements)
      BY DEF AdjustmentHandler, Handler
    <3> HIDE DEF g
    <3>3. QED  BY <1>1, <3>1, <3>2, KeepsLedger DEF Goto
  <2>2. CASE ~AdjustmentAllowed(h.delta)
    BY <1>1, <1>8, <2>2, KeepsLedger DEF Recount, Finish, Steps
  <2>3. QED  BY <2>1, <2>2
<1>9. CASE ReviewFind(r)
  <2>1. item' = item /\ movements' = movements /\ pc[r] \in Steps
    BY <1>9 DEF ReviewFind, Steps
  <2>2. CASE Finish(r)
    BY <1>1, <2>1, <2>2, KeepsLedger DEF Finish, Steps
  <2>3. CASE ~Finish(r)
    <3>1. PICK v \in PendingValidations :
             Goto(r, "revupdate") /\ local' = [local EXCEPT ![r].val = v]
      BY <1>9, <2>3 DEF ReviewFind
    <3>2. /\ \A s \in Requests : s # r => pc'[s] = pc[s] /\ local'[s] = local[s]
          /\ local'[r] = [local[r] EXCEPT !.val = v]
      BY <1>1, <3>1 DEF Goto
    <3>3. local'[r].snap = local[r].snap /\ local'[r].read = local[r].read
      BY <1>1, <3>2 DEF Locals
    <3>4. QED  BY <2>1, <3>2, <3>3, KeepsLedger
  <2>4. QED  BY <2>2, <2>3
<1>10. CASE SubmitFind(r)
  BY <1>1, <1>10, KeepsLedger DEF SubmitFind, Goto, Finish, Steps
<1>11. CASE SubmitInsert(r) \/ ReviewUpdate(r)
  BY <1>1, <1>11, KeepsLedger DEF SubmitInsert, ReviewUpdate, Goto, Steps
<1>12. CASE ApplyArchive(r) \/ ApplyUpdate(r) \/ SubmitMark(r) \/ DecideArchive(r)
            \/ DecideRefusal(r)
  <2>1. /\ movements' = movements /\ item'.currentQuantity = item.currentQuantity
        /\ Finish(r)
    BY <1>1, <1>12 DEF ApplyArchive, ApplyUpdate, SubmitMark, DecideArchive, DecideRefusal,
                       Cleared, ItemRows
  <2>2. QED  BY <1>1, <2>1, KeepsLedger DEF Finish, Steps
<1>13. QED
  BY <1>3, <1>4, <1>5, <1>6, <1>7, <1>8, <1>9, <1>10, <1>11, <1>12 DEF Step

LEMMA InitLedger == Init => LedgerInv
<1> SUFFICES ASSUME Init PROVE LedgerInv
  OBVIOUS
<1>1. \A r \in Requests : pc[r] \notin Steps
  BY DEF Init, Steps
<1>2. item.currentQuantity = InitialQuantity
  BY DEF Init, InitialItem
<1>3. PICK u \in Directors :
          movements = IF InitialQuantity > 0
                      THEN <<Movement("ENTREE", InitialQuantity, 0, InitialQuantity,
                                      0, InitialUnitCost, u, NoUser)>>
                      ELSE <<>>
  BY DEF Init
<1>4. CASE InitialQuantity > 0
  <2>1. PICK m : m = Movement("ENTREE", InitialQuantity, 0, InitialQuantity, 0,
                              InitialUnitCost, u, NoUser)
    OBVIOUS
  <2>2. /\ m.type = "ENTREE" /\ m.after = InitialQuantity /\ m.read = 0 /\ m.before = 0
        /\ m.approvedBy = NoUser /\ m.quantity = InitialQuantity
    BY <2>1 DEF Movement
  <2>3. movements = <<m>>
    BY <1>3, <1>4, <2>1
  <2>4. Len(movements) = 1 /\ movements[1] = m /\ DOMAIN movements = {1}
    BY <2>3
  <2>5. Leaves(0, 0)
    BY DEF Leaves
  <2>6. Leaves(1, InitialQuantity)
    <3>1. 1 \in 1..1 /\ (1 + 1)..1 = {}
      OBVIOUS
    <3>2. QED  BY <2>2, <2>4, <3>1 DEF Leaves
  <2>7. InitialQuantity \in SignedQuantities(m) /\ m.after - InitialQuantity = 0
    BY <2>2 DEF SignedQuantities
  <2>8. LedgerTellsQuantities
    BY <1>2, <2>2, <2>4, <2>5, <2>6, <2>7 DEF LedgerTellsQuantities
  <2>9. QED  BY <1>1, <2>8 DEF LedgerInv, ReadsLedger
<1>5. CASE ~(InitialQuantity > 0)
  <2>1. movements = <<>> /\ Len(movements) = 0 /\ DOMAIN movements = {} /\ InitialQuantity = 0
    BY <1>3, <1>5
  <2>2. Leaves(0, 0)
    BY DEF Leaves
  <2>3. QED  BY <1>1, <1>2, <2>1, <2>2 DEF LedgerInv, ReadsLedger, LedgerTellsQuantities
<1>6. QED  BY <1>4, <1>5

LEMMA NextLedger == IInv /\ LedgerInv /\ [Next]_vars => LedgerInv'
<1> SUFFICES ASSUME IInv, LedgerInv, [Next]_vars PROVE LedgerInv'
  OBVIOUS
<1>1. CASE UNCHANGED vars
  <2>1. /\ movements' = movements /\ item' = item /\ pc' = pc /\ local' = local
        /\ \A n, q : Leaves(n, q) <=> Leaves(n, q)'
        /\ LedgerTellsQuantities'
    BY <1>1, SameLedger DEF vars, LedgerInv
  <2>2. ASSUME NEW s \in Requests, pc[s] \in Steps PROVE ReadsLedger(s)'
    <3>1. PICK n, q : n = local[s].read /\ q = local[s].snap.currentQuantity
      OBVIOUS
    <3>2. n <= Len(movements) /\ Leaves(n, q)
      BY <2>2, <3>1 DEF LedgerInv, ReadsLedger
    <3>3. QED  BY <2>1, <3>1, <3>2 DEF ReadsLedger
  <2>3. QED  BY <2>1, <2>2 DEF LedgerInv, ReadsLedger
<1>2. /\ pc \in [Requests -> Steps \cup {"idle", "done"}] /\ local \in [Requests -> Locals]
      /\ "done" \notin Steps
  BY IInvParts DEF HandlersOK, Steps
<1>3. ASSUME NEW r \in Requests, Start(r) PROVE LedgerInv'
  <2>1. PICK step, h : Begin(r, step, h) /\ h.snap = item /\ h.read = Len(movements)
    BY <1>3, StartReads
  <2>2. QED  BY <1>2, <2>1, KeepsLedger DEF Begin
<1>4. ASSUME NEW r \in Requests, Fail(r) PROVE LedgerInv'
  BY <1>2, <1>4, KeepsLedger DEF Fail, Finish
<1>5. QED  BY <1>1, <1>3, <1>4, StepLedger DEF Next

\* The ledger ends at the quantity of the item, and every movement starts from a
\* quantity the ledger shows.
THEOREM LedgerReadsBack == Spec => []LedgerTellsQuantities
<1>1. Init => IInv /\ LedgerInv
  BY InitInvariant, InitLedger
<1>2. IInv /\ LedgerInv /\ [Next]_vars => (IInv /\ LedgerInv)'
  BY NextInvariant, NextLedger
<1>3. IInv /\ LedgerInv => LedgerTellsQuantities
  BY DEF LedgerInv
<1>4. QED  BY <1>1, <1>2, <1>3, PTL DEF Spec

-----------------------------------------------------------------------------
(***************************************************************************)
(* What becomes of a request.  As long as no two reviewers found it        *)
(* pending at the same time it has one reviewer at a time, and only the    *)
(* one who closed it carries it out; whatever else overlaps or dies.       *)
(***************************************************************************)
Holds(r, v) == pc[r] \in {"revupdate", "decide"} /\ local[r].val = v

Approving(r, v) == Deciding(r, {"approve"}) /\ local[r].val = v

OneReviewer(v) == \A r, s \in Requests : Holds(r, v) /\ Holds(s, v) => r = s

\* A reviewer who has not closed the request holds it pending; one who has did not
\* carry it out yet.
HeldAsClosed(v) ==
    \A r \in Requests : Holds(r, v) =>
        IF pc[r] = "revupdate"
        THEN validations[v].status = "PENDING_VALIDATION"
        ELSE /\ validations[v].status = Resulting(local[r].call)
             /\ validations[v].applied = <<>>

DoneOnce(v) ==
    LET row == validations[v]
    IN  IF row.status = "APPROVED"
        THEN \/ Len(row.applied) = 1
             \/ row.applied = <<>> /\ (row.failed \/ \E r \in Requests : Approving(r, v))
        ELSE row.applied = <<>>

ReviewedAlone(v) == OneReviewer(v) /\ HeldAsClosed(v) /\ DoneOnce(v)

ReviewInv == \A v \in DOMAIN validations : ~validations[v].together => ReviewedAlone(v)

OthersRest(r) == \A s \in Requests \ {r} : pc'[s] = pc[s] /\ local'[s] = local[s]

\* A request that handler r neither changes, nor holds afterwards, nor was about to
\* carry out.
LEMMA OthersReview ==
    ASSUME NEW r \in Requests, OthersRest(r),
           NEW v \in DOMAIN validations, validations'[v] = validations[v],
           ReviewedAlone(v), ~Holds(r, v)', ~Approving(r, v)
    PROVE  ReviewedAlone(v)'
<1>1. \A s \in Requests : Holds(s, v)' =>
          s # r /\ Holds(s, v) /\ pc'[s] = pc[s] /\ local'[s] = local[s]
  BY DEF OthersRest, Holds
<1>2. OneReviewer(v)'
  BY <1>1 DEF ReviewedAlone, OneReviewer
<1>3. HeldAsClosed(v)'
  BY <1>1 DEF ReviewedAlone, HeldAsClosed, Resulting
<1>4. \A s \in Requests : Approving(s, v) => Approving(s, v)'
  BY DEF OthersRest, Approving, Deciding
<1>5. DoneOnce(v)'
  BY <1>4 DEF ReviewedAlone, DoneOnce
<1>6. QED  BY <1>2, <1>3, <1>5 DEF ReviewedAlone

\* A step that changes no request, of a handler that does not hold one.
LEMMA ReviewStays ==
    ASSUME ReviewInv, NEW r \in Requests, OthersRest(r), validations' = validations,
           pc'[r] \notin {"revupdate", "decide"}, ~Deciding(r, {"approve"})
    PROVE  ReviewInv'
<1> SUFFICES ASSUME NEW v \in DOMAIN validations, ~validations[v].together
             PROVE  ReviewedAlone(v)'
  BY DEF ReviewInv
<1>1. ~Holds(r, v)' /\ ~Approving(r, v)
  BY DEF Holds, Approving
<1>2. ReviewedAlone(v) /\ validations'[v] = validations[v]
  BY DEF ReviewInv
<1>3. QED  BY <1>1, <1>2, OthersReview

\* The last step of an approval.
LEMMA ApprovalEnds ==
    ASSUME IInv, ReviewInv, NEW r \in Requests, Deciding(r, {"approve"}), Finish(r),
           Applied(r) \/ CarriesOutNothing(r)
    PROVE  ReviewInv'
<1>0. HandlersOK /\ ValidationsOK
  BY IInvParts
<1>1. PICK u, op : /\ u = local[r].val
                   /\ op = [action |-> local[r].snap.pendingValidationAction,
                            payload |-> local[r].snap.pendingValidationPayload]
  OBVIOUS
<1>2. u \in DOMAIN validations /\ Holds(r, u)
  BY <1>0, <1>1, HandlerFacts DEF HandlerInv, HoldsRequest, Deciding, Holds
<1>3. /\ DOMAIN validations' = DOMAIN validations
      /\ \A v \in DOMAIN validations : v # u => validations'[v] = validations[v]
      /\ validations'[u].together = validations[u].together
      /\ validations'[u].status = validations[u].status
      /\ \/ validations'[u].applied = Append(validations[u].applied, op)
         \/ validations'[u].applied = validations[u].applied /\ validations'[u].failed
  <2>1. validations[u] \in ValidationRows
    BY <1>0, <1>2 DEF ValidationsOK
  <2>2. QED
    BY <1>0, <1>1, <1>2, <2>1 DEF Applied, CarriesOutNothing, ValidationsOK, ValidationRows
<1>4. OthersRest(r) /\ pc'[r] = "done"
  BY <1>0 DEF Finish, HandlersOK, OthersRest
<1> SUFFICES ASSUME NEW v \in DOMAIN validations, ~validations[v].together
             PROVE  ReviewedAlone(v)'
  BY <1>3 DEF ReviewInv
<1>5. ReviewedAlone(v) /\ ~Holds(r, v)'
  BY <1>4 DEF ReviewInv, Holds
<1>6. CASE v # u
  BY <1>1, <1>3, <1>4, <1>5, <1>6, OthersReview DEF Approving
<1>7. CASE v = u
  <2>1. \A s \in Requests : ~Holds(s, v)'
    BY <1>2, <1>4, <1>5, <1>7 DEF ReviewedAlone, OneReviewer, Holds, OthersRest
  <2>2. validations[v].status = "APPROVED" /\ validations[v].applied = <<>>
    BY <1>2, <1>5, <1>7 DEF ReviewedAlone, HeldAsClosed, Deciding, Resulting
  <2>3. DoneOnce(v)'
    <3>1. Len(Append(<<>>, op)) = 1
      OBVIOUS
    <3>2. QED  BY <1>3, <1>7, <2>2, <3>1 DEF DoneOnce
  <2>4. QED  BY <2>1, <2>3 DEF ReviewedAlone, OneReviewer, HeldAsClosed
<1>8. QED  BY <1>6, <1>7

\* Closing the request.
LEMMA ReviewUpdateReview ==
    ASSUME IInv, ReviewInv, NEW r \in Requests, ReviewUpdate(r) PROVE ReviewInv'
<1>0. HandlersOK /\ ValidationsOK
  BY IInvParts
<1>1. PICK u : u = local[r].val
  OBVIOUS
<1>2. pc[r] = "revupdate" /\ u \in DOMAIN validations /\ Holds(r, u)
  BY <1>0, <1>1, HandlerFacts DEF ReviewUpdate, HandlerInv, HoldsRequest, Holds
<1>3. /\ DOMAIN validations' = DOMAIN validations
      /\ \A v \in DOMAIN validations : v # u => validations'[v] = validations[v]
      /\ validations'[u].together = validations[u].together
      /\ validations'[u].applied = validations[u].applied
      /\ validations'[u].status = Resulting(local[r].call)
  <2>1. validations[u] \in ValidationRows
    BY <1>0, <1>2 DEF ValidationsOK
  <2>2. QED
    BY <1>0, <1>1, <1>2, <2>1 DEF ReviewUpdate, ValidationsOK, ValidationRows
<1>4. OthersRest(r) /\ pc'[r] = "decide" /\ local' = local
  BY <1>0 DEF ReviewUpdate, Goto, HandlersOK, OthersRest
<1> SUFFICES ASSUME NEW v \in DOMAIN validations, ~validations[v].together
             PROVE  ReviewedAlone(v)'
  BY <1>3 DEF ReviewInv
<1>5. ReviewedAlone(v)
  BY DEF ReviewInv
<1>6. CASE v # u
  BY <1>1, <1>2, <1>3, <1>4, <1>5, <1>6, OthersReview DEF Approving, Deciding, Holds
<1>7. CASE v = u
  <2>1. \A s \in Requests : Holds(s, v)' => s = r
    BY <1>2, <1>4, <1>5, <1>7 DEF ReviewedAlone, OneReviewer, Holds, OthersRest
  <2>2. validations[v].applied = <<>>
    BY <1>2, <1>5, <1>7 DEF ReviewedAlone, HeldAsClosed, DoneOnce
  <2>3. HeldAsClosed(v)'
    BY <1>3, <1>4, <1>7, <2>1, <2>2 DEF HeldAsClosed, Resulting
  <2>4. Resulting(local[r].call) = "APPROVED" => Approving(r, v)'
    BY <1>1, <1>4, <1>7 DEF Resulting, Approving, Deciding
  <2>5. DoneOnce(v)'
    BY <1>3, <1>7, <2>2, <2>4 DEF DoneOnce
  <2>6. QED  BY <2>1, <2>3, <2>5 DEF ReviewedAlone, OneReviewer
<1>8. QED  BY <1>6, <1>7

\* Finding the pending request.
LEMMA ReviewFindReview ==
    ASSUME IInv, ReviewInv, NEW r \in Requests, ReviewFind(r) PROVE ReviewInv'
<1>0. HandlersOK /\ ValidationsOK
  BY IInvParts
<1>1. pc[r] = "revfind" /\ ~Deciding(r, {"approve"})
  BY DEF ReviewFind, Deciding
<1>2. CASE Finish(r) /\ UNCHANGED validations
  BY <1>0, <1>1, <1>2, ReviewStays DEF Finish, HandlersOK, OthersRest
<1>3. ASSUME NEW u \in PendingValidations, Goto(r, "revupdate"),
             local' = [local EXCEPT ![r].val = u], FoundBy(u)
      PROVE  ReviewInv'
  <2>1. u \in DOMAIN validations /\ validations[u].status = "PENDING_VALIDATION"
    BY DEF PendingValidations
  <2>2. /\ DOMAIN validations' = DOMAIN validations
        /\ \A v \in DOMAIN validations : v # u => validations'[v] = validations[v]
        /\ validations'[u].together = (validations[u].together \/ Reviewing(u) # {})
        /\ validations'[u].applied = validations[u].applied
        /\ validations'[u].status = "PENDING_VALIDATION"
    <3>1. validations[u] \in ValidationRows
      BY <1>0, <2>1 DEF ValidationsOK
    <3>2. QED
      BY <1>0, <1>3, <2>1, <3>1 DEF FoundBy, ValidationsOK, ValidationRows
  <2>3. OthersRest(r) /\ pc'[r] = "revupdate" /\ local'[r].val = u
    BY <1>0, <1>3 DEF Goto, HandlersOK, OthersRest, Locals
  <2> SUFFICES ASSUME NEW v \in DOMAIN validations, ~validations'[v].together
               PROVE  ReviewedAlone(v)'
    BY <2>2 DEF ReviewInv
  <2>4. ReviewedAlone(v)
    BY <2>2 DEF ReviewInv
  <2>5. CASE v # u
    BY <1>1, <2>2, <2>3, <2>4, <2>5, OthersReview DEF Approving, Holds
  <2>6. CASE v = u
    <3>1. Reviewing(v) = {}
      BY <2>2, <2>6
    <3>2. \A s \in Requests : ~Holds(s, v)
      BY <2>1, <2>4, <2>6, <3>1 DEF ReviewedAlone, HeldAsClosed, Holds, Reviewing, Resulting
    <3>3. \A s \in Requests : Holds(s, v)' => s = r
      BY <2>3, <3>2 DEF Holds, OthersRest
    <3>4. HeldAsClosed(v)'
      BY <2>2, <2>3, <2>6, <3>3 DEF HeldAsClosed
    <3>5. DoneOnce(v)'
      BY <2>1, <2>2, <2>4, <2>6 DEF ReviewedAlone, DoneOnce
    <3>6. QED  BY <3>3, <3>4, <3>5 DEF ReviewedAlone, OneReviewer
  <2>7. QED  BY <2>5, <2>6
<1>4. QED
  BY <1>2, <1>3 DEF ReviewFind, FoundBy

\* A new request has no reviewer.
LEMMA SubmitInsertReview ==
    ASSUME IInv, ReviewInv, NEW r \in Requests, SubmitInsert(r) PROVE ReviewInv'
<1>0. HandlersOK /\ ValidationsOK
  BY IInvParts
<1>1. PICK n : n = Len(validations)
  OBVIOUS
<1>2. /\ n \in Nat /\ DOMAIN validations = 1..n /\ DOMAIN validations' = 1..(n + 1)
      /\ \A v \in 1..n : validations'[v] = validations[v]
      /\ validations'[n + 1].status = "PENDING_VALIDATION"
      /\ validations'[n + 1].applied = <<>>
  BY <1>0, <1>1 DEF SubmitInsert, ValidationsOK
<1>3. OthersRest(r) /\ pc[r] = "insert" /\ pc'[r] = "mark"
  BY <1>0 DEF SubmitInsert, Goto, HandlersOK, OthersRest
<1> SUFFICES ASSUME NEW v \in DOMAIN validations', ~validations'[v].together
             PROVE  ReviewedAlone(v)'
  BY DEF ReviewInv
<1>4. CASE v \in 1..n
  BY <1>2, <1>3, <1>4, OthersReview DEF ReviewInv, Holds, Approving, Deciding
<1>5. CASE v = n + 1
  <2>1. v \notin DOMAIN validations
    BY <1>2, <1>5
  <2>2. \A s \in Requests : ~Holds(s, v)
    BY <1>0, <2>1, HandlerFacts DEF HandlerInv, HoldsRequest, Holds
  <2>3. \A s \in Requests : ~Holds(s, v)'
    BY <1>3, <2>2 DEF Holds, OthersRest
  <2>4. QED
    BY <1>2, <1>5, <2>3 DEF ReviewedAlone, OneReviewer, HeldAsClosed, DoneOnce
<1>6. QED  BY <1>2, <1>4, <1>5

LEMMA NextReview == IInv /\ ReviewInv /\ [Next]_vars => ReviewInv'
<1> SUFFICES ASSUME IInv, ReviewInv, [Next]_vars PROVE ReviewInv'
  OBVIOUS
<1>0. /\ pc \in [Requests -> Steps \cup {"idle", "done"}] /\ local \in [Requests -> Locals]
  BY IInvParts DEF HandlersOK
<1>1. CASE UNCHANGED vars
  BY <1>1 DEF vars, ReviewInv, ReviewedAlone, OneReviewer, HeldAsClosed, DoneOnce, Holds,
              Approving, Deciding
<1>2. ASSUME NEW r \in Requests, Start(r) PROVE ReviewInv'
  <2>1. PICK step, h : FitStart(step, h) /\ Begin(r, step, h)
    BY <1>2, StartFit, IInvParts DEF IInv
  <2>2. /\ OthersRest(r) /\ validations' = validations /\ pc[r] = "idle"
        /\ pc'[r] \notin {"revupdate", "decide"}
    BY <1>0, <2>1 DEF Begin, FitStart, OthersRest
  <2>3. QED  BY <2>2, ReviewStays DEF Deciding
<1>3. ASSUME NEW r \in Requests, Fail(r) PROVE ReviewInv'
  <2>1. CASE Deciding(r, {"approve"})
    BY <1>3, <2>1, ApprovalEnds DEF Fail
  <2>2. CASE ~Deciding(r, {"approve"})
    BY <1>0, <1>3, <2>2, ReviewStays DEF Fail, CarriesOutNothing, Finish, OthersRest
  <2>3. QED  BY <2>1, <2>2
<1>4. ASSUME NEW r \in Requests, Step(r) PROVE ReviewInv'
  <2>1. CASE ReviewFind(r) \/ ReviewUpdate(r) \/ SubmitInsert(r)
    BY <2>1, ReviewFindReview, ReviewUpdateReview, SubmitInsertReview
  <2>2. CASE DecideArchive(r) \/ DecideStock(r)
    BY <2>2, ApprovalEnds DEF DecideArchive, DecideStock
  <2>3. CASE Recount(r)
    <3>1. OthersRest(r) /\ validations' = validations /\ pc[r] = "recount"
          /\ pc'[r] \in {"apply", "find", "done"}
      BY <1>0, <2>3 DEF Recount, Goto, Finish, AdjustmentStep, OthersRest
    <3>2. QED  BY <3>1, ReviewStays DEF Deciding
  <2>4. CASE SubmitFind(r)
    <3>1. OthersRest(r) /\ validations' = validations /\ pc[r] = "find"
          /\ pc'[r] \in {"insert", "done"}
      BY <1>0, <2>4 DEF SubmitFind, Goto, Finish, OthersRest
    <3>2. QED  BY <3>1, ReviewStays DEF Deciding
  <2>5. CASE \/ ApplyEntry(r) \/ ApplyExit(r) \/ ApplyAdjustment(r) \/ ApplyTransfer(r)
             \/ ApplyArchive(r) \/ ApplyUpdate(r) \/ SubmitMark(r) \/ DecideRefusal(r)
    <3>1. Finish(r) /\ validations' = validations
      BY <2>5 DEF ApplyEntry, ApplyExit, ApplyAdjustment, ApplyTransfer, ApplyArchive,
                  ApplyUpdate, SubmitMark, DecideRefusal, Conflict
    <3>2. ~Deciding(r, {"approve"})
      BY <2>5 DEF ApplyEntry, ApplyExit, ApplyAdjustment, ApplyTransfer, ApplyArchive,
                  ApplyUpdate, SubmitMark, DecideRefusal, Applying, Deciding
    <3>3. OthersRest(r) /\ pc'[r] = "done"
      BY <1>0, <3>1 DEF Finish, OthersRest
    <3>4. QED  BY <3>1, <3>2, <3>3, ReviewStays
  <2>6. QED  BY <1>4, <2>1, <2>2, <2>3, <2>4, <2>5 DEF Step
<1>5. QED  BY <1>1, <1>2, <1>3, <1>4 DEF Next

\* A request that one reviewer at a time answers is carried out once if it is
\* approved, unless the approval ends before, and never if it is not.
THEOREM ApprovalsCarryOutOnce == Spec => []ApprovalsAreCarriedOutOnce
<1>1. Init => IInv /\ ReviewInv
  BY InitInvariant DEF Init, ReviewInv
<1>2. IInv /\ ReviewInv /\ [Next]_vars => (IInv /\ ReviewInv)'
  BY NextInvariant, NextReview
<1>3. IInv /\ ReviewInv => ApprovalsAreCarriedOutOnce
  BY DEF ReviewInv, ReviewedAlone, DoneOnce, Approving, ApprovalsAreCarriedOutOnce
<1>4. QED  BY <1>1, <1>2, <1>3, PTL DEF Spec

-----------------------------------------------------------------------------
(***************************************************************************)
(* One call after the other.  Two handlers that overlap, or one that dies  *)
(* between two statements, can leave the item, its ledger and its requests *)
(* apart; the properties that say they agree are of the behaviours in      *)
(* which no two handlers overlap and none dies, for any number of calls.   *)
(* They hold between two handlers because a handler that is alone writes   *)
(* on the row it read, and the three tables disagree by what it has not    *)
(* written yet and no more (At).                                           *)
(***************************************************************************)
OneAtATime == MaxInFlight = 1 /\ MaxFaults = 0

\* The history of a request: its operation was applied if it was approved.
CarriedOut(row) == row.applied = IF row.status = "APPROVED" THEN <<row.op>> ELSE <<>>

AllCarriedOut == \A v \in DOMAIN validations : CarriedOut(validations[v])

IsFor(row, action, payload) == row.op.action = action /\ row.op.payload = payload

IsForItem(row) ==
    IsFor(row, item.pendingValidationAction, item.pendingValidationPayload)

ItemAgrees ==
    IF Pending(item)
    THEN \E v \in DOMAIN validations :
            PendingValidations = {v} /\ IsForItem(validations[v])
    ELSE PendingValidations = {}

\* An operation that the item can still bear.
Bearable(action, payload) ==
    \/ action = "STOCK_ITEM_ARCHIVE"
    \/ payload.positive
    \/ item.currentQuantity >= payload.quantity

\* No call takes the item, or the stock, away from the operation it is pending for.
AwaitsBearable ==
    Pending(item) =>
        /\ item.isActive
        /\ Bearable(item.pendingValidationAction, item.pendingValidationPayload)

\* A handler at a step, alone.
At(step, h) ==
    /\ h.snap = item
    /\ step \in {"recount", "apply", "find", "insert", "revfind"} =>
          ItemAgrees /\ AllCarriedOut
    /\ step = "apply" /\ h.call # "update" => item.isActive
    /\ step = "apply" /\ h.call \in {"exit", "adjust", "count", "archive"} => ~Pending(item)
    /\ step = "apply" /\ h.call = "archive" => item.currentQuantity <= 0
    /\ step \in {"find", "insert", "mark"} =>
          ~Pending(item) /\ item.isActive /\ Bearable(h.action, PayloadOf(h))
    /\ step = "mark" =>
          /\ AllCarriedOut
          /\ \E v \in DOMAIN validations :
                /\ PendingValidations = {v}
                /\ IsFor(validations[v], h.action, PayloadOf(h))
    /\ step = "revupdate" =>
          /\ AllCarriedOut
          /\ Pending(item)
          /\ h.val \in DOMAIN validations
          /\ PendingValidations = {h.val}
          /\ IsForItem(validations[h.val])
    /\ step = "decide" =>
          /\ Pending(item)
          /\ PendingValidations = {}
          /\ h.val \in DOMAIN validations
          /\ validations[h.val].status = Resulting(h.call)
          /\ validations[h.val].applied = <<>>
          /\ IsForItem(validations[h.val])
          /\ \A v \in DOMAIN validations : v # h.val => CarriedOut(validations[v])

SerialInv ==
    /\ \A r, s \in Requests : pc[r] \in Steps /\ pc[s] \in Steps => r = s
    /\ StockIsArchivedByApproval
    /\ AwaitsBearable
    /\ Quiescent => ItemAgrees /\ AllCarriedOut
    /\ \A r \in Requests : pc[r] \in Steps => At(pc[r], local[r])

\* What the invariant of handlers that overlap says of the one that is alone.
LEMMA Typed ==
    ASSUME IInv, NEW r \in Requests
    PROVE  /\ local[r] \in Locals
           /\ item \in ItemRows
           /\ item.currentQuantity \in Int
           /\ item.pendingValidationPayload \in Payloads
           /\ movements \in Seq(MovementRows)
           /\ validations \in Seq(ValidationRows)
           /\ pc \in [Requests -> Steps \cup {"idle", "done"}]
           /\ local \in [Requests -> Locals]
           /\ HandlerInv(r)
           /\ SoundHandler(local[r])
<1>1. TypeOK /\ HandlerInv(r)
  BY DEF IInv
<1>2. item \in ItemRows /\ local \in [Requests -> Locals]
  BY <1>1 DEF TypeOK
<1>3. item.currentQuantity \in Int /\ item.pendingValidationPayload \in Payloads
  BY <1>2 DEF ItemRows
<1>4. QED  BY <1>1, <1>2, <1>3 DEF TypeOK, HandlerInv

\* A handler that takes its first read finds nobody at work.
LEMMA NobodyAtWork ==
    ASSUME OneAtATime, SerialInv, NEW r \in Requests, NEW step, NEW h, Begin(r, step, h)
    PROVE  Quiescent
<1>1. Cardinality(InFlight) < 1
  BY DEF Begin, OneAtATime
<1>2. SUFFICES ASSUME NEW s \in InFlight PROVE FALSE
  BY DEF Quiescent
<1>3. InFlight = {s}
  BY DEF SerialInv, InFlight
<1>4. Cardinality({s}) = 1
  BY FS_Singleton
<1>5. QED  BY <1>1, <1>3, <1>4

\* Handler r goes on to its next step, or ends.
LEMMA SerialTurn ==
    ASSUME IInv, SerialInv, NEW r \in Requests, pc[r] \in Steps \/ Quiescent,
           NEW step \in Steps \cup {"done"}, NEW h \in Locals,
           pc' = [pc EXCEPT ![r] = step],
           local' = [local EXCEPT ![r] = h],
           StockIsArchivedByApproval', AwaitsBearable',
           step = "done" => ItemAgrees' /\ AllCarriedOut',
           step # "done" => At(step, h)'
    PROVE  SerialInv'
<1>1. /\ pc'[r] = step /\ local'[r] = h
      /\ \A s \in Requests : s # r => pc'[s] = pc[s] /\ local'[s] = local[s]
  BY Typed
<1>2. \A s \in Requests : s # r => pc'[s] \notin Steps
  BY <1>1 DEF SerialInv, Quiescent, InFlight
<1>3. "done" \notin Steps
  BY DEF Steps
<1>4. Quiescent' => ItemAgrees' /\ AllCarriedOut'
  <2>1. HAVE Quiescent'
  <2>2. pc'[r] \notin Steps
    BY <2>1 DEF Quiescent, InFlight
  <2>3. QED  BY <1>1, <2>2
<1>5. ASSUME NEW s \in Requests, pc'[s] \in Steps
      PROVE  At(pc[s], local[s])'
  <2>1. s = r
    BY <1>2, <1>5
  <2>2. pc'[s] = step /\ local'[s] = h /\ step # "done"
    BY <1>1, <1>3, <1>5, <2>1
  <2>3. QED  BY <2>2 DEF At
<1>6. QED  BY <1>2, <1>4, <1>5 DEF SerialInv

\* A removal that the stock allowed when it was read can still be borne.
LEMMA BearableRemoval ==
    ASSUME NEW h \in Locals, item.currentQuantity \in Int,
           \/ h.delta < 0 /\ item.currentQuantity + h.delta >= 0
           \/ h.delta > 0 /\ h.type = "INVENTAIRE_CORRECTION"
    PROVE  Bearable(h.action, PayloadOf(h))
<1>1. h.delta \in Int
  BY DEF Locals
<1>2. CASE h.delta < 0
  <2>1. Abs(h.delta) = -h.delta
    BY <1>1, <1>2 DEF Abs
  <2>2. PayloadOf(h).quantity = -h.delta
    BY <2>1 DEF PayloadOf
  <2>3. item.currentQuantity + h.delta >= 0
    BY <1>1, <1>2
  <2>4. item.currentQuantity >= -h.delta
    BY <1>1, <2>3
  <2>5. QED  BY <2>2, <2>4 DEF Bearable
<1>3. CASE h.delta > 0 /\ h.type = "INVENTAIRE_CORRECTION"
  BY <1>3 DEF PayloadOf, Bearable
<1>4. QED  BY <1>1, <1>2, <1>3

\* An adjustment that passes its checks has made sure that it can be borne.
LEMMA AdjustmentAt ==
    ASSUME IInv, ItemAgrees, AllCarriedOut,
           NEW call \in {"adjust", "count"}, NEW u \in Users, NEW delta \in Int,
           AdjustmentAllowed(delta), NEW type \in AdjustmentTypes(delta)
    PROVE  LET h == AdjustmentHandler(call, u, delta, type)
           IN  h \in Locals /\ At(AdjustmentStep(h), h)
<1> DEFINE action == AdjustmentAction(type, delta, item.currentQuantity)
           h == AdjustmentHandler(call, u, delta, type)
<1>1. action \in StockActions \cup {NoAction}
  BY ActionType
<1>2. type \in MovementTypes /\ call \in Calls
  BY AdjustmentTypesType DEF Calls
<1>3. h = Handler(call, u, delta, type, action)
  BY DEF AdjustmentHandler
<1>4. TypeOK /\ item.currentQuantity \in Int
  BY DEF IInv, TypeOK, ItemRows
<1> HIDE DEF action
<1>5. /\ h \in Locals /\ h.call = call /\ h.delta = delta
      /\ h.type = type /\ h.action = action /\ h.snap = item
  BY <1>1, <1>2, <1>3, <1>4, HandlerType
<1>6. action # NoAction => type # "AJUSTEMENT_POSITIF"
  BY DEF action, AdjustmentAction, NoAction
<1> HIDE DEF h
<1>7. item.isActive /\ ~Pending(item) /\ delta # 0 /\ item.currentQuantity + delta >= 0
  BY DEF AdjustmentAllowed
<1>8. action # NoAction => Bearable(h.action, PayloadOf(h))
  <2>1. HAVE action # NoAction
  <2>2. delta > 0 => type = "INVENTAIRE_CORRECTION"
    BY <1>6, <2>1 DEF AdjustmentTypes
  <2>3. \/ h.delta < 0 /\ item.currentQuantity + h.delta >= 0
        \/ h.delta > 0 /\ h.type = "INVENTAIRE_CORRECTION"
    BY <1>5, <1>7, <2>2
  <2>4. QED  BY <1>4, <1>5, <2>3, BearableRemoval
<1>9. AdjustmentStep(h) = IF action = NoAction THEN "apply" ELSE "find"
  BY <1>5 DEF AdjustmentStep
<1>10. At(AdjustmentStep(h), h)
  BY <1>5, <1>7, <1>8, <1>9 DEF At
<1>11. QED  BY <1>5, <1>10 DEF h

\* So does every other call at its first read.
LEMMA StartAt ==
    ASSUME IInv, ItemAgrees, AllCarriedOut, NEW r \in Requests, Start(r)
    PROVE  \E step \in Steps, h \in Locals : Begin(r, step, h) /\ At(step, h)
<1>0. /\ Directors \subseteq Users /\ Supervisors \subseteq Users
      /\ {"entry", "exit", "count", "transfer", "archive", "update", "approve", "reject",
          "requestChanges"} \subseteq Calls
      /\ {"ENTREE", "SORTIE", "INVENTAIRE_CORRECTION", "TRANSFERT", "AJUSTEMENT_POSITIF"}
            \subseteq MovementTypes
      /\ {NoAction, "LARGE_STOCK_EXIT", "STOCK_ITEM_ARCHIVE"} \subseteq StockActions \cup {NoAction}
      /\ {"apply", "find", "recount", "revfind"} \subseteq Steps
  BY DEF Users, Calls, MovementTypes, StockActions, Steps
<1>a. 0 \in Int /\ \A n \in Nat : n \in Int  OBVIOUS
<1>b. TypeOK /\ item.currentQuantity \in Int
  BY DEF IInv, TypeOK, ItemRows
<1>1. CASE \E u \in Users, q \in Quantities : StartEntry(r, u, q)
  <2>1. PICK u \in Users, q \in Quantities : StartEntry(r, u, q)
    BY <1>1
  <2> DEFINE h == Handler("entry", u, q, "ENTREE", NoAction)
  <2>2. h \in Locals /\ h.call = "entry" /\ h.snap = item
    BY <1>0, <1>a, <1>b, HandlerType
  <2>3. Begin(r, "apply", h) /\ item.isActive
    BY <2>1 DEF StartEntry
  <2> HIDE DEF h
  <2>4. At("apply", h)
    BY <2>2, <2>3 DEF At
  <2>5. QED  BY <1>0, <2>2, <2>3, <2>4
<1>2. CASE \E u \in Users, q \in Quantities : StartExit(r, u, q)
  <2>1. PICK u \in Users, q \in Quantities : StartExit(r, u, q)
    BY <1>2
  <2>2. q \in Nat /\ q > 0 /\ -q \in Int  OBVIOUS
  <2>3. item.isActive /\ ~Pending(item) /\ q <= item.currentQuantity
    BY <2>1 DEF StartExit
  <2>4. CASE SensitiveExit(q, item.unitCost)
    <3> DEFINE h == Handler("exit", u, -q, "SORTIE", "LARGE_STOCK_EXIT")
    <3>1. h \in Locals /\ h.call = "exit" /\ h.delta = -q /\ h.snap = item
      BY <1>0, <1>b, <2>2, HandlerType
    <3>2. Begin(r, "find", h)
      BY <2>1, <2>4 DEF StartExit
    <3> HIDE DEF h
    <3>3. h.delta < 0 /\ item.currentQuantity + h.delta >= 0
      BY <1>b, <2>2, <2>3, <3>1
    <3>4. Bearable(h.action, PayloadOf(h))
      BY <1>b, <3>1, <3>3, BearableRemoval
    <3>5. At("find", h)
      BY <2>3, <3>1, <3>4 DEF At
    <3>6. QED  BY <1>0, <3>1, <3>2, <3>5
  <2>5. CASE ~SensitiveExit(q, item.unitCost)
    <3> DEFINE h == Handler("exit", u, -q, "SORTIE", NoAction)
    <3>1. h \in Locals /\ h.call = "exit" /\ h.snap = item
      BY <1>0, <1>b, <2>2, HandlerType
    <3>2. Begin(r, "apply", h)
      BY <2>1, <2>5 DEF StartExit
    <3> HIDE DEF h
    <3>3. At("apply", h)
      BY <2>3, <3>1 DEF At
    <3>4. QED  BY <1>0, <3>1, <3>2, <3>3
  <2>6. QED  BY <2>4, <2>5
<1>3. CASE \E u \in Directors, delta \in Deltas : StartAdjustment(r, u, delta)
  <2>1. PICK u \in Directors, delta \in Deltas : StartAdjustment(r, u, delta)
    BY <1>3
  <2>2. PICK type \in AdjustmentTypes(delta) :
           LET h == AdjustmentHandler("adjust", u, delta, type)
           IN  Begin(r, AdjustmentStep(h), h)
    BY <2>1 DEF StartAdjustment
  <2> DEFINE h == AdjustmentHandler("adjust", u, delta, type)
  <2>3. delta \in Int /\ AdjustmentAllowed(delta) /\ u \in Users
    BY <1>0, <2>1 DEF StartAdjustment
  <2>4. h \in Locals /\ At(AdjustmentStep(h), h)
    BY <2>3, AdjustmentAt
  <2>5. AdjustmentStep(h) \in Steps
    BY <1>0 DEF AdjustmentStep
  <2>6. QED  BY <2>2, <2>4, <2>5
<1>4. CASE \E u \in Users, actual \in Counts : StartCount(r, u, actual)
  <2>1. PICK u \in Users, actual \in Counts : StartCount(r, u, actual)
    BY <1>4
  <2> DEFINE d == actual - item.currentQuantity
             h == Handler("count", u, d, "INVENTAIRE_CORRECTION", NoAction)
  <2>2. d \in Int
    BY <1>b
  <2>3. Begin(r, "recount", h)
    BY <2>1 DEF StartCount
  <2> HIDE DEF d
  <2>4. h \in Locals /\ h.snap = item
    BY <1>0, <1>b, <2>2, HandlerType
  <2> HIDE DEF h
  <2>5. At("recount", h)
    BY <2>4 DEF At
  <2>6. QED  BY <1>0, <2>3, <2>4, <2>5
<1>5. CASE \E u \in Directors : StartTransfer(r, u)
  <2>1. PICK u \in Directors : StartTransfer(r, u)
    BY <1>5
  <2> DEFINE h == Handler("transfer", u, 0, "TRANSFERT", NoAction)
  <2>2. h \in Locals /\ h.call = "transfer" /\ h.snap = item
    BY <1>0, <1>a, <1>b, HandlerType
  <2>3. Begin(r, "apply", h) /\ item.isActive
    BY <2>1 DEF StartTransfer
  <2> HIDE DEF h
  <2>4. At("apply", h)
    BY <2>2, <2>3 DEF At
  <2>5. QED  BY <1>0, <2>2, <2>3, <2>4
<1>6. CASE \E u \in Directors : StartArchive(r, u)
  <2>1. PICK u \in Directors : StartArchive(r, u)
    BY <1>6
  <2>2. item.isActive /\ ~Pending(item)
    BY <2>1 DEF StartArchive
  <2>3. CASE item.currentQuantity <= 0
    <3> DEFINE h == Handler("archive", u, 0, "AJUSTEMENT_POSITIF", NoAction)
    <3>1. h \in Locals /\ h.snap = item
      BY <1>0, <1>a, <1>b, HandlerType
    <3>2. Begin(r, "apply", h)
      BY <2>1, <2>3 DEF StartArchive
    <3> HIDE DEF h
    <3>3. At("apply", h)
      BY <2>2, <2>3, <3>1 DEF At
    <3>4. QED  BY <1>0, <3>1, <3>2, <3>3
  <2>4. CASE ~(item.currentQuantity <= 0)
    <3> DEFINE h == Handler("archive", u, 0, "AJUSTEMENT_POSITIF", "STOCK_ITEM_ARCHIVE")
    <3>1. h \in Locals /\ h.action = "STOCK_ITEM_ARCHIVE" /\ h.snap = item
      BY <1>0, <1>a, <1>b, HandlerType
    <3>2. Begin(r, "find", h)
      BY <2>1, <2>4 DEF StartArchive
    <3> HIDE DEF h
    <3>3. At("find", h)
      BY <2>2, <3>1 DEF At, Bearable
    <3>4. QED  BY <1>0, <3>1, <3>2, <3>3
  <2>5. QED  BY <2>3, <2>4
<1>7. CASE \E u \in Directors, cost \in UnitCosts : StartUpdate(r, u, cost)
  <2>1. PICK u \in Directors, cost \in UnitCosts : StartUpdate(r, u, cost)
    BY <1>7
  <2> DEFINE h == Handler("update", u, cost, "TRANSFERT", NoAction)
  <2>2. h \in Locals /\ h.call = "update" /\ h.snap = item
    BY <1>0, <1>a, <1>b, HandlerType
  <2>3. Begin(r, "apply", h)
    BY <2>1 DEF StartUpdate
  <2> HIDE DEF h
  <2>4. At("apply", h)
    BY <2>2 DEF At
  <2>5. QED  BY <1>0, <2>2, <2>3, <2>4
<1>8. CASE \/ \E u \in Supervisors : StartApprove(r, u)
           \/ \E u \in Supervisors, call \in {"reject", "requestChanges"} :
                 StartRefusal(r, u, call)
  <2>1. PICK u \in Supervisors, call \in {"approve", "reject", "requestChanges"} :
           Begin(r, "revfind", Handler(call, u, 0, "TRANSFERT", NoAction))
    BY <1>8 DEF StartApprove, StartRefusal
  <2> DEFINE h == Handler(call, u, 0, "TRANSFERT", NoAction)
  <2>2. h \in Locals /\ h.snap = item
    BY <1>0, <1>a, <1>b, HandlerType
  <2>3. Begin(r, "revfind", h)
    BY <2>1
  <2> HIDE DEF h
  <2>4. At("revfind", h)
    BY <2>2 DEF At
  <2>5. QED  BY <1>0, <2>2, <2>3, <2>4
<1>9. QED
  BY <1>1, <1>2, <1>3, <1>4, <1>5, <1>6, <1>7, <1>8 DEF Start

\* A call begins alone, on the row it has just read.
LEMMA StartSerial ==
    ASSUME OneAtATime, IInv, SerialInv, NEW r \in Requests, Start(r)
    PROVE  SerialInv'
<1>1. Quiescent
  <2>1. PICK step, h : Begin(r, step, h)
    BY StartFit DEF IInv
  <2>2. QED  BY <2>1, NobodyAtWork
<1>2. ItemAgrees /\ AllCarriedOut
  BY <1>1 DEF SerialInv
<1>3. PICK step \in Steps, h \in Locals : Begin(r, step, h) /\ At(step, h)
  BY <1>2, StartAt
<1>4. /\ pc' = [pc EXCEPT ![r] = step]
      /\ local' = [local EXCEPT ![r] = h]
      /\ item' = item /\ movements' = movements /\ validations' = validations
  BY <1>3 DEF Begin
<1>5. StockIsArchivedByApproval' /\ AwaitsBearable'
  BY <1>4 DEF SerialInv, StockIsArchivedByApproval, AwaitsBearable,
              Bearable, Pending
<1>6. At(step, h)'
  BY <1>3, <1>4 DEF At, ItemAgrees, AllCarriedOut, PendingValidations, IsForItem, Bearable,
                    CarriedOut, Pending
<1>7. step # "done" /\ step \in Steps \cup {"done"}
  BY DEF Steps
<1>8. QED  BY <1>1, <1>4, <1>5, <1>6, <1>7, SerialTurn

\* Every request that was approved stays so.
KeepsApproved ==
    \A v \in DOMAIN validations :
        validations[v].status = "APPROVED" =>
            /\ v \in DOMAIN validations'
            /\ validations'[v].status = "APPROVED"
            /\ validations'[v].op = validations[v].op

\* A step that leaves the item alone.
LEMMA SameItem ==
    ASSUME SerialInv, UNCHANGED item, KeepsApproved
    PROVE  StockIsArchivedByApproval' /\ AwaitsBearable'
<1>1. StockIsArchivedByApproval'
  BY DEF SerialInv, StockIsArchivedByApproval, KeepsApproved
<1>2. AwaitsBearable'
  BY DEF SerialInv, AwaitsBearable, Bearable, Pending
<1>3. QED  BY <1>1, <1>2

\* No step before the review closes a request touches what the invariant says of
\* the requests.
KeepsRequests ==
    /\ DOMAIN validations' = DOMAIN validations
    /\ \A v \in DOMAIN validations :
          /\ validations'[v].status = validations[v].status
          /\ validations'[v].op = validations[v].op
          /\ validations'[v].applied = validations[v].applied

LEMMA SameRequests ==
    ASSUME validations' = validations \/ KeepsRequests
    PROVE  /\ KeepsApproved
           /\ AllCarriedOut => AllCarriedOut'
           /\ ItemAgrees /\ item' = item => ItemAgrees'
           /\ \A step, h : At(step, h) /\ item' = item => At(step, h)'
<1>0. KeepsRequests
  BY DEF KeepsRequests
<1>p. PendingValidations' = PendingValidations
  BY <1>0 DEF KeepsRequests, PendingValidations
<1>1. KeepsApproved
  BY <1>0 DEF KeepsRequests, KeepsApproved
<1>2. AllCarriedOut => AllCarriedOut'
  BY <1>0 DEF KeepsRequests, AllCarriedOut, CarriedOut
<1>3. ItemAgrees /\ item' = item => ItemAgrees'
  BY <1>0, <1>p DEF KeepsRequests, ItemAgrees, IsForItem, IsFor, Pending
<1>4. ASSUME NEW step, NEW h, At(step, h), item' = item
      PROVE  At(step, h)'
  BY <1>0, <1>p, <1>2, <1>3, <1>4
     DEF KeepsRequests, At, IsForItem, IsFor, Bearable, CarriedOut, Pending
<1>5. QED  BY <1>1, <1>2, <1>3, <1>4

\* A handler that is alone ends.
LEMMA SerialEnd ==
    ASSUME IInv, SerialInv, NEW r \in Requests, pc[r] \in Steps, Finish(r),
           StockIsArchivedByApproval', AwaitsBearable',
           ItemAgrees', AllCarriedOut'
    PROVE  SerialInv'
<1>1. PICK step \in Steps \cup {"done"} : step = "done"
  OBVIOUS
<1>2. PICK h \in Locals : h = NoCall
  BY NoCallType
<1>3. pc' = [pc EXCEPT ![r] = step] /\ local' = [local EXCEPT ![r] = h]
  BY <1>1, <1>2 DEF Finish
<1>4. /\ step = "done" => ItemAgrees' /\ AllCarriedOut'
      /\ step # "done" => At(step, h)'
  BY <1>1
<1>5. pc[r] \in Steps \/ Quiescent
  OBVIOUS
<1>6. QED  BY <1>3, <1>4, <1>5, SerialTurn

\* It ends without having written anything.
LEMMA SerialRefusal ==
    ASSUME IInv, SerialInv, NEW r \in Requests,
           pc[r] \in {"recount", "apply", "find", "insert", "revfind"},
           Finish(r), UNCHANGED <<item, movements, validations>>
    PROVE  SerialInv'
<1>1. pc[r] \in Steps
  BY DEF Steps
<1>2. ItemAgrees /\ AllCarriedOut
  BY <1>1 DEF SerialInv, At
<1>3. ItemAgrees' /\ AllCarriedOut' /\ KeepsApproved
  BY <1>2, SameRequests
<1>4. StockIsArchivedByApproval' /\ AwaitsBearable'
  BY <1>3, SameItem
<1>5. QED  BY <1>1, <1>3, <1>4, SerialEnd

LEMMA RecountSerial ==
    ASSUME IInv, SerialInv, NEW r \in Requests, Recount(r)
    PROVE  SerialInv'
<1>1. pc[r] = "recount" /\ UNCHANGED <<item, movements, validations, faults>>
  BY DEF Recount
<1>2. pc[r] \in Steps
  BY <1>1 DEF Steps
<1>3. CASE ~AdjustmentAllowed(local[r].delta)
  BY <1>1, <1>3, SerialRefusal DEF Recount
<1>4. CASE AdjustmentAllowed(local[r].delta)
  <2> DEFINE g == AdjustmentHandler("count", local[r].by, local[r].delta,
                                    "INVENTAIRE_CORRECTION")
  <2>1. pc' = [pc EXCEPT ![r] = AdjustmentStep(g)] /\ local' = [local EXCEPT ![r] = g]
    BY <1>4 DEF Recount, Goto
  <2>2. ItemAgrees /\ AllCarriedOut
    BY <1>1, <1>2 DEF SerialInv, At
  <2>3. local[r].by \in Users /\ local[r].delta \in Int
    BY <1>2, Typed DEF HandlerInv, HasUser, Locals
  <2>4. g \in Locals /\ At(AdjustmentStep(g), g)
    <3>1. "INVENTAIRE_CORRECTION" \in AdjustmentTypes(local[r].delta)
      BY DEF AdjustmentTypes
    <3>2. QED  BY <1>4, <2>2, <2>3, <3>1, AdjustmentAt
  <2> HIDE DEF g
  <2>5. PICK h \in Locals : h = g
    BY <2>4
  <2>6. PICK step \in Steps \cup {"done"} : step = AdjustmentStep(g) /\ step # "done"
    BY DEF AdjustmentStep, Steps
  <2>7. At(step, h)
    BY <2>4, <2>5, <2>6
  <2>8. At(step, h)' /\ KeepsApproved
    BY <1>1, <2>7, SameRequests
  <2>9. StockIsArchivedByApproval' /\ AwaitsBearable'
    BY <1>1, <2>8, SameItem
  <2>10. pc' = [pc EXCEPT ![r] = step] /\ local' = [local EXCEPT ![r] = h]
    BY <2>1, <2>5, <2>6
  <2>11. QED  BY <1>2, <2>6, <2>8, <2>9, <2>10, SerialTurn
<1>5. QED  BY <1>3, <1>4

\* What an update of the quantity leaves of the row.
LEMMA QuantityFields ==
    ASSUME item \in ItemRows, NEW n \in Int, SetQuantity(n)
    PROVE  /\ item'.currentQuantity = n
           /\ item'.isActive = item.isActive
           /\ item'.unitCost = item.unitCost
           /\ item'.validationStatus = item.validationStatus
           /\ item'.pendingValidationAction = item.pendingValidationAction
           /\ item'.pendingValidationPayload = item.pendingValidationPayload
  BY DEF SetQuantity, ItemRows

\* An item that is not decided upon keeps what it awaits.
LEMMA AgreementStays ==
    ASSUME ItemAgrees, AllCarriedOut, validations' = validations,
           item'.validationStatus = item.validationStatus,
           item'.pendingValidationAction = item.pendingValidationAction,
           item'.pendingValidationPayload = item.pendingValidationPayload
    PROVE  ItemAgrees' /\ AllCarriedOut'
<1>1. AllCarriedOut'
  BY SameRequests
<1>2. ItemAgrees'
  BY DEF ItemAgrees, PendingValidations, IsForItem, Pending
<1>3. QED  BY <1>1, <1>2

\* A direct effect on the quantity of an item that is active.
LEMMA DirectMovement ==
    ASSUME IInv, SerialInv, NEW r \in Requests, pc[r] = "apply",
           local[r].call # "update",
           NEW n \in Int, SetQuantity(n),
           ~Pending(item) \/ n >= item.currentQuantity,
           Finish(r), validations' = validations
    PROVE  SerialInv'
<1>1. pc[r] \in Steps
  BY DEF Steps
<1>2. ItemAgrees /\ AllCarriedOut /\ item.isActive
  BY <1>1 DEF SerialInv, At
<1>3. /\ item'.currentQuantity = n
      /\ item'.isActive = item.isActive
      /\ item'.validationStatus = item.validationStatus
      /\ item'.pendingValidationAction = item.pendingValidationAction
      /\ item'.pendingValidationPayload = item.pendingValidationPayload
  BY Typed, QuantityFields
<1>5. StockIsArchivedByApproval'
  BY <1>2, <1>3 DEF StockIsArchivedByApproval
<1>6. AwaitsBearable'
  <2>1. SUFFICES ASSUME Pending(item)
                 PROVE  Bearable(item.pendingValidationAction, item.pendingValidationPayload)'
    BY <1>2, <1>3 DEF AwaitsBearable, Pending
  <2>2. Bearable(item.pendingValidationAction, item.pendingValidationPayload)
    BY <2>1 DEF SerialInv, AwaitsBearable
  <2>3. /\ item.currentQuantity \in Int
        /\ item.pendingValidationPayload.quantity \in Int
        /\ n >= item.currentQuantity
    BY <2>1, Typed DEF Payloads
  <2>4. QED  BY <1>3, <2>2, <2>3 DEF Bearable
<1>7. ItemAgrees' /\ AllCarriedOut'
  BY <1>2, <1>3, AgreementStays
<1>8. QED  BY <1>1, <1>5, <1>6, <1>7, SerialEnd

\* What is known of a handler that is alone when it applies.
LEMMA AloneAtApply ==
    ASSUME IInv, SerialInv, NEW r \in Requests, pc[r] = "apply"
    PROVE  /\ pc[r] \in Steps
           /\ local[r].snap = item
           /\ ItemAgrees /\ AllCarriedOut
           /\ local[r].call # "update" => item.isActive
           /\ local[r].call \in {"exit", "adjust", "count", "archive"} => ~Pending(item)
           /\ local[r].call = "archive" => item.currentQuantity <= 0
           /\ local[r].delta \in Int
           /\ local[r].type \in MovementTypes
           /\ local[r].by \in Users
           /\ SoundHandler(local[r])
           /\ item.unitCost \in Nat
           /\ item.currentQuantity \in Int
<1>1. pc[r] \in Steps
  BY DEF Steps
<1>2. At("apply", local[r])
  BY <1>1 DEF SerialInv
<1>3. local[r].by \in Users
  BY <1>1, Typed DEF HandlerInv, HasUser
<1>4. local[r].delta \in Int /\ local[r].type \in MovementTypes
  BY Typed DEF Locals
<1>5. item.unitCost \in Nat
  BY Typed DEF ItemRows
<1>6. QED  BY <1>1, <1>2, <1>3, <1>4, <1>5, Typed DEF At

LEMMA ApplyEntrySerial ==
    ASSUME IInv, SerialInv, NEW r \in Requests, ApplyEntry(r)
    PROVE  SerialInv'
<1> DEFINE n == item.currentQuantity + local[r].delta
<1>1. /\ pc[r] = "apply" /\ local[r].call = "entry"
      /\ SetQuantity(n) /\ Finish(r) /\ validations' = validations
  BY DEF ApplyEntry, Applying
<1>2. local[r].delta \in Int /\ local[r].delta > 0 /\ item.currentQuantity \in Int
  BY <1>1, AloneAtApply DEF SoundHandler
<1>3. n \in Int /\ n >= item.currentQuantity
  BY <1>2
<1> HIDE DEF n
<1>4. QED  BY <1>1, <1>3, DirectMovement

LEMMA ApplyExitSerial ==
    ASSUME IInv, SerialInv, NEW r \in Requests, ApplyExit(r)
    PROVE  SerialInv'
<1> DEFINE q == -local[r].delta
           n == item.currentQuantity - q
<1>1. pc[r] = "apply" /\ local[r].call = "exit"
  BY DEF ApplyExit, Applying
<1>2. CASE CanRemove(q)
  <2>1. SetQuantity(n) /\ Finish(r) /\ validations' = validations
    BY <1>2 DEF ApplyExit
  <2>2. local[r].delta \in Int /\ ~Pending(item) /\ item.currentQuantity \in Int
    BY <1>1, AloneAtApply
  <2>3. n \in Int
    BY <2>2
  <2> HIDE DEF n
  <2>4. QED  BY <1>1, <2>1, <2>2, <2>3, DirectMovement
<1>3. CASE ~CanRemove(q)
  BY <1>1, <1>3, SerialRefusal DEF ApplyExit, Conflict
<1>4. QED  BY <1>2, <1>3

LEMMA ApplyAdjustmentSerial ==
    ASSUME IInv, SerialInv, NEW r \in Requests, ApplyAdjustment(r)
    PROVE  SerialInv'
<1> DEFINE h == local[r]
           n == item.currentQuantity + h.delta
<1>1. pc[r] = "apply" /\ h.call \in {"adjust", "count"}
  BY DEF ApplyAdjustment, Applying
<1>2. CASE h.delta < 0 => CanRemove(-h.delta)
  <2>1. SetQuantity(n) /\ Finish(r) /\ validations' = validations
    BY <1>2 DEF ApplyAdjustment
  <2>2. h.delta \in Int /\ ~Pending(item) /\ item.currentQuantity \in Int
    BY <1>1, AloneAtApply
  <2>3. n \in Int
    BY <2>2
  <2> HIDE DEF n
  <2>4. QED  BY <1>1, <2>1, <2>2, <2>3, DirectMovement
<1>3. CASE ~(h.delta < 0 => CanRemove(-h.delta))
  BY <1>1, <1>3, SerialRefusal DEF ApplyAdjustment, Conflict
<1>4. QED  BY <1>2, <1>3

\* A transfer leaves the quantity where it is.
LEMMA ApplyTransferSerial ==
    ASSUME IInv, SerialInv, NEW r \in Requests, ApplyTransfer(r)
    PROVE  SerialInv'
<1>1. pc[r] = "apply" /\ Finish(r) /\ item' = item /\ validations' = validations
  BY DEF ApplyTransfer, Applying
<1>2. ItemAgrees /\ AllCarriedOut /\ pc[r] \in Steps
  BY <1>1, AloneAtApply
<1>3. StockIsArchivedByApproval' /\ AwaitsBearable'
  BY <1>1, SameRequests, SameItem
<1>4. ItemAgrees' /\ AllCarriedOut'
  BY <1>1, <1>2, AgreementStays
<1>5. QED  BY <1>1, <1>2, <1>3, <1>4, SerialEnd

\* An item is archived directly when it holds nothing and awaits nothing.
LEMMA ApplyArchiveSerial ==
    ASSUME IInv, SerialInv, NEW r \in Requests, ApplyArchive(r)
    PROVE  SerialInv'
<1>1. /\ pc[r] = "apply" /\ local[r].call = "archive"
      /\ item' = [item EXCEPT !.isActive = FALSE]
      /\ Finish(r) /\ movements' = movements /\ validations' = validations
  BY DEF ApplyArchive, Applying
<1>2. /\ item.currentQuantity \in Int /\ item.currentQuantity <= 0 /\ ~Pending(item)
      /\ ItemAgrees /\ AllCarriedOut /\ pc[r] \in Steps
  BY <1>1, AloneAtApply
<1>3. /\ item'.currentQuantity = item.currentQuantity
      /\ item'.validationStatus = item.validationStatus
      /\ item'.pendingValidationAction = item.pendingValidationAction
      /\ item'.pendingValidationPayload = item.pendingValidationPayload
  BY <1>1, Typed DEF ItemRows
<1>5. StockIsArchivedByApproval' /\ AwaitsBearable'
  BY <1>2, <1>3 DEF StockIsArchivedByApproval, AwaitsBearable, Pending
<1>6. ItemAgrees' /\ AllCarriedOut'
  BY <1>1, <1>2, <1>3, AgreementStays
<1>7. QED  BY <1>1, <1>2, <1>5, <1>6, SerialEnd

LEMMA ApplyUpdateSerial ==
    ASSUME IInv, SerialInv, NEW r \in Requests, ApplyUpdate(r)
    PROVE  SerialInv'
<1>1. /\ pc[r] = "apply"
      /\ item' = [item EXCEPT !.unitCost = local[r].delta]
      /\ Finish(r) /\ movements' = movements /\ validations' = validations
  BY DEF ApplyUpdate, Applying
<1>2. ItemAgrees /\ AllCarriedOut /\ pc[r] \in Steps
  BY <1>1, AloneAtApply
<1>3. /\ item'.currentQuantity = item.currentQuantity
      /\ item'.isActive = item.isActive
      /\ item'.validationStatus = item.validationStatus
      /\ item'.pendingValidationAction = item.pendingValidationAction
      /\ item'.pendingValidationPayload = item.pendingValidationPayload
  BY <1>1, Typed DEF ItemRows
<1>5. StockIsArchivedByApproval' /\ AwaitsBearable'
  BY <1>1, <1>3 DEF SerialInv, StockIsArchivedByApproval, AwaitsBearable, Bearable, Pending
<1>6. ItemAgrees' /\ AllCarriedOut'
  BY <1>1, <1>2, <1>3, AgreementStays
<1>7. QED  BY <1>1, <1>2, <1>5, <1>6, SerialEnd

\* The next step of handler r, which keeps what it holds in memory.
LEMMA SerialGoto ==
    ASSUME IInv, SerialInv, NEW r \in Requests, pc[r] \in Steps,
           NEW step \in Steps, NEW h \in Locals, h = local[r],
           Goto(r, step), local' = local,
           StockIsArchivedByApproval', AwaitsBearable',
           At(step, h)'
    PROVE  SerialInv'
<1>1. pc' = [pc EXCEPT ![r] = step] /\ local' = [local EXCEPT ![r] = h]
  BY Typed DEF Goto
<1>2. step \in Steps \cup {"done"} /\ step # "done"
  BY DEF Steps
<1>3. pc[r] \in Steps \/ Quiescent
  OBVIOUS
<1>4. /\ step = "done" => ItemAgrees' /\ AllCarriedOut'
      /\ step # "done" => At(step, h)'
  BY <1>2
<1>5. QED  BY <1>1, <1>2, <1>3, <1>4, SerialTurn

\* A submission that passed its first read finds no pending request.
LEMMA SubmitFindSerial ==
    ASSUME IInv, SerialInv, NEW r \in Requests, SubmitFind(r)
    PROVE  SerialInv'
<1>1. pc[r] = "find" /\ UNCHANGED <<item, movements, validations, faults>>
  BY DEF SubmitFind
<1>2. pc[r] \in Steps /\ "insert" \in Steps
  BY <1>1 DEF Steps
<1>3. PICK h \in Locals : h = local[r]
  BY Typed
<1>4. At("find", h)
  BY <1>1, <1>2, <1>3 DEF SerialInv
<1>5. At("insert", h) /\ PendingValidations = {}
  BY <1>4 DEF At, ItemAgrees
<1>6. Goto(r, "insert") /\ local' = local
  BY <1>5 DEF SubmitFind
<1>7. At("insert", h)' /\ KeepsApproved
  BY <1>1, <1>5, SameRequests
<1>8. StockIsArchivedByApproval' /\ AwaitsBearable'
  BY <1>1, <1>7, SameItem
<1>9. QED  BY <1>2, <1>3, <1>6, <1>7, <1>8, SerialGoto

\* It creates the only pending request there is.
LEMMA SubmitInsertSerial ==
    ASSUME IInv, SerialInv, NEW r \in Requests, SubmitInsert(r)
    PROVE  SerialInv'
<1>1. PICK h \in Locals : h = local[r]
  BY Typed
<1> DEFINE op == [action |-> h.action, payload |-> PayloadOf(h)]
           row == [status |-> "PENDING_VALIDATION", submittedBy |-> h.by,
                   reviewedBy |-> NoUser, op |-> op, applied |-> <<>>,
                   together |-> FALSE, failed |-> FALSE]
<1>n. PICK n : n = Len(validations) + 1
  OBVIOUS
<1>2. /\ pc[r] = "insert" /\ Goto(r, "mark") /\ local' = local
      /\ validations' = Append(validations, row)
      /\ UNCHANGED <<item, movements>>
  BY <1>1 DEF SubmitInsert
<1>3. pc[r] \in Steps /\ "mark" \in Steps
  BY <1>2 DEF Steps
<1>4. At("insert", h)
  BY <1>1, <1>2, <1>3 DEF SerialInv
<1>5. /\ h.snap = item /\ ~Pending(item) /\ item.isActive
      /\ Bearable(h.action, PayloadOf(h))
      /\ PendingValidations = {} /\ AllCarriedOut
  BY <1>4 DEF At, ItemAgrees
<1>6. /\ row.status = "PENDING_VALIDATION" /\ row.applied = <<>>
      /\ row.op.action = h.action /\ row.op.payload = PayloadOf(h)
  OBVIOUS
<1> HIDE DEF row
<1>7. /\ DOMAIN validations' = DOMAIN validations \cup {n}
      /\ n \notin DOMAIN validations
      /\ validations'[n] = row
      /\ \A v \in DOMAIN validations : validations'[v] = validations[v]
  <2>1. validations \in Seq(ValidationRows)
    BY Typed
  <2>2. /\ Len(validations) \in Nat
        /\ DOMAIN validations = 1..Len(validations)
    BY <2>1
  <2>3. /\ DOMAIN validations' = 1..n
        /\ validations'[n] = row
        /\ \A v \in 1..Len(validations) : validations'[v] = validations[v]
    BY <1>2, <1>n, <2>1, <2>2
  <2>4. QED  BY <1>n, <2>2, <2>3
<1>8. PendingValidations' = {n}
  BY <1>5, <1>6, <1>7 DEF PendingValidations
<1>9. AllCarriedOut'
  BY <1>5, <1>6, <1>7 DEF AllCarriedOut, CarriedOut
<1>10. KeepsApproved
  BY <1>7 DEF KeepsApproved
<1>11. StockIsArchivedByApproval' /\ AwaitsBearable'
  BY <1>2, <1>10, SameItem
<1>12. At("mark", h)'
  <2>1. IsFor(validations[n], h.action, PayloadOf(h))'
    BY <1>6, <1>7 DEF IsFor, PayloadOf, Abs
  <2>2. n \in DOMAIN validations'
    BY <1>7
  <2>3. item' = item
    BY <1>2
  <2>4. ~Pending(item)' /\ item'.isActive /\ Bearable(h.action, PayloadOf(h))'
    BY <1>5, <2>3 DEF Bearable, Pending, PayloadOf, Abs
  <2>5. QED  BY <1>5, <1>8, <1>9, <2>1, <2>2, <2>3, <2>4 DEF At, IsFor
<1>13. QED  BY <1>1, <1>2, <1>3, <1>11, <1>12, SerialGoto

\* It writes on the item the operation of the request it created.
LEMMA SubmitMarkSerial ==
    ASSUME IInv, SerialInv, NEW r \in Requests, SubmitMark(r)
    PROVE  SerialInv'
<1>1. PICK h \in Locals : h = local[r]
  BY Typed
<1>2. /\ pc[r] = "mark" /\ Finish(r)
      /\ item' = [item EXCEPT !.validationStatus = "PENDING_VALIDATION",
                              !.pendingValidationAction = h.action,
                              !.pendingValidationPayload = PayloadOf(h)]
      /\ UNCHANGED <<movements, validations>>
  BY <1>1 DEF SubmitMark
<1>3. pc[r] \in Steps
  BY <1>2 DEF Steps
<1>4. At("mark", h)
  BY <1>1, <1>2, <1>3 DEF SerialInv
<1>5. /\ item.isActive /\ Bearable(h.action, PayloadOf(h)) /\ AllCarriedOut
      /\ \E v \in DOMAIN validations :
            PendingValidations = {v} /\ IsFor(validations[v], h.action, PayloadOf(h))
  BY <1>4 DEF At
<1>6. /\ item'.currentQuantity = item.currentQuantity
      /\ item'.isActive = item.isActive
      /\ item'.validationStatus = "PENDING_VALIDATION"
      /\ item'.pendingValidationAction = h.action
      /\ item'.pendingValidationPayload = PayloadOf(h)
  BY <1>2, Typed DEF ItemRows
<1>8. StockIsArchivedByApproval'
  BY <1>5, <1>6 DEF StockIsArchivedByApproval
<1>9. AwaitsBearable'
  BY <1>5, <1>6 DEF AwaitsBearable, Bearable
<1>10. AllCarriedOut'
  BY <1>2, <1>5, SameRequests
<1>11. ItemAgrees'
  BY <1>2, <1>5, <1>6 DEF ItemAgrees, PendingValidations, IsForItem, Pending
<1>12. QED  BY <1>2, <1>3, <1>8, <1>9, <1>10, <1>11, SerialEnd

\* A review that finds the item pending has found the one request about it.
LEMMA ReviewFindSerial ==
    ASSUME IInv, SerialInv, NEW r \in Requests, ReviewFind(r)
    PROVE  SerialInv'
<1>1. pc[r] = "revfind" /\ UNCHANGED <<item, movements, faults>>
  BY DEF ReviewFind
<1>2. pc[r] \in Steps
  BY <1>1 DEF Steps
<1>3. At("revfind", local[r])
  BY <1>1, <1>2 DEF SerialInv
<1>4. local[r].snap = item /\ ItemAgrees /\ AllCarriedOut
  BY <1>3 DEF At
<1>5. CASE Finish(r) /\ UNCHANGED validations
  BY <1>1, <1>5, SerialRefusal
<1>6. ASSUME NEW v \in PendingValidations,
             Goto(r, "revupdate"), local' = [local EXCEPT ![r].val = v], FoundBy(v)
      PROVE  SerialInv'
  <2> DEFINE g == [local[r] EXCEPT !.val = v]
  <2>1. v \in DOMAIN validations /\ v \in Nat
    BY Typed DEF PendingValidations
  <2>2. PICK w \in DOMAIN validations :
           PendingValidations = {w} /\ IsForItem(validations[w]) /\ Pending(item)
    BY <1>4, <1>6 DEF ItemAgrees
  <2>3. v = w
    BY <1>6, <2>2
  <2>4. local' = [local EXCEPT ![r] = g]
    BY <1>6, Typed
  <2>5. g \in Locals /\ g.val = v /\ g.snap = local[r].snap
    BY <2>1, Typed DEF Locals
  <2> HIDE DEF g
  <2>6. PICK h \in Locals : h = g
    BY <2>5
  <2>7. At("revupdate", h)
    BY <1>4, <2>1, <2>2, <2>3, <2>5, <2>6 DEF At
  <2>a. KeepsRequests
    <3>1. validations[v] \in ValidationRows /\ validations \in Seq(ValidationRows)
      BY <2>1, Typed
    <3>2. QED  BY <1>6, <2>1, <3>1 DEF FoundBy, KeepsRequests, ValidationRows
  <2>8. At("revupdate", h)' /\ KeepsApproved
    BY <1>1, <2>7, <2>a, SameRequests
  <2>9. StockIsArchivedByApproval' /\ AwaitsBearable'
    BY <1>1, <2>8, SameItem
  <2>10. PICK step \in Steps \cup {"done"} : step = "revupdate"
    BY DEF Steps
  <2>11. /\ pc' = [pc EXCEPT ![r] = step] /\ local' = [local EXCEPT ![r] = h]
         /\ step = "done" => ItemAgrees' /\ AllCarriedOut'
         /\ step # "done" => At(step, h)'
         /\ pc[r] \in Steps \/ Quiescent
    BY <1>2, <1>6, <2>4, <2>6, <2>8, <2>10 DEF Goto
  <2>12. QED  BY <2>9, <2>11, SerialTurn
<1>7. QED  BY <1>5, <1>6 DEF ReviewFind, FoundBy

\* Closing it leaves no pending request: the item alone still says it awaits one.
LEMMA ReviewUpdateSerial ==
    ASSUME IInv, SerialInv, NEW r \in Requests, ReviewUpdate(r)
    PROVE  SerialInv'
<1>1. PICK h \in Locals : h = local[r]
  BY Typed
<1>2. PICK status \in ValidationStatuses \ {"PENDING_VALIDATION"} : status = Resulting(h.call)
  BY DEF Resulting, ValidationStatuses
<1>3. PICK v : v = h.val
  OBVIOUS
<1>4. /\ pc[r] = "revupdate" /\ Goto(r, "decide") /\ local' = local
      /\ validations' = [validations EXCEPT ![v].status = status,
                                            ![v].reviewedBy = h.by]
      /\ UNCHANGED <<item, movements>>
  BY <1>1, <1>2, <1>3 DEF ReviewUpdate
<1>5. pc[r] \in Steps /\ "decide" \in Steps
  BY <1>4 DEF Steps
<1>6. At("revupdate", h)
  BY <1>1, <1>4, <1>5 DEF SerialInv
<1>7. /\ h.snap = item /\ AllCarriedOut /\ Pending(item)
      /\ v \in DOMAIN validations /\ PendingValidations = {v}
      /\ IsForItem(validations[v])
  BY <1>3, <1>6 DEF At
<1>8. /\ DOMAIN validations' = DOMAIN validations
      /\ validations'[v].status = status
      /\ validations'[v].op = validations[v].op
      /\ validations'[v].applied = validations[v].applied
      /\ \A w \in DOMAIN validations : w # v => validations'[w] = validations[w]
  <2>1. validations \in Seq(ValidationRows) /\ validations[v] \in ValidationRows
    BY <1>7, Typed
  <2>2. QED  BY <1>4, <1>7, <2>1 DEF ValidationRows
<1>9. PendingValidations' = {}
  BY <1>2, <1>7, <1>8 DEF PendingValidations
<1>10. validations[v].status = "PENDING_VALIDATION" /\ validations[v].applied = <<>>
  BY <1>7 DEF PendingValidations, AllCarriedOut, CarriedOut
<1>11. KeepsApproved
  BY <1>8, <1>10 DEF KeepsApproved
<1>12. StockIsArchivedByApproval' /\ AwaitsBearable'
  BY <1>4, <1>11, SameItem
<1>13. \A w \in DOMAIN validations' : w # v => CarriedOut(validations'[w])
  BY <1>7, <1>8 DEF AllCarriedOut
<1>14. At("decide", h)'
  <2>1. Pending(item)' /\ IsForItem(validations[v])' /\ item' = item
    BY <1>4, <1>7, <1>8 DEF Pending, IsForItem, IsFor
  <2>2. validations'[v].status = Resulting(h.call) /\ validations'[v].applied = <<>>
    BY <1>2, <1>8, <1>10
  <2>3. v \in DOMAIN validations'
    BY <1>7, <1>8
  <2>4. \A w \in DOMAIN validations' : w # v => CarriedOut(validations[w])'
    BY <1>13 DEF CarriedOut
  <2>5. QED
    BY <1>3, <1>7, <1>9, <2>1, <2>2, <2>3, <2>4 DEF At, Resulting
<1>15. QED  BY <1>1, <1>4, <1>5, <1>12, <1>14, SerialGoto

\* A reviewer who is alone approves the request the item is pending for, and
\* applies its operation.
LEMMA ApprovalSerial ==
    ASSUME IInv, SerialInv, NEW r \in Requests, Deciding(r, {"approve"}), Applied(r),
           item'.validationStatus = "APPROVED"
    PROVE  /\ ItemAgrees' /\ AllCarriedOut' /\ AwaitsBearable'
           /\ \E v \in DOMAIN validations' :
                 /\ validations'[v].op.action = local[r].snap.pendingValidationAction
                 /\ validations'[v].status = "APPROVED"
<1>1. PICK h \in Locals : h = local[r]
  BY Typed
<1>2. PICK v : v = h.val
  OBVIOUS
<1>3. PICK op : op = [action |-> h.snap.pendingValidationAction,
                      payload |-> h.snap.pendingValidationPayload]
  OBVIOUS
<1>4. pc[r] = "decide" /\ h.call = "approve"
  BY <1>1 DEF Deciding
<1>5. pc[r] \in Steps
  BY <1>4 DEF Steps
<1>6. At("decide", h)
  BY <1>1, <1>4, <1>5 DEF SerialInv
<1>7. /\ h.snap = item /\ PendingValidations = {}
      /\ v \in DOMAIN validations
      /\ validations[v].status = "APPROVED"
      /\ validations[v].applied = <<>>
      /\ IsForItem(validations[v])
      /\ \A w \in DOMAIN validations : w # v => CarriedOut(validations[w])
  BY <1>2, <1>4, <1>6 DEF At, Resulting
<1>8. validations \in Seq(ValidationRows) /\ validations[v] \in ValidationRows
  BY <1>7, Typed
<1>9. validations[v].op = op
  BY <1>3, <1>7, <1>8 DEF IsForItem, IsFor, ValidationRows, Operations
<1>10. validations' = [validations EXCEPT ![v].applied = Append(@, op)]
  BY <1>1, <1>2, <1>3 DEF Applied
<1>11. Append(validations[v].applied, op) = <<op>>
  BY <1>7
<1>12. /\ DOMAIN validations' = DOMAIN validations
       /\ validations'[v].status = "APPROVED"
       /\ validations'[v].op = op
       /\ validations'[v].applied = <<op>>
       /\ \A w \in DOMAIN validations : w # v => validations'[w] = validations[w]
  BY <1>7, <1>8, <1>9, <1>10, <1>11 DEF ValidationRows
<1>13. PendingValidations' = {}
  BY <1>7, <1>12 DEF PendingValidations
<1>14. AllCarriedOut'
  BY <1>7, <1>12 DEF AllCarriedOut, CarriedOut
<1>15. ItemAgrees' /\ AwaitsBearable'
  BY <1>13 DEF ItemAgrees, AwaitsBearable, Pending
<1>16. v \in DOMAIN validations' /\ op.action = local[r].snap.pendingValidationAction
  BY <1>1, <1>3, <1>7, <1>12
<1>17. QED  BY <1>12, <1>14, <1>15, <1>16

\* What is known of a handler that is alone when it decides.
LEMMA AloneAtDecide ==
    ASSUME IInv, SerialInv, NEW r \in Requests, pc[r] = "decide"
    PROVE  /\ pc[r] \in Steps
           /\ local[r].snap = item
           /\ Pending(item) /\ item.isActive
           /\ Bearable(item.pendingValidationAction, item.pendingValidationPayload)
<1>1. pc[r] \in Steps
  BY DEF Steps
<1>2. At("decide", local[r])
  BY <1>1 DEF SerialInv
<1>3. local[r].snap = item /\ Pending(item)
  BY <1>2 DEF At
<1>4. QED  BY <1>1, <1>3 DEF SerialInv, AwaitsBearable

LEMMA DecideArchiveSerial ==
    ASSUME IInv, SerialInv, NEW r \in Requests, DecideArchive(r)
    PROVE  SerialInv'
<1>1. /\ Deciding(r, {"approve"}) /\ pc[r] = "decide"
      /\ local[r].snap.pendingValidationAction = "STOCK_ITEM_ARCHIVE"
      /\ item' = [Cleared(item) EXCEPT !.isActive = FALSE]
      /\ Applied(r) /\ Finish(r) /\ movements' = movements
  BY DEF DecideArchive, Deciding
<1>2. item'.currentQuantity = item.currentQuantity /\ item'.validationStatus = "APPROVED"
  BY <1>1, Typed DEF Cleared, ItemRows
<1>3. /\ ItemAgrees' /\ AllCarriedOut' /\ AwaitsBearable'
      /\ \E v \in DOMAIN validations' :
            /\ validations'[v].op.action = "STOCK_ITEM_ARCHIVE"
            /\ validations'[v].status = "APPROVED"
  BY <1>1, <1>2, ApprovalSerial
<1>5. StockIsArchivedByApproval'
  BY <1>3 DEF StockIsArchivedByApproval
<1>6. pc[r] \in Steps
  BY <1>1, AloneAtDecide
<1>7. QED  BY <1>1, <1>3, <1>5, <1>6, SerialEnd

\* What was submitted can still be borne.
LEMMA DecideStockSerial ==
    ASSUME IInv, SerialInv, NEW r \in Requests, DecideStock(r)
    PROVE  SerialInv'
<1> DEFINE p == local[r].snap.pendingValidationPayload
           next == item.currentQuantity + (IF p.positive THEN p.quantity ELSE -p.quantity)
<1>1. /\ Deciding(r, {"approve"}) /\ pc[r] = "decide"
      /\ local[r].snap.pendingValidationAction # "STOCK_ITEM_ARCHIVE"
  BY DEF DecideStock, Deciding
<1>2. /\ pc[r] \in Steps /\ local[r].snap = item /\ item.isActive
      /\ Bearable(item.pendingValidationAction, item.pendingValidationPayload)
  BY <1>1, AloneAtDecide
<1>3. p.positive \/ item.currentQuantity >= p.quantity
  BY <1>1, <1>2 DEF Bearable
<1>4. item' = [Cleared(item) EXCEPT !.currentQuantity = next] /\ Applied(r) /\ Finish(r)
  BY <1>3 DEF DecideStock
<1>5. item'.isActive = item.isActive /\ item'.validationStatus = "APPROVED"
  BY <1>4, Typed DEF Cleared, ItemRows
<1>6. StockIsArchivedByApproval'
  BY <1>2, <1>5 DEF StockIsArchivedByApproval
<1>7. ItemAgrees' /\ AllCarriedOut' /\ AwaitsBearable'
  BY <1>1, <1>4, <1>5, ApprovalSerial
<1>8. QED  BY <1>2, <1>4, <1>6, <1>7, SerialEnd

\* A refusal ends what the item awaited.
LEMMA DecideRefusalSerial ==
    ASSUME IInv, SerialInv, NEW r \in Requests, DecideRefusal(r)
    PROVE  SerialInv'
<1>1. PICK h \in Locals : h = local[r]
  BY Typed
<1>2. /\ pc[r] = "decide" /\ h.call \in {"reject", "requestChanges"} /\ Finish(r)
      /\ item' = [item EXCEPT !.validationStatus = Resulting(h.call)]
      /\ UNCHANGED <<movements, validations>>
  BY <1>1 DEF DecideRefusal, Deciding
<1>3. pc[r] \in Steps /\ item.isActive
  BY <1>2, AloneAtDecide
<1>4. At("decide", h)
  BY <1>1, <1>2, <1>3 DEF SerialInv
<1>5. Resulting(h.call) \in {"REJECTED", "CHANGES_REQUESTED"}
  BY <1>2 DEF Resulting
<1>6. /\ item'.currentQuantity = item.currentQuantity
      /\ item'.isActive = item.isActive
      /\ ~Pending(item')
  BY <1>2, <1>5, Typed DEF ItemRows, Pending
<1>7. PendingValidations' = {}
  BY <1>2, <1>4 DEF At, PendingValidations
<1>8. AllCarriedOut
  <2>1. /\ validations[h.val].applied = <<>>
        /\ validations[h.val].status # "APPROVED"
        /\ \A v \in DOMAIN validations : v # h.val => CarriedOut(validations[v])
    BY <1>4, <1>5 DEF At
  <2>2. QED  BY <2>1 DEF AllCarriedOut, CarriedOut
<1>10. StockIsArchivedByApproval'
  BY <1>3, <1>6 DEF StockIsArchivedByApproval
<1>11. ItemAgrees' /\ AwaitsBearable'
  BY <1>6, <1>7 DEF ItemAgrees, AwaitsBearable, Pending
<1>12. AllCarriedOut'
  BY <1>2, <1>8, SameRequests
<1>13. QED  BY <1>2, <1>3, <1>10, <1>11, <1>12, SerialEnd

\* The item as it is created.
LEMMA InitSerial == Init => SerialInv
<1> SUFFICES ASSUME Init PROVE SerialInv
  OBVIOUS
<1>1. /\ item = InitialItem /\ validations = <<>>
      /\ pc = [r \in Requests |-> "idle"]
  BY DEF Init
<1>2. /\ item.currentQuantity = InitialQuantity /\ item.isActive
      /\ ~Pending(item)
  BY <1>1 DEF InitialItem, Pending, NoStatus
<1>3. \A r \in Requests : pc[r] \notin Steps
  BY <1>1 DEF Steps
<1>5. DOMAIN validations = {}
  BY <1>1
<1>6. PendingValidations = {} /\ AllCarriedOut
  BY <1>5 DEF PendingValidations, AllCarriedOut
<1>7. ItemAgrees /\ AwaitsBearable /\ StockIsArchivedByApproval
  BY <1>2, <1>6 DEF ItemAgrees, AwaitsBearable, StockIsArchivedByApproval
<1>8. QED  BY <1>3, <1>6, <1>7 DEF SerialInv

\* Without faults no handler dies.
LEMMA NobodyDies ==
    ASSUME OneAtATime, IInv, NEW r \in Requests
    PROVE  ~Fail(r)
<1>1. faults \in 0..0
  BY DEF OneAtATime, IInv, TypeOK
<1>2. ~(faults < MaxFaults)
  BY <1>1 DEF OneAtATime
<1>3. QED  BY <1>2 DEF Fail

LEMMA NextSerial == OneAtATime /\ IInv /\ SerialInv /\ [Next]_vars => SerialInv'
<1> SUFFICES ASSUME OneAtATime, IInv, SerialInv, [Next]_vars PROVE SerialInv'
  OBVIOUS
<1>1. CASE UNCHANGED vars
  <2>1. UNCHANGED <<item, movements, validations, pc, local>>
    BY <1>1 DEF vars
  <2>2. /\ KeepsApproved
        /\ ItemAgrees => ItemAgrees'
        /\ AllCarriedOut => AllCarriedOut'
        /\ \A step, h : At(step, h) => At(step, h)'
    BY <2>1, SameRequests
  <2>3. StockIsArchivedByApproval' /\ AwaitsBearable'
    BY <2>1, <2>2, SameItem
  <2>4. Quiescent' => ItemAgrees' /\ AllCarriedOut'
    BY <2>1, <2>2 DEF SerialInv, Quiescent, InFlight
  <2>5. ASSUME NEW r \in Requests, pc'[r] \in Steps
        PROVE  At(pc[r], local[r])'
    <3>1. PICK step, h : step = pc[r] /\ h = local[r]
      OBVIOUS
    <3>2. At(step, h)
      BY <2>1, <2>5, <3>1 DEF SerialInv
    <3>3. At(step, h)'
      BY <2>2, <3>2
    <3>4. step = pc'[r] /\ h = local'[r]
      BY <2>1, <3>1
    <3>5. QED  BY <3>3, <3>4 DEF At
  <2>6. \A r, s \in Requests : pc'[r] \in Steps /\ pc'[s] \in Steps => r = s
    BY <2>1 DEF SerialInv
  <2>7. QED  BY <2>3, <2>4, <2>5, <2>6 DEF SerialInv
<1>2. ASSUME NEW r \in Requests, Start(r) PROVE SerialInv'
  BY <1>2, StartSerial
<1>3. ASSUME NEW r \in Requests, Step(r) PROVE SerialInv'
  BY <1>3, RecountSerial, ApplyEntrySerial, ApplyExitSerial, ApplyAdjustmentSerial,
     ApplyTransferSerial, ApplyArchiveSerial, ApplyUpdateSerial, SubmitFindSerial,
     SubmitInsertSerial, SubmitMarkSerial, ReviewFindSerial, ReviewUpdateSerial,
     DecideArchiveSerial, DecideStockSerial, DecideRefusalSerial DEF Step
<1>4. ASSUME NEW r \in Requests, Fail(r) PROVE SerialInv'
  BY <1>4, NobodyDies
<1>5. QED  BY <1>1, <1>2, <1>3, <1>4 DEF Next

\* When the calls come one after the other, the item, its ledger and its requests
\* agree between two of them, and differ within one by what it has yet to write.
THEOREM SerialInvariance ==
    ASSUME OneAtATime PROVE Spec => [](IInv /\ SerialInv)
<1>1. Init => IInv /\ SerialInv
  BY InitInvariant, InitSerial
<1>2. IInv /\ SerialInv /\ [Next]_vars => (IInv /\ SerialInv)'
  BY NextInvariant, NextSerial
<1>3. QED  BY <1>1, <1>2, PTL DEF Spec

LEMMA SerialParts ==
    IInv /\ SerialInv =>
        /\ AppliedIsWhatWasSubmitted
        /\ PendingAgreement
        /\ StockIsArchivedByApproval
<1> SUFFICES ASSUME IInv, SerialInv
             PROVE  /\ AppliedIsWhatWasSubmitted
                    /\ PendingAgreement
                    /\ StockIsArchivedByApproval
  OBVIOUS
<1>2. AppliedIsWhatWasSubmitted
  <2>1. SUFFICES ASSUME NEW v \in DOMAIN validations,
                        NEW i \in DOMAIN validations[v].applied
                 PROVE  validations[v].applied[i] = validations[v].op
    BY DEF AppliedIsWhatWasSubmitted
  <2>2. CASE validations[v].applied = <<>>
    BY <2>2
  <2>3. CASE CarriedOut(validations[v]) /\ validations[v].applied # <<>>
    <3>1. validations[v].applied = <<validations[v].op>>
      BY <2>3 DEF CarriedOut
    <3>2. i = 1
      BY <3>1
    <3>3. QED  BY <3>1, <3>2
  <2>4. CarriedOut(validations[v]) \/ validations[v].applied = <<>>
    <3>1. CASE Quiescent
      BY <3>1 DEF SerialInv, AllCarriedOut
    <3>2. CASE ~Quiescent
      <4>1. PICK r \in Requests : pc[r] \in Steps
        BY <3>2 DEF Quiescent, InFlight
      <4>2. At(pc[r], local[r])
        BY <4>1 DEF SerialInv
      <4>3. CASE pc[r] = "decide"
        <5>1. \/ v = local[r].val /\ validations[v].applied = <<>>
              \/ CarriedOut(validations[v])
          BY <4>2, <4>3 DEF At
        <5>2. QED  BY <5>1
      <4>4. CASE pc[r] # "decide"
        <5>1. pc[r] \in {"recount", "apply", "find", "insert", "revfind", "mark", "revupdate"}
          BY <4>1, <4>4 DEF Steps
        <5>2. AllCarriedOut
          BY <4>2, <5>1 DEF At
        <5>3. QED  BY <5>2 DEF AllCarriedOut
      <4>5. QED  BY <4>3, <4>4
    <3>3. QED  BY <3>1, <3>2
  <2>5. QED  BY <2>2, <2>3, <2>4
<1>3. PendingAgreement
  BY DEF SerialInv, PendingAgreement, ItemAgrees, IsForItem, IsFor
<1>4. StockIsArchivedByApproval
  BY DEF SerialInv
<1>5. QED  BY <1>2, <1>3, <1>4

\* What an approval applies is what was submitted with that request.
THEOREM ApprovalsApplyTheirOwn ==
    ASSUME OneAtATime PROVE Spec => []AppliedIsWhatWasSubmitted
<1>1. IInv /\ SerialInv => AppliedIsWhatWasSubmitted
  BY SerialParts
<1>2. QED  BY <1>1, SerialInvariance, PTL

\* Between two calls, the item is pending for exactly the request that is pending.
THEOREM ItemAndRequestsAgree ==
    ASSUME OneAtATime PROVE Spec => []PendingAgreement
<1>1. IInv /\ SerialInv => PendingAgreement
  BY SerialParts
<1>2. QED  BY <1>1, SerialInvariance, PTL

\* Stock is put away with its item only by an approved request to archive it.
THEOREM StockIsNotArchivedAlone ==
    ASSUME OneAtATime PROVE Spec => []StockIsArchivedByApproval
<1>1. IInv /\ SerialInv => StockIsArchivedByApproval
  BY SerialParts
<1>2. QED  BY <1>1, SerialInvariance, PTL
=============================================================================
