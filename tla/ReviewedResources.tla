-------------------------- MODULE ReviewedResources --------------------------
(***************************************************************************)
(* What the services of hadoum_api that submit their operations to a       *)
(* validation have in common: the rows of their tables, the table          *)
(* ValidationRequest, and the statements by which a handler writes a row,  *)
(* submits an operation or reviews one.  The services themselves (their    *)
(* operations, the checks that follow their first read, what an approval   *)
(* changes) are the modules that extend this one; AdminResources composes  *)
(* them.                                                                   *)
(*                                                                         *)
(* A worker serves one HTTP call after the other, and every awaited        *)
(* statement of a handler is a step.  Nothing is locked and, but for the   *)
(* creation of a contract, nothing is in a transaction.  A handler refused *)
(* by the checks that follow its first read is not a step.                 *)
(*                                                                         *)
(* Closed requests are never read again, so the model keeps the open ones. *)
(* An operator whose comment begins with "Mutant" is no part of the model: *)
(* it is the operator below it with a plausible mistake, which a property  *)
(* of AdminResources must catch.                                           *)
(***************************************************************************)
EXTENDS Naturals, FiniteSets

CONSTANTS
    Items,        \* identifiers of rows
    Workers,      \* handlers that may overlap
    NoItem,       \* the item of an idle worker
    Directors,    \* users by role, as the token of a session says
    Supervisors,
    Educators,
    EntryTypes,   \* types of entries, and of disposals of an asset
    DisposalTypes,
    NoUser,       \* the user of an idle worker
    Populations,  \* which kinds of rows a behaviour may be about
    MaxIds,       \* bound: open requests at a time
    MaxFaults     \* bound: handlers that may die between two steps

Users == Directors \cup Supervisors \cup Educators

ASSUME NullsAssumption == NoItem \notin Items /\ NoUser \notin Users
ASSUME RolesAssumption ==
    /\ Directors \cap Supervisors = {}
    /\ Supervisors \cap Educators = {}
    /\ Directors \cap Educators = {}
ASSUME BoundsAssumption == MaxIds \in Nat /\ MaxFaults \in Nat

VARIABLES
    rows,     \* the row of every item
    pending,  \* the open ValidationRequest rows
    clean,    \* history: no two handlers have overlapped and none has died
    pc,       \* the next step of every worker
    local,    \* what every handler holds in memory
    faults    \* handlers that died so far

vars == <<rows, pending, clean, pc, local, faults>>

(***************************************************************************)
(* Rows.  The columns that no check and no approval reads are left out.    *)
(*   class     what makes an operation sensitive: the urgency of a ticket, *)
(*             the cost of an asset, the type of an entry or a movement    *)
(*   departed  whether the departure of a visitor is recorded              *)
(*   payload   the way of a disposal that is asked for                     *)
(***************************************************************************)
Statuses ==
    [SUPPLIER_CONTRACT |-> {"BROUILLON", "ACTIF", "RESILIE", "ARCHIVE"},
     ADMINISTRATIVE_PROCEDURE |->
        {"A_PREPARER", "EN_COURS", "SOUMIS", "EN_ATTENTE_REPONSE", "APPROUVE", "ARCHIVE"},
     MAINTENANCE_TICKET |-> {"OUVERT", "ASSIGNE", "EN_COURS", "EN_ATTENTE", "FERME"},
     INVENTORY_ASSET |->
        {"DISPONIBLE", "AFFECTE", "EN_MAINTENANCE", "PERDU", "VOLE", "CASSE", "REFORME",
         "ARCHIVE"},
     ENTRY_LOG |-> {"PREVUE", "PRESENT", "SORTI", "ANNULEE", "REFUSEE", "ARCHIVEE"},
     GOODS_MOVEMENT_LOG |->
        {"ENREGISTRE", "SORTI", "RETOURNE", "EN_ATTENTE_VALIDATION", "ANNULE", "ARCHIVE"},
     ACTIVITY |-> {"none"},
     FUND_REQUEST |-> {"none"}]

Kinds == DOMAIN Statuses

\* "none" is null; an item whose status is "absent" has no row yet.
Actions ==
    [SUPPLIER_CONTRACT |-> {"CREATION", "RENEWAL", "TERMINATION"},
     ADMINISTRATIVE_PROCEDURE |-> {"SUBMISSION", "FINALIZATION", "RENEWAL", "ARCHIVE"},
     MAINTENANCE_TICKET |-> {},
     INVENTORY_ASSET |-> {"ASSET_TRANSFER", "ASSET_DISPOSAL", "ASSET_ARCHIVE"},
     ENTRY_LOG |->
        {"EXCEPTIONAL_EXIT", "ACCESS_OVERRIDE", "AFTER_HOURS_ACCESS",
         "MANUAL_CHECKOUT_OVERRIDE", "RECORD_ARCHIVE"},
     GOODS_MOVEMENT_LOG |->
        {"HIGH_VALUE_ASSET_EXIT", "TEMPORARY_ASSET_EXIT", "CONTROLLED_GOODS_EXIT",
         "RECORD_ARCHIVE"},
     ACTIVITY |-> {},
     FUND_REQUEST |-> {}]

Classes == {"none", "CRITIQUE", "MOYENNE", "costly", "cheap", "SORTIE_EXCEPTIONNELLE",
            "VISITE_PREVUE", "ENTREE", "checkout", "borrowed", "controlled",
            "plain"}

Payloads == {"none", "PERTE", "VOL", "CASSE", "REFORME"}

Verdicts == {"APPROVED", "REJECTED", "CHANGES_REQUESTED"}

AllStatuses == UNION {Statuses[k] : k \in Kinds}

AllActions == (UNION {Actions[k] : k \in Kinds}) \cup {"none"}

Rows ==
    [kind : Kinds,
     status : AllStatuses \cup {"absent"},
     class : Classes,
     departed : BOOLEAN,
     validation : Verdicts \cup {"none", "PENDING_VALIDATION"},
     action : AllActions,
     payload : Payloads]

Absent(kind) ==
    [kind |-> kind, status |-> "absent", class |-> "none", departed |-> FALSE,
     validation |-> "none", action |-> "none", payload |-> "none"]

Exists(x) == rows[x].status # "absent"

Is(kind, x) == rows[x].kind = kind /\ Exists(x)

IsNew(kind, x) == rows[x].kind = kind /\ ~Exists(x)

Unreviewed(x) == rows[x].validation # "PENDING_VALIDATION"

\* What an update sets: "keep" stands for the columns it leaves out.
Patches ==
    [status : AllStatuses \cup {"keep"}, class : Classes \cup {"keep"},
     departs : BOOLEAN]

NoPatch == [status |-> "keep", class |-> "keep", departs |-> FALSE]

SetStatus(s) == [NoPatch EXCEPT !.status = s]

Patched(row, patch) ==
    [row EXCEPT !.status = IF patch.status = "keep" THEN @ ELSE patch.status,
                !.class = IF patch.class = "keep" THEN @ ELSE patch.class,
                !.departed = @ \/ patch.departs]

ASSUME PopulationsAssumption == Populations \subseteq [Items -> Kinds]

(***************************************************************************)
(* Requests: id orders those of a row by submittedAt.  What a request was  *)
(* submitted for only its row says.                                        *)
(***************************************************************************)
ValidationRequests ==
    [id : 1..MaxIds, of : Items, by : Users]

NoValidation == [id |-> 0, of |-> NoItem, by |-> NoUser]

OpenOf(x) == {q \in pending : q.of = x}

\* findPendingFor: the latest.
FindPendingFor(x) == {q \in OpenOf(x) : \A p \in OpenOf(x) : p.id <= q.id}

(***************************************************************************)
(* Handlers.  Steps after the first read:                                  *)
(*   write                       the update of a direct operation          *)
(*   record                      the insert of a row to be validated       *)
(*   find, insert, mark          a submission                              *)
(*   look, close, apply          a review                                  *)
(* The notification that ends a submission or a review changes no row.     *)
(***************************************************************************)
Steps == {"write", "record", "find", "insert", "mark", "look", "close", "apply"}

\* patch: what write or apply sets, computed from the row as first read.
\* action, payload: of a submission.  marks: whether a submission ends with the
\* mark.  clears: whether a review forgets the action.
Locals ==
    [item : Items \cup {NoItem},
     user : Users \cup {NoUser},
     patch : Patches,
     action : AllActions,
     payload : Payloads,
     marks : BOOLEAN,
     clears : BOOLEAN,
     verdict : Verdicts \cup {"none"},
     request : ValidationRequests \cup {NoValidation}]

NoCall ==
    [item |-> NoItem, user |-> NoUser, patch |-> NoPatch, action |-> "none",
     payload |-> "none", marks |-> FALSE, clears |-> FALSE, verdict |-> "none",
     request |-> NoValidation]

Idle(w) == pc[w] = "idle"

\* Ids are given again once no request bears them and no handler will close one.
IdsInUse(x) ==
    {q.id : q \in OpenOf(x)} \cup
    {local[v].request.id : v \in {v \in Workers : pc[v] = "close" /\ local[v].item = x}}

IsNextId(x, n) ==
    /\ n \in 1..MaxIds
    /\ n - 1 \in IdsInUse(x) \cup {0}
    /\ \A m \in IdsInUse(x) : m < n

NobodyElse(w) == \A v \in Workers \ {w} : Idle(v)

Begin(w, step, handler) ==
    /\ Idle(w)
    /\ pc' = [pc EXCEPT ![w] = step]
    /\ local' = [local EXCEPT ![w] = handler]
    /\ clean' = (clean /\ NobodyElse(w))
    /\ UNCHANGED <<rows, pending, faults>>

Goto(w, step) == pc' = [pc EXCEPT ![w] = step]

Finish(w) ==
    /\ pc' = [pc EXCEPT ![w] = "idle"]
    /\ local' = [local EXCEPT ![w] = NoCall]
    /\ UNCHANGED <<clean, faults>>

Refuse(w) == Finish(w) /\ UNCHANGED <<rows, pending>>

\* The first read of row x by a user, and what the handler then goes to do.
StartWrite(w, x, patch) ==
    Begin(w, "write", [NoCall EXCEPT !.item = x, !.patch = patch])

StartSubmit(w, x, user, action, payload) ==
    Begin(w, "find",
          [NoCall EXCEPT !.item = x, !.user = user, !.action = action,
                         !.payload = payload, !.marks = TRUE])

StartReview(w, x, user, verdict, patch, clears) ==
    Begin(w, "look",
          [NoCall EXCEPT !.item = x, !.user = user, !.patch = patch,
                         !.clears = clears, !.verdict = verdict])

\* The creation of a row with an operation already submitted.
StartRecord(w, x, user, patch, action) ==
    /\ \A v \in Workers : pc[v] = "record" => local[v].item # x
    /\ Begin(w, "record",
             [NoCall EXCEPT !.item = x, !.user = user, !.patch = patch,
                            !.action = action])

\* The creation of a row by one statement.
Insert(w, x, patch) ==
    /\ Idle(w)
    /\ ~Exists(x)
    /\ \A v \in Workers : pc[v] = "record" => local[v].item # x
    /\ rows' = [rows EXCEPT ![x] = Patched(@, patch)]
    /\ clean' = (clean /\ NobodyElse(w))
    /\ UNCHANGED <<pending, pc, local, faults>>

(***************************************************************************)
(* The statements of a direct operation and of a creation.                 *)
(***************************************************************************)
\* By id, whatever the row has become.
Write(w) ==
    /\ pc[w] = "write"
    /\ rows' = [rows EXCEPT ![local[w].item] = Patched(@, local[w].patch)]
    /\ Finish(w)
    /\ UNCHANGED pending

Record(w) ==
    LET h == local[w]
    IN  /\ pc[w] = "record"
        /\ rows' = [rows EXCEPT ![h.item] =
              [Patched(@, h.patch) EXCEPT !.validation = "PENDING_VALIDATION",
                                          !.action = h.action]]
        /\ Goto(w, "find")
        /\ UNCHANGED <<pending, clean, local, faults>>

(***************************************************************************)
(* ValidationsService.create, and the mark the service then leaves on the  *)
(* row.                                                                    *)
(***************************************************************************)
\* Mutant: create does not look for an open request.
FindNothing(w) ==
    /\ pc[w] = "find"
    /\ Goto(w, "insert")
    /\ UNCHANGED <<rows, pending, clean, local, faults>>

Find(w) ==
    /\ pc[w] = "find"
    /\ IF FindPendingFor(local[w].item) # {}
       THEN Refuse(w)
       ELSE Goto(w, "insert") /\ UNCHANGED <<rows, pending, clean, local, faults>>


InsertRequest(w) ==
    LET h == local[w]
    IN  /\ pc[w] = "insert"
        /\ \E n \in 1..MaxIds :
              /\ IsNextId(h.item, n)
              /\ pending' = pending \cup {[id |-> n, of |-> h.item, by |-> h.user]}
        /\ IF h.marks
           THEN Goto(w, "mark") /\ UNCHANGED <<clean, local, faults>>
           ELSE Finish(w)
        /\ UNCHANGED rows

Mark(w) ==
    LET h == local[w]
    IN  /\ pc[w] = "mark"
        /\ rows' = [rows EXCEPT ![h.item].validation = "PENDING_VALIDATION",
                                ![h.item].action = h.action,
                                ![h.item].payload = h.payload]
        /\ Finish(w)
        /\ UNCHANGED pending

(***************************************************************************)
(* ValidationsService.reviewPending, and the update the service then makes *)
(* of the row, from what it read first.                                    *)
(***************************************************************************)
\* Mutant: whoever submitted may review.
MayReviewAnything(user, q) == TRUE

MayReview(user, q) == q.by # user

Look(w) ==
    LET h == local[w]
    IN  /\ pc[w] = "look"
        /\ \/ /\ \A q \in FindPendingFor(h.item) : ~MayReview(h.user, q)
              /\ Refuse(w)
           \/ \E q \in FindPendingFor(h.item) :
                 /\ MayReview(h.user, q)
                 /\ Goto(w, "close")
                 /\ local' = [local EXCEPT ![w].request = q]
                 /\ UNCHANGED <<rows, pending, clean, faults>>

Close(w) ==
    /\ pc[w] = "close"
    /\ pending' = pending \ {local[w].request}
    /\ Goto(w, "apply")
    /\ UNCHANGED <<rows, clean, local, faults>>

Applied(row, h) ==
    [Patched(row, h.patch) EXCEPT
        !.validation = h.verdict,
        !.action = IF h.clears THEN "none" ELSE @,
        !.payload = IF h.clears THEN "none" ELSE @]

Apply(w) ==
    /\ pc[w] = "apply"
    /\ rows' = [rows EXCEPT ![local[w].item] = Applied(@, local[w])]
    /\ Finish(w)
    /\ UNCHANGED pending

(***************************************************************************)
(* A statement fails, or the process dies: what was written remains.       *)
(***************************************************************************)
Fail(w) ==
    /\ pc[w] \in Steps
    /\ faults < MaxFaults
    /\ pc' = [pc EXCEPT ![w] = "idle"]
    /\ local' = [local EXCEPT ![w] = NoCall]
    /\ clean' = FALSE
    /\ faults' = faults + 1
    /\ UNCHANGED <<rows, pending>>

HandlerStep(w) ==
    \/ Write(w)
    \/ Record(w)
    \/ Find(w)
    \/ InsertRequest(w)
    \/ Mark(w)
    \/ Look(w)
    \/ Close(w)
    \/ Apply(w)
    \/ Fail(w)

Init ==
    /\ \E kinds \in Populations : rows = [x \in Items |-> Absent(kinds[x])]
    /\ pending = {}
    /\ clean = TRUE
    /\ pc = [w \in Workers |-> "idle"]
    /\ local = [w \in Workers |-> NoCall]
    /\ faults = 0

(***************************************************************************)
(* What the properties speak of.                                           *)
(***************************************************************************)
Quiet == \A w \in Workers : Idle(w)

IsPending(x) == rows[x].validation = "PENDING_VALIDATION"

\* Row x changes as the outcome of a review by another than the submitter.
DecidedByAnother(x) ==
    \E w \in Workers :
       /\ pc[w] = "apply"
       /\ local[w].item = x
       /\ local[w].verdict = "APPROVED"
       /\ local[w].request.of = x
       /\ local[w].request.by # local[w].user
=============================================================================
