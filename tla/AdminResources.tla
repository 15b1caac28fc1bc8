---------------------------- MODULE AdminResources ----------------------------
(***************************************************************************)
(* The registers of hadoum_api whose sensitive operations are decided by   *)
(* somebody else: contracts, procedures, tickets, assets, entries, goods   *)
(* movements, activities and fund requests, with the validations they      *)
(* share.                                                                  *)
(*                                                                         *)
(* The handlers lock nothing, so two that overlap can leave a row and its  *)
(* request apart, as can one that dies between two statements (the runs of *)
(* StockItems show how).  The properties say what holds whatever happens,  *)
(* and, where "clean" is assumed, what any sequence of calls that neither  *)
(* overlap nor die preserves.                                              *)
(***************************************************************************)
EXTENDS ResourceScreens

Next ==
    \E w \in Workers :
       \/ HandlerStep(w)
       \/ ContractsNext(w)
       \/ ProceduresNext(w)
       \/ TicketsNext(w)
       \/ AssetsNext(w)
       \/ EntriesNext(w)
       \/ MovementsNext(w)
       \/ SubmissionsNext(w)

Spec == Init /\ [][Next]_vars

(***************************************************************************)
(* A row says that it awaits a validation exactly when it has an open      *)
(* request, and has no two.  A director who reads the row and a supervisor *)
(* who reads the list of the pending validations see the same, although no *)
(* statement writes both tables.                                           *)
(***************************************************************************)
RequestsAgree ==
    clean /\ Quiet =>
       \A x \in Items :
          /\ IsPending(x) <=> OpenOf(x) # {}
          /\ \A p, q \in OpenOf(x) : p = q

(***************************************************************************)
(* While a row awaits its validation, no operation makes what was          *)
(* submitted senseless: the condition it was submitted under still holds   *)
(* when it is decided.  The services leave three doors open, and the       *)
(* property says no more than they are: a contract can be archived         *)
(* meanwhile, a procedure be given any of the statuses that are set by     *)
(* hand, and goods whose archive was asked for come back.                  *)
(***************************************************************************)
StillMakesSense(row) ==
    CASE row.kind = "SUPPLIER_CONTRACT" ->
            ContractAllows(row, row.action) \/ row.status = "ARCHIVE"
      [] row.kind = "ADMINISTRATIVE_PROCEDURE" ->
            ProcedureAllows(row, row.action) \/ row.status \in MANUALLY_SETTABLE_STATUSES
      [] row.kind = "INVENTORY_ASSET" -> row.status # "ARCHIVE"
      [] row.kind = "ENTRY_LOG" ->
            (CASE row.action = "ACCESS_OVERRIDE" -> row.status = "REFUSEE"
               [] row.action = "AFTER_HOURS_ACCESS" -> row.status = "PREVUE"
               [] row.action = "EXCEPTIONAL_EXIT" -> row.status = "PRESENT"
               [] row.action = "MANUAL_CHECKOUT_OVERRIDE" ->
                     row.departed /\ row.status # "ARCHIVEE"
               [] row.action = "RECORD_ARCHIVE" -> row.status \in {"PREVUE", "PRESENT"})
      [] row.kind = "GOODS_MOVEMENT_LOG" ->
            (IF row.action = "RECORD_ARCHIVE"
             THEN row.status \in {"SORTI", "EN_ATTENTE_VALIDATION", "RETOURNE"}
             ELSE row.status = "EN_ATTENTE_VALIDATION")
      [] OTHER -> TRUE

PendingStaysSensible ==
    clean /\ Quiet => \A x \in Items : IsPending(x) => StillMakesSense(rows[x])

(***************************************************************************)
(* What a page offers for a row it has just loaded, the service accepts:   *)
(* the conditions are written twice, in the windows of the frontend and in *)
(* the services, and the buttons of a supervisor come from the row in the  *)
(* one place and from the requests in the other.                           *)
(***************************************************************************)
OfferedIsAccepted ==
    clean /\ Quiet =>
       \A x \in Items, user \in Directors \cup Supervisors :
          Exists(x) => \A call \in Offered(x, user) : Accepted(x, user, call)

(***************************************************************************)
(* What is kept for a decision changes by the decision of somebody who did *)
(* not submit it: a contract is activated or terminated, a procedure       *)
(* submitted or finalised, an asset disposed of or archived, and a row is  *)
(* marked as approved in no other way.  That holds whatever overlaps and   *)
(* whatever dies.  In a clean behaviour it holds as well of what is read   *)
(* before it is decided whether a validation is due, or written back as it *)
(* was read: the closure of a critical ticket, the access of who was       *)
(* refused, an exceptional exit, goods that go out, the archive of an      *)
(* entry or a movement that is not over.                                   *)
(***************************************************************************)
DecidedStatuses ==
    [SUPPLIER_CONTRACT |-> {"ACTIF", "RESILIE"},
     ADMINISTRATIVE_PROCEDURE |-> {"SOUMIS", "APPROUVE"},
     INVENTORY_ASSET |-> {"PERDU", "VOLE", "CASSE", "REFORME", "ARCHIVE"}]

NeedsADecision(old, new) ==
    \/ new.validation = "APPROVED" /\ old.validation # "APPROVED"
    \/ /\ new.status # old.status
       /\ new.kind \in DOMAIN DecidedStatuses
       /\ new.status \in DecidedStatuses[new.kind]

NeedsADecisionWhenRead(old, new) ==
    CASE new.kind = "MAINTENANCE_TICKET" ->
            old.class = "CRITIQUE" /\ new.status = "FERME" /\ old.status # "FERME"
      [] new.kind = "ENTRY_LOG" ->
            \/ old.status = "REFUSEE" /\ new.status = "PRESENT"
            \/ old.class = "SORTIE_EXCEPTIONNELLE" /\ old.status = "PRESENT" /\ new.status # "PRESENT"
            \/ old.status = "PREVUE" /\ new.status = "ARCHIVEE"
      [] new.kind = "GOODS_MOVEMENT_LOG" ->
            \/ new.status = "SORTI" /\ old.status # "SORTI"
            \/ old.status \in {"SORTI", "EN_ATTENTE_VALIDATION"} /\ new.status = "ARCHIVE"
      [] OTHER -> FALSE

SensitiveChangesAreDecided ==
    [][\A x \in Items :
          \/ NeedsADecision(rows[x], rows'[x])
          \/ clean /\ NeedsADecisionWhenRead(rows[x], rows'[x])
          => DecidedByAnother(x)]_vars

(***************************************************************************)
(* What is archived stays so in a clean behaviour, although no update and  *)
(* no approval looks for it in the statement that writes.  Contracts are   *)
(* the exception: one archived while its validation is pending becomes     *)
(* active again when it is approved.                                       *)
(***************************************************************************)
ArchivedStaysArchived ==
    [][\A x \in Items :
          /\ clean
          /\ rows[x].status \in {"ARCHIVE", "ARCHIVEE"}
          /\ rows[x].kind # "SUPPLIER_CONTRACT"
          => rows'[x].status = rows[x].status]_vars

(***************************************************************************)
(* An asset that is out does not go out again before it is back: what      *)
(* create() of goods movements refuses, but their approval does not look   *)
(* for.                                                                    *)
(***************************************************************************)
AssetsGoOutOnce ==
    clean => \A x, y \in Items :
       LET Out(z) == Is(Movement, z) /\ rows[z].class = "checkout" /\ rows[z].status = "SORTI"
       IN  Out(x) /\ Out(y) => x = y
=============================================================================
