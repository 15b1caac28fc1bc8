--------------------------- MODULE SupplierContracts ---------------------------
(***************************************************************************)
(* SupplierContractsService.  The creation of a contract is the one        *)
(* submission that is a transaction, so it is one step.                    *)
(***************************************************************************)
EXTENDS ReviewedResources

Contract == "SUPPLIER_CONTRACT"

CreateContract(w, x, user) ==
    /\ Idle(w)
    /\ IsNew(Contract, x)
    /\ rows' = [rows EXCEPT ![x].status = "BROUILLON",
                            ![x].validation = "PENDING_VALIDATION",
                            ![x].action = "CREATION"]
    /\ \E n \in 1..MaxIds :
          /\ IsNextId(x, n)
          /\ pending' = pending \cup {[id |-> n, of |-> x, by |-> user]}
    /\ clean' = (clean /\ NobodyElse(w))
    /\ UNCHANGED <<pc, local, faults>>

\* The terms of a contract, whatever its status; no check reads them.
UpdateContract(w, x) == Is(Contract, x) /\ StartWrite(w, x, NoPatch)

ArchiveContract(w, x) == Is(Contract, x) /\ StartWrite(w, x, SetStatus("ARCHIVE"))

ContractAllows(row, action) ==
    IF action = "CREATION" THEN row.status = "BROUILLON"
                           ELSE row.status \notin {"RESILIE", "ARCHIVE"}

CanSubmitContract(x, action) ==
    Is(Contract, x) /\ ContractAllows(rows[x], action) /\ Unreviewed(x)

\* submitValidation, requestRenewal, requestTermination
SubmitContract(w, x, user, action) ==
    /\ CanSubmitContract(x, action)
    /\ StartSubmit(w, x, user, action, "none")

\* Whatever is not a termination activates the contract; a renewal also moves
\* its end.
ContractApproval(row) ==
    SetStatus(IF row.action = "TERMINATION" THEN "RESILIE" ELSE "ACTIF")

ApproveContract(w, x, user) ==
    /\ Is(Contract, x)
    /\ StartReview(w, x, user, "APPROVED", ContractApproval(rows[x]), TRUE)

\* reject, requestChanges
RefuseContract(w, x, user, verdict) ==
    /\ Is(Contract, x)
    /\ StartReview(w, x, user, verdict, NoPatch, FALSE)

ContractsNext(w) ==
    \E x \in Items :
       \/ UpdateContract(w, x)
       \/ ArchiveContract(w, x)
       \/ \E user \in Directors :
             \/ CreateContract(w, x, user)
             \/ \E action \in Actions[Contract] : SubmitContract(w, x, user, action)
       \/ \E user \in Supervisors :
             \/ ApproveContract(w, x, user)
             \/ \E verdict \in Verdicts \ {"APPROVED"} : RefuseContract(w, x, user, verdict)
=============================================================================
