----------------------- MODULE AdministrativeProcedures -----------------------
(***************************************************************************)
(* AdministrativeProceduresService.  REFUSE and EXPIRE are set by nothing: *)
(* EXPIRE is derived when a procedure is read, and a refusal of the        *)
(* validation leaves the status.                                           *)
(***************************************************************************)
EXTENDS ReviewedResources

Procedure == "ADMINISTRATIVE_PROCEDURE"

MANUALLY_SETTABLE_STATUSES == {"A_PREPARER", "EN_COURS", "EN_ATTENTE_REPONSE"}

CreateProcedure(w, x, status) ==
    /\ IsNew(Procedure, x)
    /\ status \in MANUALLY_SETTABLE_STATUSES
    /\ Insert(w, x, SetStatus(status))

\* Pending or not.
CanUpdateProcedure(x, patch) ==
    /\ Is(Procedure, x)
    /\ patch.status # "keep" =>
          {rows[x].status, patch.status} \subseteq MANUALLY_SETTABLE_STATUSES

UpdateProcedure(w, x, patch) ==
    CanUpdateProcedure(x, patch) /\ StartWrite(w, x, patch)

\* Mutant: the pending validation is forgotten.
CanArchiveAnyProcedure(x) == Is(Procedure, x) /\ rows[x].status # "ARCHIVE"

CanArchiveProcedure(x) ==
    Is(Procedure, x) /\ rows[x].status # "ARCHIVE" /\ Unreviewed(x)

ArchiveProcedure(w, x) ==
    /\ CanArchiveProcedure(x)
    /\ StartWrite(w, x, SetStatus("ARCHIVE"))

ProcedureAllows(row, action) ==
    CASE action = "FINALIZATION" -> row.status \in {"SOUMIS", "EN_ATTENTE_REPONSE"}
      [] action = "SUBMISSION" -> row.status \in {"A_PREPARER", "EN_COURS"}
      [] OTHER -> row.status # "ARCHIVE"

CanSubmitProcedure(x, action) ==
    Is(Procedure, x) /\ ProcedureAllows(rows[x], action) /\ Unreviewed(x)

\* submitValidation, requestRenewal, requestArchive
SubmitProcedure(w, x, user, action) ==
    /\ CanSubmitProcedure(x, action)
    /\ StartSubmit(w, x, user, action, "none")

ProcedureApproval(row) ==
    CASE row.action = "SUBMISSION" -> SetStatus("SOUMIS")
      [] row.action = "FINALIZATION" -> SetStatus("APPROUVE")
      [] row.action = "RENEWAL" -> SetStatus("EN_COURS")
      [] row.action = "ARCHIVE" -> SetStatus("ARCHIVE")
      [] OTHER -> NoPatch

ApproveProcedure(w, x, user) ==
    /\ Is(Procedure, x)
    /\ StartReview(w, x, user, "APPROVED", ProcedureApproval(rows[x]), TRUE)

RefuseProcedure(w, x, user, verdict) ==
    /\ Is(Procedure, x)
    /\ StartReview(w, x, user, verdict, NoPatch, FALSE)

ProcedurePatches == {NoPatch} \cup {SetStatus(s) : s \in MANUALLY_SETTABLE_STATUSES}

ProceduresNext(w) ==
    \E x \in Items :
       \/ \E status \in MANUALLY_SETTABLE_STATUSES : CreateProcedure(w, x, status)
       \/ \E patch \in ProcedurePatches : UpdateProcedure(w, x, patch)
       \/ ArchiveProcedure(w, x)
       \/ \E user \in Directors, action \in Actions[Procedure] :
             SubmitProcedure(w, x, user, action)
       \/ \E user \in Supervisors :
             \/ ApproveProcedure(w, x, user)
             \/ \E verdict \in Verdicts \ {"APPROVED"} : RefuseProcedure(w, x, user, verdict)
=============================================================================
