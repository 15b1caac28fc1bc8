--------------------------- MODULE GoodsMovementLogs ---------------------------
(***************************************************************************)
(* GoodsMovementLogsService.  The class of a movement is its type:         *)
(* "checkout" for CHECKOUT_TYPES, all of one asset, or "borrowed" if they  *)
(* name none, "controlled" for CONTROLLED_EXIT_TYPES, "plain" for the      *)
(* others.  What the asset costs, and whether a controlled exit is large,  *)
(* is any.                                                                 *)
(***************************************************************************)
EXTENDS ReviewedResources

Movement == "GOODS_MOVEMENT_LOG"

Checkouts == {"HIGH_VALUE_ASSET_EXIT", "TEMPORARY_ASSET_EXIT"}

MovementTypes == {"checkout", "borrowed", "controlled", "plain"}

\* What determineSensitiveAction may answer for a type of movements.
SensitiveActions(type) ==
    CASE type = "checkout" -> Checkouts
      [] type = "borrowed" -> {"TEMPORARY_ASSET_EXIT"}
      [] type = "controlled" -> {"CONTROLLED_GOODS_EXIT", "none"}
      [] type = "plain" -> {"none"}

AnOpenExit ==
    \E x \in Items :
       Is(Movement, x) /\ rows[x].class = "checkout" /\ rows[x].status = "SORTI"

CreateMovement(w, x, user, type, action) ==
    /\ IsNew(Movement, x)
    /\ type = "checkout" => ~AnOpenExit
    /\ action \in SensitiveActions(type)
    /\ IF action = "none"
       THEN Insert(w, x, [SetStatus("ENREGISTRE") EXCEPT !.class = type])
       ELSE StartRecord(w, x, user,
               [SetStatus("EN_ATTENTE_VALIDATION") EXCEPT !.class = type], action)

UpdateMovement(w, x) ==
    /\ Is(Movement, x)
    /\ rows[x].status # "ARCHIVE"
    /\ StartWrite(w, x, NoPatch)

CanRecordReturn(x) == Is(Movement, x) /\ rows[x].status = "SORTI"

RecordReturn(w, x) == CanRecordReturn(x) /\ StartWrite(w, x, SetStatus("RETOURNE"))

CanArchiveMovement(x) ==
    Is(Movement, x) /\ rows[x].status # "ARCHIVE" /\ Unreviewed(x)

MovementIsOver(x) == rows[x].status \in {"ENREGISTRE", "RETOURNE", "ANNULE"}

ArchiveMovement(w, x, user) ==
    /\ CanArchiveMovement(x)
    /\ IF MovementIsOver(x)
       THEN StartWrite(w, x, SetStatus("ARCHIVE"))
       ELSE StartSubmit(w, x, user, "RECORD_ARCHIVE", "none")

MovementApproval(row) ==
    SetStatus(CASE row.action \in Checkouts -> "SORTI"
                [] row.action = "CONTROLLED_GOODS_EXIT" -> "ENREGISTRE"
                [] row.action = "RECORD_ARCHIVE" -> "ARCHIVE")

CanApproveMovement(x) == Is(Movement, x) /\ rows[x].action # "none"

ApproveMovement(w, x, user) ==
    /\ CanApproveMovement(x)
    /\ StartReview(w, x, user, "APPROVED", MovementApproval(rows[x]), TRUE)

RejectMovement(w, x, user) ==
    /\ Is(Movement, x)
    /\ StartReview(w, x, user, "REJECTED",
          SetStatus(IF rows[x].status = "EN_ATTENTE_VALIDATION"
                    THEN "ANNULE" ELSE rows[x].status),
          TRUE)

RequestMovementChanges(w, x, user) ==
    /\ Is(Movement, x)
    /\ StartReview(w, x, user, "CHANGES_REQUESTED", NoPatch, FALSE)

MovementsNext(w) ==
    \E x \in Items :
       \/ UpdateMovement(w, x)
       \/ RecordReturn(w, x)
       \/ \E user \in Directors :
             \/ \E type \in MovementTypes :
                   \E action \in SensitiveActions(type) :
                      CreateMovement(w, x, user, type, action)
             \/ ArchiveMovement(w, x, user)
       \/ \E user \in Supervisors :
             \/ ApproveMovement(w, x, user)
             \/ RejectMovement(w, x, user)
             \/ RequestMovementChanges(w, x, user)
=============================================================================
