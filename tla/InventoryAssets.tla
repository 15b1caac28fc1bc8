---------------------------- MODULE InventoryAssets ----------------------------
(***************************************************************************)
(* InventoryAssetsService.  The class of an asset is its cost: the         *)
(* transfer of a costly one is to be validated.  Where an asset is, which  *)
(* an update and an assignment change as well, is left out.                *)
(***************************************************************************)
EXTENDS ReviewedResources

Asset == "INVENTORY_ASSET"

RoutineAssetStatuses == {"DISPONIBLE", "AFFECTE", "EN_MAINTENANCE"}

Costs == {"costly", "cheap"}

DISPOSAL_STATUS_MAP ==
    [PERTE |-> "PERDU", VOL |-> "VOLE", CASSE |-> "CASSE", REFORME |-> "REFORME"]

ASSUME DisposalTypesAssumption == DisposalTypes \subseteq DOMAIN DISPOSAL_STATUS_MAP

CreateAsset(w, x, cost, status) ==
    /\ IsNew(Asset, x)
    /\ status \in {"DISPONIBLE", "AFFECTE"}
    /\ Insert(w, x, [SetStatus(status) EXCEPT !.class = cost])

\* No look at what is pending, nor at the archive unless the status is set.
CanUpdateAsset(x, patch) ==
    /\ Is(Asset, x)
    /\ patch.status # "keep" =>
          {rows[x].status, patch.status} \subseteq RoutineAssetStatuses

UpdateAsset(w, x, patch) == CanUpdateAsset(x, patch) /\ StartWrite(w, x, patch)

\* assertNotArchived, assertNoPendingValidation: of all that is asked for an asset.
CanHandleAsset(x) ==
    Is(Asset, x) /\ rows[x].status # "ARCHIVE" /\ Unreviewed(x)

AssignAsset(w, x) ==
    /\ CanHandleAsset(x)
    /\ StartWrite(w, x, SetStatus("AFFECTE"))

TransferIsSensitive(x) == rows[x].class = "costly"

TransferAsset(w, x, user) ==
    /\ CanHandleAsset(x)
    /\ IF TransferIsSensitive(x)
       THEN StartSubmit(w, x, user, "ASSET_TRANSFER", "none")
       ELSE StartWrite(w, x, NoPatch)

RequestDisposal(w, x, user, disposalType) ==
    /\ CanHandleAsset(x)
    /\ StartSubmit(w, x, user, "ASSET_DISPOSAL", disposalType)

RequestAssetArchive(w, x, user) ==
    /\ CanHandleAsset(x)
    /\ StartSubmit(w, x, user, "ASSET_ARCHIVE", "none")

AssetApproval(row) ==
    CASE row.action = "ASSET_TRANSFER" -> NoPatch
      [] row.action = "ASSET_DISPOSAL" -> SetStatus(DISPOSAL_STATUS_MAP[row.payload])
      [] row.action = "ASSET_ARCHIVE" -> SetStatus("ARCHIVE")

CanApproveAsset(x) == Is(Asset, x) /\ rows[x].action # "none"

ApproveAsset(w, x, user) ==
    /\ CanApproveAsset(x)
    /\ StartReview(w, x, user, "APPROVED", AssetApproval(rows[x]), TRUE)

RefuseAsset(w, x, user, verdict) ==
    /\ Is(Asset, x)
    /\ StartReview(w, x, user, verdict, NoPatch, FALSE)

AssetPatches ==
    {[NoPatch EXCEPT !.class = cost] : cost \in Costs} \cup
    {SetStatus(s) : s \in RoutineAssetStatuses}

AssetsNext(w) ==
    \E x \in Items :
       \/ \E cost \in Costs, status \in RoutineAssetStatuses : CreateAsset(w, x, cost, status)
       \/ \E patch \in AssetPatches : UpdateAsset(w, x, patch)
       \/ AssignAsset(w, x)
       \/ \E user \in Directors :
             \/ TransferAsset(w, x, user)
             \/ \E d \in DisposalTypes : RequestDisposal(w, x, user, d)
             \/ RequestAssetArchive(w, x, user)
       \/ \E user \in Supervisors :
             \/ ApproveAsset(w, x, user)
             \/ \E verdict \in Verdicts \ {"APPROVED"} : RefuseAsset(w, x, user, verdict)
=============================================================================
