------------------------------ MODULE Submissions ------------------------------
(***************************************************************************)
(* ActivitiesService and FundRequestsService: rows that are created to be  *)
(* validated, and change in no other way.  A director may both create an   *)
(* activity and approve those of others.                                   *)
(***************************************************************************)
EXTENDS ReviewedResources

CreateActivity(w, x, user) ==
    /\ IsNew("ACTIVITY", x)
    /\ StartRecord(w, x, user, SetStatus("none"), "none")

ApproveActivity(w, x, user) ==
    /\ Is("ACTIVITY", x)
    /\ StartReview(w, x, user, "APPROVED", NoPatch, FALSE)

RejectActivity(w, x, user) ==
    /\ Is("ACTIVITY", x)
    /\ StartReview(w, x, user, "REJECTED", NoPatch, FALSE)

CreateFundRequest(w, x, user) ==
    /\ IsNew("FUND_REQUEST", x)
    /\ StartRecord(w, x, user, SetStatus("none"), "none")

ApproveFundRequest(w, x, user) ==
    /\ Is("FUND_REQUEST", x)
    /\ StartReview(w, x, user, "APPROVED", NoPatch, FALSE)

RejectFundRequest(w, x, user) ==
    /\ Is("FUND_REQUEST", x)
    /\ StartReview(w, x, user, "REJECTED", NoPatch, FALSE)

SubmissionsNext(w) ==
    \E x \in Items :
       \/ \E user \in Educators \cup Directors : CreateActivity(w, x, user)
       \/ \E user \in Directors :
             \/ ApproveActivity(w, x, user)
             \/ RejectActivity(w, x, user)
             \/ CreateFundRequest(w, x, user)
       \/ \E user \in Supervisors :
             \/ ApproveFundRequest(w, x, user)
             \/ RejectFundRequest(w, x, user)
=============================================================================
