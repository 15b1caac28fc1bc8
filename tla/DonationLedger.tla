--------------------------- MODULE DonationLedger ---------------------------
(***************************************************************************)
(* What DonationsService promises of the donations it records and of the   *)
(* entries it makes in Finance: a donation and its entry come together,    *)
(* both stay as they were made, and a key stands for one donation,         *)
(* whichever of the calls that carry it recorded it.                       *)
(***************************************************************************)
CONSTANTS
    Ids,      \* the identifiers of donations
    Keys,     \* idempotency keys
    NoKey,    \* the key of a call that gives none
    Amounts   \* amounts of a donation

VARIABLES
    gifts,    \* the donations recorded
    credits,  \* the entries Finance holds for them
    answers   \* the donations given in answer, each with the key of the call

vars == <<gifts, credits, answers>>

Gifts == [id : Ids, key : Keys \cup {NoKey}, amountXof : Amounts]

Credit(gift) == [id |-> gift.id, amountXof |-> gift.amountXof]

Init == gifts = {} /\ credits = {} /\ answers = {}

\* A new donation, with a key no other has, and its entry.
Record(gift) ==
    /\ \A other \in gifts :
          other.id # gift.id /\ (other.key = gift.key => gift.key = NoKey)
    /\ gifts' = gifts \cup {gift}
    /\ credits' = credits \cup {Credit(gift)}
    /\ UNCHANGED answers

\* A call is answered by the donation that bears its key.
Answer(gift) ==
    /\ gift \in gifts
    /\ answers' = answers \cup {[key |-> gift.key, id |-> gift.id]}
    /\ UNCHANGED <<gifts, credits>>

Next == \E gift \in Gifts : Record(gift) \/ Answer(gift)

Spec == Init /\ [][Next]_vars
=============================================================================
