------------------------------ MODULE DonorProfiles ------------------------------
(***************************************************************************)
(* The profile of a donor (DonorsService): a sponsor (PARRAIN) has what he *)
(* gives every month and since when, a DONATEUR_PONCTUEL has neither.  An  *)
(* update reads the profile, computes those two fields from the type it    *)
(* will have, and writes them by id, also when the call named neither; the *)
(* type only if the call named it.  Nothing is locked.                     *)
(***************************************************************************)
CONSTANT ProfileWorkers   \* updates that may overlap

VARIABLES
    profile,     \* the row: the type, and which of the recurring fields are set
    updating,    \* what every update holds in memory
    overwrote    \* history: the last write came from an update that had read the
                 \* profile before another wrote it

profileVars == <<profile, updating, overwrote>>

DonorTypes == {"PARRAIN", "DONATEUR_PONCTUEL"}

RecurringFields == {"engagementStartDate", "monthlyContributionXof"}

\* type: the one the call named, if any.  stale: another has written since the read.
Update(type, recurring) ==
    [underWay |-> TRUE, type |-> type, recurring |-> recurring, stale |-> FALSE]

NoUpdate == [underWay |-> FALSE, type |-> "none", recurring |-> {}, stale |-> FALSE]

TypeAfter(type) == IF type = "none" THEN profile.type ELSE type

\* Mutant: only a change of the type clears them.
ResolvedOnChangeOnly(type, fields) ==
    IF type = "DONATEUR_PONCTUEL" /\ profile.type # type THEN {} ELSE fields

\* resolveRecurringFields
Resolved(type, fields) == IF type = "DONATEUR_PONCTUEL" THEN {} ELSE fields

\* A call sets some of the fields, clears some (null), and leaves out the others.
StartUpdateProfile(w, type, set, cleared) ==
    /\ ~ updating[w].underWay
    /\ updating' = [updating EXCEPT ![w] =
          Update(type, Resolved(TypeAfter(type), (profile.recurring \cup set) \ cleared))]
    /\ UNCHANGED <<profile, overwrote>>

WriteProfile(w) ==
    LET h == updating[w]
    IN  /\ h.underWay
        /\ profile' = [type |-> TypeAfter(h.type), recurring |-> h.recurring]
        /\ overwrote' = h.stale
        /\ updating' = [v \in ProfileWorkers |->
              IF v = w \/ ~ updating[v].underWay THEN NoUpdate
              ELSE [updating[v] EXCEPT !.stale = TRUE]]

UpdateDies(w) ==
    /\ updating[w].underWay
    /\ updating' = [updating EXCEPT ![w] = NoUpdate]
    /\ UNCHANGED <<profile, overwrote>>

\* create
ProfilesInit ==
    /\ \E type \in DonorTypes, set \in SUBSET RecurringFields :
          profile = [type |-> type,
                     recurring |-> IF type = "PARRAIN" THEN set ELSE {}]
    /\ updating = [w \in ProfileWorkers |-> NoUpdate]
    /\ overwrote = FALSE

ProfilesNext ==
    \E w \in ProfileWorkers :
       \/ \E type \in DonorTypes \cup {"none"}, set \in SUBSET RecurringFields :
             \E cleared \in SUBSET (RecurringFields \ set) :
                StartUpdateProfile(w, type, set, cleared)
       \/ WriteProfile(w)
       \/ UpdateDies(w)

(***************************************************************************)
(* A one-time donor has no recurring field set, unless the last update of  *)
(* his profile had read it before another wrote it: an update of the       *)
(* country alone then brings back the monthly amount of a sponsor who has  *)
(* just become a one-time donor.  Any later update that no other crosses   *)
(* clears it again, whatever it is about.                                  *)
(***************************************************************************)
RecurringFollowsType ==
    profile.type = "DONATEUR_PONCTUEL" /\ ~ overwrote => profile.recurring = {}
=============================================================================
