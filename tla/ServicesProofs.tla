------------------------------ MODULE ServicesProofs ------------------------------
(***************************************************************************)
(* What five services of the back office guarantee for any number of rows  *)
(* and of handlers that overlap: the profiles of donors, their reports,    *)
(* the alerts, the contacts with their form, and the history of an         *)
(* incident.  For each of them, the inductive invariant, that every action *)
(* keeps it, and the theorem.                                              *)
(***************************************************************************)
EXTENDS DonorProfiles, DonorReports, Alerts, Contacts, IncidentHistory, TLAPS

(***************************************************************************)
(* DonorProfiles.  What an update holds in memory agrees with the profile  *)
(* as long as nobody has written since it was read.                        *)
(***************************************************************************)
ProfilesTypeOK ==
    /\ profile \in [type : DonorTypes, recurring : SUBSET RecurringFields]
    /\ updating \in [ProfileWorkers ->
          [underWay : BOOLEAN, type : DonorTypes \cup {"none"},
           recurring : SUBSET RecurringFields, stale : BOOLEAN]]
    /\ overwrote \in BOOLEAN

FreshUpdatesFollowType ==
    \A w \in ProfileWorkers :
       LET h == updating[w]
       IN  /\ h.underWay /\ ~ h.stale
           /\ TypeAfter(h.type) = "DONATEUR_PONCTUEL"
           => h.recurring = {}

ProfilesInv ==
    /\ ProfilesTypeOK
    /\ FreshUpdatesFollowType
    /\ RecurringFollowsType

LEMMA ProfilesInitOK == ProfilesInit => ProfilesInv
<1> SUFFICES ASSUME ProfilesInit PROVE ProfilesInv
  OBVIOUS
<1>1. PICK type \in DonorTypes, set \in SUBSET RecurringFields :
         profile = [type |-> type, recurring |-> IF type = "PARRAIN" THEN set ELSE {}]
  BY DEF ProfilesInit
<1>2. ProfilesTypeOK
  BY <1>1 DEF ProfilesInit, ProfilesTypeOK, NoUpdate
<1>3. FreshUpdatesFollowType
  BY DEF ProfilesInit, FreshUpdatesFollowType, NoUpdate
<1>4. RecurringFollowsType
  BY <1>1 DEF RecurringFollowsType
<1>5. QED
  BY <1>2, <1>3, <1>4 DEF ProfilesInv

LEMMA StartUpdateProfileOK ==
    ASSUME ProfilesInv, NEW w \in ProfileWorkers, NEW type \in DonorTypes \cup {"none"},
           NEW set \in SUBSET RecurringFields,
           NEW cleared \in SUBSET (RecurringFields \ set),
           StartUpdateProfile(w, type, set, cleared)
    PROVE  ProfilesInv'
<1> DEFINE fields == Resolved(TypeAfter(type), (profile.recurring \cup set) \ cleared)
<1> USE DEF ProfilesInv, ProfilesTypeOK
<1>1. /\ updating' = [updating EXCEPT ![w] = Update(type, fields)]
      /\ UNCHANGED <<profile, overwrote>>
  BY DEF StartUpdateProfile
<1>2. fields \in SUBSET RecurringFields
  BY DEF Resolved
<1>3. TypeAfter(type) = "DONATEUR_PONCTUEL" => fields = {}
  BY DEF Resolved
<1>4. ProfilesTypeOK'
  BY <1>1, <1>2 DEF Update
<1>5. FreshUpdatesFollowType'
  BY <1>1, <1>3 DEF FreshUpdatesFollowType, Update, TypeAfter
<1>6. QED
  BY <1>1, <1>4, <1>5 DEF RecurringFollowsType

LEMMA WriteProfileOK ==
    ASSUME ProfilesInv, NEW w \in ProfileWorkers, WriteProfile(w)
    PROVE  ProfilesInv'
<1> DEFINE h == updating[w]
<1> USE DEF ProfilesInv, ProfilesTypeOK
<1>1. /\ h.underWay
      /\ profile' = [type |-> TypeAfter(h.type), recurring |-> h.recurring]
      /\ overwrote' = h.stale
      /\ \A v \in ProfileWorkers : updating'[v].underWay => updating'[v].stale
  BY DEF WriteProfile, NoUpdate
<1>2. TypeAfter(h.type) \in DonorTypes
  BY DEF TypeAfter
<1>3. ProfilesTypeOK'
  <2>1. \A v \in ProfileWorkers :
           IF v = w \/ ~ updating[v].underWay THEN updating'[v] = NoUpdate
           ELSE updating'[v] = [updating[v] EXCEPT !.stale = TRUE]
    BY DEF WriteProfile
  <2>2. \A v \in ProfileWorkers : updating'[v] \in
           [underWay : BOOLEAN, type : DonorTypes \cup {"none"},
            recurring : SUBSET RecurringFields, stale : BOOLEAN]
    <3> SUFFICES ASSUME NEW v \in ProfileWorkers
                 PROVE  updating'[v] \in
           [underWay : BOOLEAN, type : DonorTypes \cup {"none"},
            recurring : SUBSET RecurringFields, stale : BOOLEAN]
      OBVIOUS
    <3>1. CASE updating'[v] = NoUpdate
      BY <3>1 DEF NoUpdate
    <3>2. CASE updating'[v] = [updating[v] EXCEPT !.stale = TRUE]
      BY <3>2
    <3>3. QED
      BY <2>1, <3>1, <3>2
  <2>3. updating' = [v \in ProfileWorkers |-> updating'[v]]
    BY DEF WriteProfile
  <2>4. h.recurring \in SUBSET RecurringFields /\ h.stale \in BOOLEAN
    OBVIOUS
  <2>5. QED
    BY <1>1, <1>2, <2>2, <2>3, <2>4
<1>4. FreshUpdatesFollowType'
  BY <1>1 DEF FreshUpdatesFollowType
<1>5. RecurringFollowsType'
  BY <1>1 DEF RecurringFollowsType, FreshUpdatesFollowType
<1>6. QED
  BY <1>3, <1>4, <1>5

LEMMA UpdateDiesOK ==
    ASSUME ProfilesInv, NEW w \in ProfileWorkers, UpdateDies(w)
    PROVE  ProfilesInv'
<1> USE DEF ProfilesInv, ProfilesTypeOK
<1>1. ProfilesTypeOK'
  BY DEF UpdateDies, NoUpdate
<1>2. FreshUpdatesFollowType' /\ RecurringFollowsType'
  BY DEF UpdateDies, NoUpdate, FreshUpdatesFollowType, TypeAfter, RecurringFollowsType
<1>3. QED
  BY <1>1, <1>2

LEMMA ProfilesStepOK == ProfilesInv /\ [ProfilesNext]_profileVars => ProfilesInv'
<1> SUFFICES ASSUME ProfilesInv, [ProfilesNext]_profileVars PROVE ProfilesInv'
  OBVIOUS
<1>1. CASE ProfilesNext
  BY <1>1, StartUpdateProfileOK, WriteProfileOK, UpdateDiesOK DEF ProfilesNext
<1>2. CASE UNCHANGED profileVars
  BY <1>2
  DEF profileVars, ProfilesInv, ProfilesTypeOK, FreshUpdatesFollowType, TypeAfter,
      RecurringFollowsType
<1>3. QED
  BY <1>1, <1>2

(***************************************************************************)
(* A one-time donor has no recurring field set, unless the last update of  *)
(* his profile was computed before another wrote it, whatever the number   *)
(* of updates that overlap.                                                *)
(***************************************************************************)
THEOREM RecurringFieldsFollow ==
    ProfilesInit /\ [][ProfilesNext]_profileVars => []RecurringFollowsType
<1>1. ProfilesInv => RecurringFollowsType
  BY DEF ProfilesInv
<1>2. QED
  BY <1>1, ProfilesInitOK, ProfilesStepOK, PTL

(***************************************************************************)
(* DonorReports.  As long as no two of its handlers have overlapped, a     *)
(* report is what its handler checked; and what was communicated of it is  *)
(* what it still is.                                                       *)
(***************************************************************************)
StatusOf(r) == report[r].status

ReportSteps ==
    {"idle", "insert", "check-donor", "build", "render", "update", "send", "upload-photo",
     "add-photo", "approve-photo", "delete-photo-file", "delete-photo"}

ReportsTypeOK ==
    /\ report \in [Reports ->
          [status : {"absent", "DRAFT", "GENERATED", "SENT"},
           file : [number : Nat, photos : SUBSET Photos],
           photos : [Photos -> PhotoStates]]]
    /\ files \in Nat
    /\ DOMAIN communications = Reports
    /\ reportStep \in [ReportWorkers -> ReportSteps]
    /\ reporting \in [ReportWorkers ->
          [report : Reports \cup {NoReport}, photo : SUBSET Photos, drawn : SUBSET Photos]]

\* A busy handler has a report, an idle one has none.
HandlersHaveTheirReport ==
    \A w \in ReportWorkers : reportStep[w] # "idle" <=> reporting[w].report \in Reports

\* Two busy handlers of a report have overlapped.
OverlapsAreKnown ==
    \A v, w \in ReportWorkers :
       v # w /\ reporting[v].report = reporting[w].report /\ reporting[w].report \in Reports
       => reporting[w].report \in overlapped

\* What a handler checked holds until another overlaps it.
CheckedReportsStay ==
    \A w \in ReportWorkers :
       LET r == reporting[w].report
       IN  r \in Reports \ overlapped =>
             IF reportStep[w] = "insert" THEN StatusOf(r) = "absent"
             ELSE StatusOf(r) \in {"DRAFT", "GENERATED"}

\* A report that was not sent has no communication.
UnsentReportsAreNotCommunicated ==
    \A r \in Reports \ overlapped : StatusOf(r) # "SENT" => communications[r] = {}

ReportsInv ==
    /\ ReportsTypeOK
    /\ HandlersHaveTheirReport
    /\ OverlapsAreKnown
    /\ CheckedReportsStay
    /\ UnsentReportsAreNotCommunicated
    /\ SentReportsAreCommunicated

LEMMA ReportsInitOK == ReportsInit => ReportsInv
<1> SUFFICES ASSUME ReportsInit PROVE ReportsInv
  OBVIOUS
<1> USE ReportsAssumption DEF ReportsInit
<1>1. ReportsTypeOK
  BY DEF ReportsTypeOK, NoRow, NoFile, PhotoStates, ReportSteps, NoReportCall
<1>2. \A w \in ReportWorkers : reporting[w].report = NoReport
  BY DEF NoReportCall
<1>3. \A r \in Reports : StatusOf(r) = "absent" /\ communications[r] = {}
  BY DEF StatusOf, NoRow
<1>4. HandlersHaveTheirReport /\ OverlapsAreKnown /\ CheckedReportsStay
  BY <1>2 DEF HandlersHaveTheirReport, OverlapsAreKnown, CheckedReportsStay
<1>5. UnsentReportsAreNotCommunicated /\ SentReportsAreCommunicated
  BY <1>3 DEF UnsentReportsAreNotCommunicated, SentReportsAreCommunicated, StatusOf
<1>6. QED
  BY <1>1, <1>4, <1>5 DEF ReportsInv

\* A call begins on a report whose status was checked.
LEMMA StartReportCallOK ==
    ASSUME ReportsInv, NEW w \in ReportWorkers, NEW r \in Reports,
           NEW step \in ReportSteps \ {"idle"}, NEW photo \in SUBSET Photos,
           StartReportCall(w, r, step, photo),
           IF step = "insert" THEN StatusOf(r) = "absent"
           ELSE StatusOf(r) \in {"DRAFT", "GENERATED"}
    PROVE  ReportsInv'
<1> USE DEF ReportsInv, ReportsTypeOK
<1>1. /\ reportStep[w] = "idle"
      /\ reportStep' = [reportStep EXCEPT ![w] = step]
      /\ reporting' = [reporting EXCEPT ![w] = [report |-> r, photo |-> photo, drawn |-> {}]]
      /\ overlapped' = IF OthersOn(w, r) = {} THEN overlapped ELSE overlapped \cup {r}
      /\ UNCHANGED <<report, communications, files>>
  BY DEF StartReportCall
<1>2. /\ reportStep'[w] = step /\ reporting'[w].report = r
      /\ \A v \in ReportWorkers \ {w} :
            reportStep'[v] = reportStep[v] /\ reporting'[v] = reporting[v]
      /\ overlapped \subseteq overlapped'
  BY <1>1
<1>3. \A v \in ReportWorkers \ {w} : reporting[v].report = r => r \in overlapped'
  BY <1>1 DEF OthersOn, HandlersHaveTheirReport
<1>4. ReportsTypeOK'
  BY <1>1
<1>5. HandlersHaveTheirReport'
  BY <1>2 DEF HandlersHaveTheirReport
<1>6. OverlapsAreKnown'
  BY <1>2, <1>3 DEF OverlapsAreKnown
<1>7. CheckedReportsStay'
  BY <1>1, <1>2, <1>3 DEF CheckedReportsStay, StatusOf
<1>8. UnsentReportsAreNotCommunicated' /\ SentReportsAreCommunicated'
  BY <1>1, <1>2 DEF UnsentReportsAreNotCommunicated, SentReportsAreCommunicated, StatusOf
<1>9. QED
  BY <1>4, <1>5, <1>6, <1>7, <1>8

\* A handler goes on, or ends: what it holds is still of its report.
LEMMA ReportCallGoesOn ==
    ASSUME ReportsInv, NEW w \in ReportWorkers, UNCHANGED overlapped,
           reportStep[w] # "idle",
           \A v \in ReportWorkers \ {w} :
              reportStep'[v] = reportStep[v] /\ reporting'[v] = reporting[v],
           \/ reportStep'[w] = "idle" /\ reporting'[w] = NoReportCall
           \/ /\ reportStep[w] # "insert" /\ reportStep'[w] \notin {"idle", "insert"}
              /\ reporting'[w].report = reporting[w].report
    PROVE  /\ HandlersHaveTheirReport' /\ OverlapsAreKnown'
           /\ \A v \in ReportWorkers : reporting'[v].report \in Reports =>
                 /\ reporting'[v].report = reporting[v].report
                 /\ reportStep'[v] = "insert" <=> reportStep[v] = "insert"
<1> USE DEF ReportsInv
<1>1. reporting'[w].report \in Reports =>
         /\ reporting'[w].report = reporting[w].report
         /\ reportStep'[w] \notin {"idle", "insert"} /\ reportStep[w] # "insert"
  BY ReportsAssumption DEF NoReportCall
<1>2. HandlersHaveTheirReport'
  BY ReportsAssumption DEF HandlersHaveTheirReport, NoReportCall
<1>3. \A v \in ReportWorkers : reporting'[v].report \in Reports =>
         /\ reporting'[v].report = reporting[v].report
         /\ reportStep'[v] = "insert" <=> reportStep[v] = "insert"
  BY <1>1
<1>4. OverlapsAreKnown'
  BY <1>3 DEF OverlapsAreKnown
<1>5. QED
  BY <1>2, <1>3, <1>4

\* A step of a handler that leaves the rows alone.
LEMMA ReadingStepOK ==
    ASSUME ReportsInv, NEW w \in ReportWorkers, UNCHANGED <<overlapped, report, communications>>,
           files' \in Nat, reportStep[w] # "idle",
           \A v \in ReportWorkers \ {w} :
              reportStep'[v] = reportStep[v] /\ reporting'[v] = reporting[v],
           reportStep' \in [ReportWorkers -> ReportSteps],
           reporting' \in [ReportWorkers -> [report : Reports \cup {NoReport},
                              photo : SUBSET Photos, drawn : SUBSET Photos]],
           \/ reportStep'[w] = "idle" /\ reporting'[w] = NoReportCall
           \/ /\ reportStep[w] # "insert" /\ reportStep'[w] \notin {"idle", "insert"}
              /\ reporting'[w].report = reporting[w].report
    PROVE  ReportsInv'
<1> USE DEF ReportsInv
<1>1. /\ HandlersHaveTheirReport' /\ OverlapsAreKnown'
      /\ \A v \in ReportWorkers : reporting'[v].report \in Reports =>
            /\ reporting'[v].report = reporting[v].report
            /\ reportStep'[v] = "insert" <=> reportStep[v] = "insert"
  BY ReportCallGoesOn
<1>2. ReportsTypeOK'
  BY DEF ReportsTypeOK
<1>3. CheckedReportsStay'
  BY <1>1 DEF CheckedReportsStay, StatusOf
<1>4. UnsentReportsAreNotCommunicated' /\ SentReportsAreCommunicated'
  BY DEF UnsentReportsAreNotCommunicated, SentReportsAreCommunicated, StatusOf
<1>5. QED
  BY <1>1, <1>2, <1>3, <1>4

\* The last step of a handler writes the row of its report, and tells nobody.
LEMMA WritingStepOK ==
    ASSUME ReportsInv, NEW w \in ReportWorkers, EndReportCall(w), reportStep[w] # "idle",
           UNCHANGED communications, files' \in Nat,
           NEW row \in [status : ReportStatuses,
                        file : [number : Nat, photos : SUBSET Photos],
                        photos : [Photos -> PhotoStates]],
           report' = [report EXCEPT ![reporting[w].report] = row],
           row.status \in {"DRAFT", "GENERATED", StatusOf(reporting[w].report)}
    PROVE  ReportsInv'
<1> DEFINE r == reporting[w].report
<1> USE DEF ReportsInv, ReportsTypeOK
<1>1. r \in Reports
  BY DEF HandlersHaveTheirReport
<1>2. /\ UNCHANGED overlapped
      /\ reportStep'[w] = "idle" /\ reporting'[w] = NoReportCall
      /\ \A v \in ReportWorkers \ {w} :
            reportStep'[v] = reportStep[v] /\ reporting'[v] = reporting[v]
  BY DEF EndReportCall
<1>3. /\ HandlersHaveTheirReport' /\ OverlapsAreKnown'
      /\ \A v \in ReportWorkers : reporting'[v].report \in Reports =>
            /\ reporting'[v].report = reporting[v].report
            /\ reportStep'[v] = "insert" <=> reportStep[v] = "insert"
  BY <1>2, ReportCallGoesOn
<1>4. /\ report'[r] = row
      /\ \A q \in Reports \ {r} : report'[q] = report[q]
  BY <1>1
<1>5. r \notin overlapped => StatusOf(r) # "SENT" /\ communications[r] = {}
  BY <1>1 DEF CheckedReportsStay, UnsentReportsAreNotCommunicated
<1>6. ReportsTypeOK'
  BY <1>1 DEF EndReportCall, ReportStatuses, ReportSteps, NoReportCall
<1>7. CheckedReportsStay'
  <2> SUFFICES ASSUME NEW v \in ReportWorkers, reporting'[v].report \in Reports \ overlapped
               PROVE  IF reportStep'[v] = "insert"
                      THEN report'[reporting'[v].report].status = "absent"
                      ELSE report'[reporting'[v].report].status \in {"DRAFT", "GENERATED"}
    BY <1>2 DEF CheckedReportsStay, StatusOf
  <2>1. v # w
    BY <1>2, ReportsAssumption DEF NoReportCall
  <2>2. reporting'[v].report = reporting[v].report /\ reporting[v].report # r
    BY <1>2, <2>1 DEF OverlapsAreKnown
  <2>3. QED
    BY <1>2, <1>4, <2>1, <2>2 DEF CheckedReportsStay, StatusOf
<1>8. UnsentReportsAreNotCommunicated'
  BY <1>2, <1>4, <1>5 DEF UnsentReportsAreNotCommunicated, StatusOf
<1>9. SentReportsAreCommunicated'
  BY <1>1, <1>2, <1>4, <1>5 DEF SentReportsAreCommunicated, StatusOf
<1>10. QED
  BY <1>3, <1>6, <1>7, <1>8, <1>9

LEMMA SendOK ==
    ASSUME ReportsInv, NEW w \in ReportWorkers, Send(w)
    PROVE  ReportsInv'
<1> DEFINE r == reporting[w].report
<1> DEFINE sent == [number |-> Cardinality(communications[r]) + 1, file |-> report[r].file,
                    photos |-> report[r].photos]
<1> USE DEF ReportsInv, ReportsTypeOK
<1>1. /\ reportStep[w] = "send"
      /\ report' = [report EXCEPT ![r].status = "SENT"]
      /\ communications' = [communications EXCEPT ![r] = communications[r] \cup {sent}]
      /\ EndReportCall(w) /\ UNCHANGED files
  BY DEF Send
<1>2. r \in Reports
  BY <1>1 DEF HandlersHaveTheirReport
<1>3. /\ UNCHANGED overlapped
      /\ reportStep'[w] = "idle" /\ reporting'[w] = NoReportCall
      /\ \A v \in ReportWorkers \ {w} :
            reportStep'[v] = reportStep[v] /\ reporting'[v] = reporting[v]
  BY <1>1 DEF EndReportCall
<1>4. /\ HandlersHaveTheirReport' /\ OverlapsAreKnown'
      /\ \A v \in ReportWorkers : reporting'[v].report \in Reports =>
            /\ reporting'[v].report = reporting[v].report
            /\ reportStep'[v] = "insert" <=> reportStep[v] = "insert"
  BY <1>1, <1>3, ReportCallGoesOn
<1>5. /\ report'[r].status = "SENT"
      /\ report'[r].file = report[r].file /\ report'[r].photos = report[r].photos
      /\ communications'[r] = communications[r] \cup {sent}
      /\ \A q \in Reports \ {r} :
            report'[q] = report[q] /\ communications'[q] = communications[q]
  BY <1>1, <1>2
<1>6. r \notin overlapped => communications[r] = {}
  BY <1>1, <1>2 DEF CheckedReportsStay, UnsentReportsAreNotCommunicated
<1>7. ReportsTypeOK'
  BY <1>1, <1>2 DEF EndReportCall, ReportSteps, NoReportCall
<1>8. CheckedReportsStay'
  <2> SUFFICES ASSUME NEW v \in ReportWorkers, reporting'[v].report \in Reports \ overlapped
               PROVE  IF reportStep'[v] = "insert"
                      THEN report'[reporting'[v].report].status = "absent"
                      ELSE report'[reporting'[v].report].status \in {"DRAFT", "GENERATED"}
    BY <1>3 DEF CheckedReportsStay, StatusOf
  <2>1. v # w
    BY <1>3, ReportsAssumption DEF NoReportCall
  <2>2. reporting'[v].report = reporting[v].report /\ reporting[v].report # r
    BY <1>3, <2>1 DEF OverlapsAreKnown
  <2>3. QED
    BY <1>3, <1>5, <2>1, <2>2 DEF CheckedReportsStay, StatusOf
<1>9. UnsentReportsAreNotCommunicated'
  BY <1>3, <1>5, SMTT(30) DEF UnsentReportsAreNotCommunicated, StatusOf
<1>10. SentReportsAreCommunicated'
  <2> SUFFICES ASSUME NEW q \in Reports
               PROVE  /\ report'[q].status = "SENT" => communications'[q] # {}
                      /\ q \notin overlapped' =>
                            \A c \in communications'[q] :
                               /\ communications'[q] = {c}
                               /\ report'[q].status = "SENT"
                               /\ report'[q].file = c.file
                               /\ report'[q].photos = c.photos
    BY DEF SentReportsAreCommunicated
  <2>1. CASE q # r
    BY <1>3, <1>5, <2>1 DEF SentReportsAreCommunicated
  <2>2. CASE q = r
    <3>1. sent.file = report[r].file /\ sent.photos = report[r].photos
      OBVIOUS
    <3> HIDE DEF sent
    <3>2. QED
      BY <1>3, <1>5, <1>6, <2>2, <3>1
  <2>3. QED
    BY <2>1, <2>2
<1>11. QED
  BY <1>4, <1>7, <1>8, <1>9, <1>10

\* The photos of a report change.
LEMMA PhotoStepOK ==
    ASSUME ReportsInv, NEW w \in ReportWorkers, EndReportCall(w), reportStep[w] # "idle",
           UNCHANGED <<communications, files>>, NEW state \in PhotoStates, SetPhoto(w, state)
    PROVE  ReportsInv'
<1> DEFINE r == reporting[w].report
<1> DEFINE newPhotos == [p \in Photos |-> IF p \in reporting[w].photo THEN state
                                          ELSE report[r].photos[p]]
<1> DEFINE row == [status |-> report[r].status, file |-> report[r].file, photos |-> newPhotos]
<1>1. r \in Reports
  BY DEF ReportsInv, HandlersHaveTheirReport
<1>2. /\ report[r] \in [status : ReportStatuses,
                        file : [number : Nat, photos : SUBSET Photos],
                        photos : [Photos -> PhotoStates]]
      /\ files \in Nat
  BY <1>1 DEF ReportsInv, ReportsTypeOK, ReportStatuses
<1>3. newPhotos \in [Photos -> PhotoStates]
  BY <1>2
<1>4. report' = [report EXCEPT ![r] = [report[r] EXCEPT !.photos = newPhotos]]
  BY DEF SetPhoto
<1>5. [report[r] EXCEPT !.photos = newPhotos] = row
  BY <1>2
<1>6. row \in [status : ReportStatuses, file : [number : Nat, photos : SUBSET Photos],
               photos : [Photos -> PhotoStates]]
  BY <1>2, <1>3
<1>7. row.status = StatusOf(r)
  BY DEF StatusOf
<1> HIDE DEF row
<1>8. QED
  BY <1>2, <1>4, <1>5, <1>6, <1>7, WritingStepOK

LEMMA EndReportCallOK ==
    ASSUME ReportsInv, NEW w \in ReportWorkers, EndReportCall(w), reportStep[w] # "idle",
           UNCHANGED <<report, communications, files>>
    PROVE  ReportsInv'
<1>1. /\ reportStep' \in [ReportWorkers -> ReportSteps]
      /\ reporting' \in [ReportWorkers -> [report : Reports \cup {NoReport},
                            photo : SUBSET Photos, drawn : SUBSET Photos]]
      /\ files' \in Nat
  BY DEF ReportsInv, ReportsTypeOK, EndReportCall, ReportSteps, NoReportCall
<1>2. /\ UNCHANGED <<overlapped, report, communications>>
      /\ reportStep'[w] = "idle" /\ reporting'[w] = NoReportCall
      /\ \A v \in ReportWorkers \ {w} :
            reportStep'[v] = reportStep[v] /\ reporting'[v] = reporting[v]
  BY DEF ReportsInv, ReportsTypeOK, EndReportCall
<1>3. QED
  BY <1>1, <1>2, ReadingStepOK

\* A handler moves to its next statement, and may keep what it has read.
LEMMA NextReportStepOK ==
    ASSUME ReportsInv, NEW w \in ReportWorkers, reportStep[w] \notin {"idle", "insert"},
           NEW next \in ReportSteps \ {"idle", "insert"},
           reportStep' = [reportStep EXCEPT ![w] = next],
           NEW drawn \in SUBSET Photos,
           reporting' \in {reporting, [reporting EXCEPT ![w].drawn = drawn]},
           UNCHANGED <<report, communications, files, overlapped>>
    PROVE  ReportsInv'
<1>1. /\ reporting' \in [ReportWorkers -> [report : Reports \cup {NoReport},
                            photo : SUBSET Photos, drawn : SUBSET Photos]]
      /\ \A v \in ReportWorkers \ {w} : reporting'[v] = reporting[v]
      /\ reporting'[w].report = reporting[w].report
  <2> DEFINE h == reporting[w]
  <2>1. CASE reporting' = reporting
    BY <2>1 DEF ReportsInv, ReportsTypeOK
  <2>2. CASE reporting' = [reporting EXCEPT ![w].drawn = drawn]
    <3>1. h \in [report : Reports \cup {NoReport}, photo : SUBSET Photos,
                 drawn : SUBSET Photos]
      BY DEF ReportsInv, ReportsTypeOK
    <3>2. [h EXCEPT !.drawn = drawn] =
             [report |-> h.report, photo |-> h.photo, drawn |-> drawn]
      BY <3>1
    <3>3. reporting' = [reporting EXCEPT ![w] =
             [report |-> h.report, photo |-> h.photo, drawn |-> drawn]]
      BY <2>2, <3>2
    <3>4. QED
      BY <3>1, <3>3 DEF ReportsInv, ReportsTypeOK
  <2>3. QED
    BY <2>1, <2>2
<1>2. /\ reportStep' \in [ReportWorkers -> ReportSteps]
      /\ \A v \in ReportWorkers \ {w} : reportStep'[v] = reportStep[v]
      /\ reportStep'[w] \notin {"idle", "insert"}
      /\ files' \in Nat
  BY DEF ReportsInv, ReportsTypeOK
<1>3. QED
  BY <1>1, <1>2, ReadingStepOK

LEMMA InsertReportOK ==
    ASSUME ReportsInv, NEW w \in ReportWorkers, InsertReport(w)
    PROVE  ReportsInv'
<1> DEFINE r == reporting[w].report
<1> DEFINE row == [status |-> "DRAFT", file |-> report[r].file, photos |-> report[r].photos]
<1>1. /\ reportStep[w] # "idle" /\ EndReportCall(w) /\ UNCHANGED <<communications, files>>
  BY DEF InsertReport
<1>2. CASE report' = report
  BY <1>1, <1>2, EndReportCallOK
<1>3. CASE report' = [report EXCEPT ![r].status = "DRAFT"]
  <2>1. r \in Reports
    BY <1>1 DEF ReportsInv, HandlersHaveTheirReport
  <2>2. /\ report[r] \in [status : ReportStatuses,
                          file : [number : Nat, photos : SUBSET Photos],
                          photos : [Photos -> PhotoStates]]
        /\ files \in Nat
    BY <2>1 DEF ReportsInv, ReportsTypeOK, ReportStatuses
  <2>3. [report[r] EXCEPT !.status = "DRAFT"] = row
    BY <2>2
  <2>4. report' = [report EXCEPT ![r] = row]
    BY <1>3, <2>3
  <2>5. row \in [status : ReportStatuses, file : [number : Nat, photos : SUBSET Photos],
                 photos : [Photos -> PhotoStates]]
    BY <2>2 DEF ReportStatuses
  <2>6. row.status = "DRAFT"
    OBVIOUS
  <2> HIDE DEF row
  <2>7. QED
    BY <1>1, <2>2, <2>4, <2>5, <2>6, WritingStepOK
<1>4. QED
  BY <1>2, <1>3 DEF InsertReport

LEMMA UpdateReportOK ==
    ASSUME ReportsInv, NEW w \in ReportWorkers, UpdateReport(w)
    PROVE  ReportsInv'
<1> DEFINE h == reporting[w]
<1> DEFINE r == h.report
<1> DEFINE newFile == [number |-> files + 1, photos |-> h.drawn]
<1> DEFINE row == [status |-> "GENERATED", file |-> newFile, photos |-> report[r].photos]
<1>1. /\ reportStep[w] # "idle" /\ EndReportCall(w) /\ UNCHANGED communications
      /\ files' = files + 1
      /\ report' = [report EXCEPT ![r].status = "GENERATED", ![r].file = newFile]
  BY DEF UpdateReport
<1>2. r \in Reports
  BY <1>1 DEF ReportsInv, HandlersHaveTheirReport
<1>3. /\ report[r] \in [status : ReportStatuses,
                        file : [number : Nat, photos : SUBSET Photos],
                        photos : [Photos -> PhotoStates]]
      /\ files \in Nat /\ h.drawn \in SUBSET Photos
      /\ DOMAIN report = Reports
  BY <1>2 DEF ReportsInv, ReportsTypeOK, ReportStatuses
<1>4. newFile \in [number : Nat, photos : SUBSET Photos]
  BY <1>3
<1> HIDE DEF newFile
<1>5. report' = [report EXCEPT ![r] = row]
  <2> DEFINE marked == [report[r] EXCEPT !.status = "GENERATED"]
  <2>1. marked = [status |-> "GENERATED", file |-> report[r].file,
                  photos |-> report[r].photos]
    BY <1>3
  <2>2. report' = [[report EXCEPT ![r] = marked] EXCEPT ![r].file = newFile]
    BY <1>1
  <2> HIDE DEF marked
  <2>3. [marked EXCEPT !.file = newFile] = row
    BY <2>1
  <2>4. report' = [report EXCEPT ![r] = [marked EXCEPT !.file = newFile]]
    BY <1>2, <1>3, <2>2
  <2>5. QED
    BY <2>3, <2>4
<1>6. row \in [status : ReportStatuses, file : [number : Nat, photos : SUBSET Photos],
               photos : [Photos -> PhotoStates]]
  BY <1>3, <1>4 DEF ReportStatuses
<1>7. row.status = "GENERATED" /\ files' \in Nat
  BY <1>1, <1>3
<1> HIDE DEF row
<1>8. QED
  BY <1>1, <1>5, <1>6, <1>7, WritingStepOK

LEMMA ReportStartOK ==
    ASSUME ReportsInv, NEW w \in ReportWorkers, NEW r \in Reports, ReportStart(w, r)
    PROVE  ReportsInv'
<1>1. CASE StartCreate(w, r)
  BY <1>1, StartReportCallOK DEF StartCreate, ReportSteps, StatusOf
<1>2. CASE StartGenerate(w, r)
  BY <1>2, StartReportCallOK DEF StartGenerate, ReportSteps, StatusOf
<1>3. CASE StartMarkSent(w, r)
  BY <1>3, StartReportCallOK DEF StartMarkSent, ReportSteps, StatusOf
<1>4. ASSUME NEW p \in Photos, StartUploadPhoto(w, r, p) PROVE ReportsInv'
  BY <1>4, StartReportCallOK DEF StartUploadPhoto, MutablePhotos, ReportSteps, StatusOf
<1>5. ASSUME NEW p \in Photos, StartApprovePhoto(w, r, p) PROVE ReportsInv'
  BY <1>5, StartReportCallOK DEF StartApprovePhoto, MutablePhotos, ReportSteps, StatusOf
<1>6. ASSUME NEW p \in Photos, StartDeletePhoto(w, r, p) PROVE ReportsInv'
  BY <1>6, StartReportCallOK DEF StartDeletePhoto, MutablePhotos, ReportSteps, StatusOf
<1>7. QED
  BY <1>1, <1>2, <1>3, <1>4, <1>5, <1>6 DEF ReportStart

LEMMA ReportsStepOK == ReportsInv /\ [ReportsNext]_reportVars => ReportsInv'
<1> SUFFICES ASSUME ReportsInv, [ReportsNext]_reportVars PROVE ReportsInv'
  OBVIOUS
<1>1. CASE ChangeDonorType \/ UNCHANGED reportVars
  BY <1>1
  DEF ChangeDonorType, reportVars, ReportsInv, ReportsTypeOK, HandlersHaveTheirReport,
      OverlapsAreKnown, CheckedReportsStay, UnsentReportsAreNotCommunicated, StatusOf,
      SentReportsAreCommunicated
<1>2. ASSUME NEW w \in ReportWorkers, NEW r \in Reports, ReportStart(w, r)
      PROVE  ReportsInv'
  BY <1>2, ReportStartOK
<1>3. ASSUME NEW w \in ReportWorkers, InsertReport(w) PROVE ReportsInv'
  BY <1>3, InsertReportOK
<1>4. ASSUME NEW w \in ReportWorkers, CheckDonor(w) PROVE ReportsInv'
  BY <1>4, EndReportCallOK, NextReportStepOK DEF CheckDonor, ReportSteps
<1>5. ASSUME NEW w \in ReportWorkers, Build(w) PROVE ReportsInv'
  <2>1. Approved(reporting[w].report) \in SUBSET Photos
    BY DEF Approved
  <2>2. QED
    BY <1>5, <2>1, NextReportStepOK DEF Build, ReportSteps
<1>6. ASSUME NEW w \in ReportWorkers, Render(w) PROVE ReportsInv'
  BY <1>6, EndReportCallOK, NextReportStepOK DEF Render, ReportSteps
<1>7. ASSUME NEW w \in ReportWorkers, UpdateReport(w) PROVE ReportsInv'
  BY <1>7, UpdateReportOK
<1>8. ASSUME NEW w \in ReportWorkers, Send(w) PROVE ReportsInv'
  BY <1>8, SendOK
<1>9. ASSUME NEW w \in ReportWorkers, UploadPhoto(w) PROVE ReportsInv'
  BY <1>9, NextReportStepOK DEF UploadPhoto, ReportSteps
<1>10. ASSUME NEW w \in ReportWorkers, AddPhoto(w) PROVE ReportsInv'
  BY <1>10, PhotoStepOK DEF AddPhoto, PhotoStates
<1>11. ASSUME NEW w \in ReportWorkers, ApprovePhoto(w) PROVE ReportsInv'
  BY <1>11, PhotoStepOK, EndReportCallOK DEF ApprovePhoto, PhotoStates
<1>12. ASSUME NEW w \in ReportWorkers, DeletePhotoFile(w) PROVE ReportsInv'
  BY <1>12, NextReportStepOK DEF DeletePhotoFile, ReportSteps
<1>13. ASSUME NEW w \in ReportWorkers, DeletePhoto(w) PROVE ReportsInv'
  BY <1>13, PhotoStepOK DEF DeletePhoto, PhotoStates
<1>14. ASSUME NEW w \in ReportWorkers, ReportCallDies(w) PROVE ReportsInv'
  BY <1>14, EndReportCallOK DEF ReportCallDies
<1>15. QED
  BY <1>1, <1>2, <1>3, <1>4, <1>5, <1>6, <1>7, <1>8, <1>9, <1>10, <1>11, <1>12, <1>13, <1>14
  DEF ReportsNext

(***************************************************************************)
(* A report marked as sent has its communication, and one that no two      *)
(* handlers overlapped has one only and is for ever what was sent: for any *)
(* reports, photos and handlers.                                           *)
(***************************************************************************)
THEOREM SentReportsAreKept ==
    ReportsInit /\ [][ReportsNext]_reportVars => []SentReportsAreCommunicated
<1>1. ReportsInv => SentReportsAreCommunicated
  BY DEF ReportsInv
<1>2. QED
  BY <1>1, ReportsInitOK, ReportsStepOK, PTL

(***************************************************************************)
(* Alerts.  A reading that is sending an alert found that nobody had it;   *)
(* whoever it is not being created for by now has it, or it could not be   *)
(* created.                                                                *)
(***************************************************************************)
AlertsTypeOK ==
    /\ inbox \in [AlertTypes -> [Recipients -> Nat]]
    /\ readings \in [AlertReaders ->
          [due : SUBSET AlertTypes, creations : SUBSET (AlertTypes \X Recipients)]]

\* Received, or not for want of a notification that could be created.
Settled(t, r) == inbox[t][r] > 0 \/ <<t, r>> \in unsent

\* Two readings that send one alert cross.
SendersCross ==
    \A t \in AlertTypes : \A v, w \in AlertReaders :
       v # w /\ Sends(v, t) /\ Sends(w, t) => t \in crossing

\* Who is still to be told has not been told, and all the others are settled.
SendersKnowWhoIsLeft ==
    \A t \in AlertTypes : \A w \in AlertReaders : Sends(w, t) =>
       \A r \in Recipients :
          IF <<t, r>> \in readings[w].creations THEN t \notin crossing => inbox[t][r] = 0
          ELSE Settled(t, r)

\* An alert that somebody has received, or that was dealt with, is settled for
\* everybody, or being created for him.
SentAlertsAreSettled ==
    \A t \in AlertTypes : t \in dealtWith \/ Sent(t) # {} =>
       \A r \in Recipients :
          Settled(t, r) \/ \E w \in AlertReaders : <<t, r>> \in readings[w].creations

ToldOnce ==
    \A t \in AlertTypes, r \in Recipients : inbox[t][r] > 1 => t \in crossing

AlertsInv ==
    /\ AlertsTypeOK
    /\ SendersCross
    /\ SendersKnowWhoIsLeft
    /\ SentAlertsAreSettled
    /\ ToldOnce

LEMMA AlertsInitOK == AlertsInit => AlertsInv
<1> SUFFICES ASSUME AlertsInit PROVE AlertsInv
  OBVIOUS
<1> USE DEF AlertsInit
<1>1. AlertsTypeOK
  BY DEF AlertsTypeOK, NoReading
<1>2. \A w \in AlertReaders : readings[w].creations = {}
  BY DEF NoReading
<1>3. \A t \in AlertTypes, r \in Recipients : inbox[t][r] = 0
  OBVIOUS
<1>4. \A t \in AlertTypes : \A w \in AlertReaders : ~ Sends(w, t)
  BY <1>2 DEF Sends
<1>5. SentAlertsAreSettled
  BY <1>3 DEF SentAlertsAreSettled, Sent
<1>6. QED
  BY <1>1, <1>3, <1>4, <1>5 DEF AlertsInv, SendersCross, SendersKnowWhoIsLeft, ToldOnce

\* A reading that does not step sends what it sent.
LEMMA OthersSendOn ==
    ASSUME NEW v \in AlertReaders, readings'[v].creations = readings[v].creations
    PROVE  \A t : Sends(v, t)' <=> Sends(v, t)
  BY DEF Sends

\* A reading begins, or passes over the next alert.
LEMMA NothingSentOK ==
    ASSUME AlertsInv, AlertsTypeOK',
           \A v \in AlertReaders : readings'[v].creations = readings[v].creations,
           UNCHANGED <<inbox, crossing, unsent>>,
           NEW c, dealtWith' = dealtWith \cup {c}, Sent(c) # {} \/ c \in dealtWith
    PROVE  AlertsInv'
<1> USE DEF AlertsInv
<1>1. \A v \in AlertReaders : \A t : Sends(v, t)' <=> Sends(v, t)
  BY OthersSendOn
<1>2. SendersCross' /\ ToldOnce'
  BY <1>1 DEF SendersCross, ToldOnce
<1>3. SendersKnowWhoIsLeft'
  BY <1>1 DEF SendersKnowWhoIsLeft, Settled
<1>4. SentAlertsAreSettled'
  BY DEF SentAlertsAreSettled, Settled, Sent
<1>5. QED
  BY <1>2, <1>3, <1>4

LEMMA ReadAlertsOK ==
    ASSUME AlertsInv, NEW w \in AlertReaders, NEW types \in SUBSET AlertTypes,
           ReadAlerts(w, types)
    PROVE  AlertsInv'
<1>1. /\ readings' = [readings EXCEPT ![w].due = types]
      /\ UNCHANGED <<inbox, dealtWith, crossing, unsent>>
  BY DEF ReadAlerts
<1>2. /\ AlertsTypeOK'
      /\ \A v \in AlertReaders : readings'[v].creations = readings[v].creations
  BY <1>1 DEF AlertsInv, AlertsTypeOK
<1>3. \A v \in AlertReaders : \A t : Sends(v, t)' <=> Sends(v, t)
  BY <1>2, OthersSendOn
<1>4. SendersCross' /\ ToldOnce' /\ SendersKnowWhoIsLeft' /\ SentAlertsAreSettled'
  BY <1>1, <1>2, <1>3
  DEF AlertsInv, SendersCross, ToldOnce, SendersKnowWhoIsLeft, SentAlertsAreSettled,
      Settled, Sent
<1>5. QED
  BY <1>2, <1>4 DEF AlertsInv

LEMMA LookForAlertOK ==
    ASSUME AlertsInv, NEW w \in AlertReaders, NEW c \in AlertTypes, LookForAlert(w, c)
    PROVE  AlertsInv'
<1>1. /\ ~ Sends(w, c)
      /\ UNCHANGED <<inbox, unsent>>
  BY DEF LookForAlert
<1>2. CASE AlreadyNotified(c)
  <2>1. /\ readings' = [readings EXCEPT ![w].due = readings[w].due \ {c}]
        /\ dealtWith' = dealtWith \cup {c} /\ UNCHANGED crossing
    BY <1>2 DEF LookForAlert
  <2>2. /\ AlertsTypeOK'
        /\ \A v \in AlertReaders : readings'[v].creations = readings[v].creations
    BY <1>1, <2>1 DEF AlertsInv, AlertsTypeOK
  <2>3. Sent(c) # {}
    BY <1>2 DEF AlreadyNotified
  <2>4. QED
    BY <1>1, <2>1, <2>2, <2>3, NothingSentOK
<1>3. CASE ~ AlreadyNotified(c)
  <2> USE DEF AlertsInv
  <2>1. /\ readings' = [readings EXCEPT ![w].creations =
                           readings[w].creations \cup ({c} \X Recipients)]
        /\ crossing' = crossing \cup {u \in {c} : \E v \in AlertReaders : Sends(v, c)}
        /\ UNCHANGED dealtWith
    BY <1>3 DEF LookForAlert
  <2>2. /\ readings'[w].creations = readings[w].creations \cup ({c} \X Recipients)
        /\ \A v \in AlertReaders \ {w} : readings'[v] = readings[v]
        /\ crossing \subseteq crossing'
        /\ \A v \in AlertReaders : Sends(v, c) => c \in crossing'
    BY <2>1 DEF AlertsTypeOK
  <2>3. /\ \A v \in AlertReaders \ {w} : \A t : Sends(v, t)' <=> Sends(v, t)
        /\ \A t : t # c => (Sends(w, t)' <=> Sends(w, t))
    BY <2>2, OthersSendOn DEF Sends
  <2>4. \A r \in Recipients : inbox[c][r] = 0
    BY <1>3 DEF AlreadyNotified, Sent, AlertsTypeOK
  <2>5. AlertsTypeOK'
    BY <1>1, <2>1 DEF AlertsTypeOK
  <2>6. SendersCross'
    BY <1>1, <2>2, <2>3 DEF SendersCross
  <2>7. ToldOnce'
    BY <1>1, <2>2 DEF ToldOnce
  <2>8. SendersKnowWhoIsLeft'
    BY <1>1, <2>2, <2>3, <2>4 DEF SendersKnowWhoIsLeft, Settled
  <2>9. SentAlertsAreSettled'
    <3>1. \A v \in AlertReaders : readings[v].creations \subseteq readings'[v].creations
      BY <2>2
    <3>2. QED
      BY <1>1, <2>1, <3>1 DEF SentAlertsAreSettled, Settled, Sent
  <2>10. QED
    BY <2>5, <2>6, <2>7, <2>8, <2>9
<1>4. QED
  BY <1>2, <1>3

\* What a notification that was created, or could not be, leaves of the invariant.
LEMMA AlertSentToOK ==
    ASSUME AlertsInv, NEW w \in AlertReaders, NEW c \in AlertTypes, NEW r \in Recipients,
           <<c, r>> \in readings[w].creations,
           NEW failed \in BOOLEAN, AlertSentTo(w, c, r, failed), UNCHANGED crossing,
           inbox' \in [AlertTypes -> [Recipients -> Nat]],
           Settled(c, r)',
           \A t \in AlertTypes, q \in Recipients : Settled(t, q) => Settled(t, q)',
           \A t \in AlertTypes, q \in Recipients :
              t # c \/ q # r => inbox'[t][q] = inbox[t][q],
           inbox'[c][r] \in {inbox[c][r], inbox[c][r] + 1}
    PROVE  AlertsInv'
<1> USE DEF AlertsInv
<1> PICK rest : rest = readings[w].creations \ {<<c, r>>}
  OBVIOUS
<1>1. PICK due \in SUBSET AlertTypes :
         readings' = [readings EXCEPT ![w] = [due |-> due, creations |-> rest]]
  BY DEF AlertSentTo, AlertsTypeOK
<1>2. /\ readings'[w].creations = readings[w].creations \ {<<c, r>>}
      /\ \A v \in AlertReaders \ {w} : readings'[v] = readings[v]
      /\ AlertsTypeOK'
  BY <1>1 DEF AlertsTypeOK
<1>3. dealtWith' \subseteq dealtWith \cup {c}
  BY DEF AlertSentTo
<1>4. /\ \A v \in AlertReaders \ {w} : \A t : Sends(v, t)' <=> Sends(v, t)
      /\ \A t : Sends(w, t)' => Sends(w, t)
      /\ Sends(w, c)
  BY <1>2, OthersSendOn DEF Sends
<1>5. SendersCross'
  BY <1>4 DEF SendersCross
<1>6. /\ c \notin crossing => inbox[c][r] = 0
      /\ \A q \in Recipients : <<c, q>> \notin readings[w].creations => Settled(c, q)
  BY <1>4 DEF SendersKnowWhoIsLeft
<1>7. ToldOnce'
  <2> SUFFICES ASSUME NEW t \in AlertTypes, NEW q \in Recipients, inbox'[t][q] > 1,
                      t \notin crossing
               PROVE  FALSE
    BY DEF ToldOnce
  <2>1. CASE t = c /\ q = r
    BY <1>6, <2>1
  <2>2. CASE t # c \/ q # r
    <3>1. inbox'[t][q] = inbox[t][q]
      BY <2>2
    <3>2. QED
      BY <3>1 DEF ToldOnce
  <2>3. QED
    BY <2>1, <2>2
<1>8. SendersKnowWhoIsLeft'
  <2> SUFFICES ASSUME NEW t \in AlertTypes, NEW v \in AlertReaders, Sends(v, t)',
                      NEW q \in Recipients
               PROVE  IF <<t, q>> \in readings'[v].creations
                      THEN t \notin crossing => inbox'[t][q] = 0
                      ELSE Settled(t, q)'
    BY DEF SendersKnowWhoIsLeft
  <2>1. IF <<t, q>> \in readings[v].creations THEN t \notin crossing => inbox[t][q] = 0
        ELSE Settled(t, q)
    BY <1>4 DEF SendersKnowWhoIsLeft
  <2>2. CASE t = c /\ q = r
    <3>1. v # w => t \in crossing
      BY <1>4, <2>2 DEF SendersCross
    <3>2. QED
      BY <1>2, <2>2, <3>1
  <2>3. CASE t # c \/ q # r
    <3>1. inbox'[t][q] = inbox[t][q]
          /\ (<<t, q>> \in readings'[v].creations <=> <<t, q>> \in readings[v].creations)
      BY <1>2, <2>3
    <3>2. QED
      BY <2>1, <3>1
  <2>4. QED
    BY <2>2, <2>3
<1>9. SentAlertsAreSettled'
  <2> SUFFICES ASSUME NEW t \in AlertTypes, t \in dealtWith' \/ Sent(t)' # {},
                      NEW q \in Recipients, ~ Settled(t, q)'
               PROVE  \E v \in AlertReaders : <<t, q>> \in readings'[v].creations
    BY DEF SentAlertsAreSettled
  <2>1. ~ (t = c /\ q = r) /\ ~ Settled(t, q)
    OBVIOUS
  <2>2. \E v \in AlertReaders : <<t, q>> \in readings[v].creations
    <3>1. CASE t = c
      BY <1>6, <2>1, <3>1
    <3>2. CASE t # c
      <4>1. \A p \in Recipients : inbox'[t][p] = inbox[t][p]
        BY <3>2
      <4>2. t \in dealtWith \/ Sent(t) # {}
        BY <1>3, <3>2, <4>1 DEF Sent
      <4>3. QED
        BY <2>1, <4>2 DEF SentAlertsAreSettled
    <3>3. QED
      BY <3>1, <3>2
  <2>3. QED
    BY <1>2, <2>1, <2>2
<1>10. QED
  BY <1>2, <1>5, <1>7, <1>8, <1>9

LEMMA CreateAlertOK ==
    ASSUME AlertsInv, NEW w \in AlertReaders, NEW t \in AlertTypes, NEW r \in Recipients,
           CreateAlert(w, t, r)
    PROVE  AlertsInv'
<1> PICK failed \in BOOLEAN : failed = FALSE
  OBVIOUS
<1>1. /\ <<t, r>> \in readings[w].creations
      /\ AlertSentTo(w, t, r, failed)
      /\ UNCHANGED <<crossing, unsent>>
      /\ inbox \in [AlertTypes -> [Recipients -> Nat]]
  BY DEF CreateAlert, AlertsInv, AlertsTypeOK
<1>2. inbox' = [inbox EXCEPT ![t] = [inbox[t] EXCEPT ![r] = inbox[t][r] + 1]]
  BY DEF CreateAlert
<1>3. /\ inbox'[t] = [inbox[t] EXCEPT ![r] = inbox[t][r] + 1]
      /\ \A u \in AlertTypes : u # t => inbox'[u] = inbox[u]
      /\ inbox' = [u \in AlertTypes |-> inbox'[u]]
  BY <1>1, <1>2
<1>4. \A u \in AlertTypes, q \in Recipients :
         u # t \/ q # r => inbox'[u][q] = inbox[u][q]
  BY <1>1, <1>3
<1>5. inbox'[t][r] = inbox[t][r] + 1 /\ inbox[t][r] \in Nat
  BY <1>1, <1>3
<1>6. inbox' \in [AlertTypes -> [Recipients -> Nat]]
  <2>1. \A u \in AlertTypes : inbox'[u] \in [Recipients -> Nat]
    BY <1>1, <1>3
  <2>2. QED
    BY <1>3, <2>1
<1>7. Settled(t, r)'
  BY <1>5 DEF Settled
<1>8. \A u \in AlertTypes, q \in Recipients : Settled(u, q) => Settled(u, q)'
  <2>1. \A u \in AlertTypes, q \in Recipients : u # t \/ q # r =>
           (Settled(u, q) => Settled(u, q)')
    BY <1>1, <1>4 DEF Settled
  <2>2. QED
    BY <1>7, <2>1
<1>9. inbox'[t][r] \in {inbox[t][r], inbox[t][r] + 1}
  BY <1>5
<1>10. QED
  BY <1>1, <1>4, <1>6, <1>7, <1>8, <1>9, AlertSentToOK

LEMMA CreateAlertFailsOK ==
    ASSUME AlertsInv, NEW w \in AlertReaders, NEW t \in AlertTypes, NEW r \in Recipients,
           CreateAlertFails(w, t, r)
    PROVE  AlertsInv'
<1>1. /\ <<t, r>> \in readings[w].creations
      /\ AlertSentTo(w, t, r, TRUE)
      /\ unsent' = unsent \cup {<<t, r>>}
      /\ UNCHANGED <<crossing, inbox>>
      /\ inbox \in [AlertTypes -> [Recipients -> Nat]]
  BY DEF CreateAlertFails, AlertsInv, AlertsTypeOK
<1>2. Settled(t, r)'
  BY <1>1 DEF Settled
<1>3. \A u \in AlertTypes, q \in Recipients : Settled(u, q) => Settled(u, q)'
  BY <1>1 DEF Settled
<1>4. QED
  BY <1>1, <1>2, <1>3, AlertSentToOK

LEMMA ReadingDiesOK ==
    ASSUME AlertsInv, NEW w \in AlertReaders, ReadingDies(w)
    PROVE  AlertsInv'
<1> USE DEF AlertsInv
<1>1. /\ readings' = [readings EXCEPT ![w] = NoReading]
      /\ unsent' = unsent \cup readings[w].creations
      /\ UNCHANGED <<inbox, dealtWith, crossing>>
  BY DEF ReadingDies
<1>2. /\ readings'[w].creations = {}
      /\ \A v \in AlertReaders \ {w} : readings'[v] = readings[v]
  BY <1>1 DEF AlertsTypeOK, NoReading
<1>3. /\ \A v \in AlertReaders \ {w} : \A t : Sends(v, t)' <=> Sends(v, t)
      /\ \A t : ~ Sends(w, t)'
  BY <1>2, OthersSendOn DEF Sends
<1>4. \A t \in AlertTypes, q \in Recipients : Settled(t, q) => Settled(t, q)'
  BY <1>1 DEF Settled
<1>5. AlertsTypeOK'
  BY <1>1 DEF AlertsTypeOK, NoReading
<1>6. SendersCross' /\ ToldOnce'
  BY <1>1, <1>3 DEF SendersCross, ToldOnce
<1>7. SendersKnowWhoIsLeft'
  <2> SUFFICES ASSUME NEW t \in AlertTypes, NEW v \in AlertReaders, Sends(v, t)',
                      NEW q \in Recipients
               PROVE  IF <<t, q>> \in readings'[v].creations
                      THEN t \notin crossing' => inbox'[t][q] = 0
                      ELSE Settled(t, q)'
    BY DEF SendersKnowWhoIsLeft
  <2>1. v # w /\ Sends(v, t) /\ readings'[v] = readings[v]
    BY <1>2, <1>3
  <2>2. QED
    BY <1>1, <1>4, <2>1 DEF SendersKnowWhoIsLeft
<1>8. SentAlertsAreSettled'
  <2> SUFFICES ASSUME NEW t \in AlertTypes, t \in dealtWith' \/ Sent(t)' # {},
                      NEW q \in Recipients
               PROVE  \/ Settled(t, q)'
                      \/ \E v \in AlertReaders : <<t, q>> \in readings'[v].creations
    BY DEF SentAlertsAreSettled
  <2>1. t \in dealtWith \/ Sent(t) # {}
    BY <1>1 DEF Sent
  <2>2. CASE Settled(t, q)
    BY <1>4, <2>2
  <2>3. CASE \E v \in AlertReaders : <<t, q>> \in readings[v].creations
    BY <1>1, <1>2, <2>3 DEF Settled
  <2>4. QED
    BY <2>1, <2>2, <2>3 DEF SentAlertsAreSettled
<1>9. QED
  BY <1>5, <1>6, <1>7, <1>8

LEMMA AlertsStepOK == AlertsInv /\ [AlertsNext]_alertVars => AlertsInv'
<1> SUFFICES ASSUME AlertsInv, [AlertsNext]_alertVars PROVE AlertsInv'
  OBVIOUS
<1>1. CASE AlertsNext
  BY <1>1, ReadAlertsOK, LookForAlertOK, CreateAlertOK, CreateAlertFailsOK, ReadingDiesOK
  DEF AlertsNext
<1>2. CASE UNCHANGED alertVars
  <2>1. UNCHANGED <<inbox, readings, dealtWith, crossing, unsent>>
    BY <1>2 DEF alertVars
  <2>2. \A w \in AlertReaders : \A t : Sends(w, t)' <=> Sends(w, t)
    BY <2>1, OthersSendOn
  <2>3. SendersKnowWhoIsLeft'
    BY <2>1, <2>2 DEF AlertsInv, SendersKnowWhoIsLeft, Settled
  <2>4. SentAlertsAreSettled'
    BY <2>1 DEF AlertsInv, SentAlertsAreSettled, Settled, Sent
  <2>5. AlertsTypeOK' /\ SendersCross' /\ ToldOnce'
    BY <2>1, <2>2 DEF AlertsInv, AlertsTypeOK, SendersCross, ToldOnce
  <2>6. QED
    BY <2>3, <2>4, <2>5 DEF AlertsInv
<1>3. QED
  BY <1>1, <1>2

(***************************************************************************)
(* No director is told twice unless two readings crossed, and no reading   *)
(* passes over an alert that somebody will not receive, but for one that   *)
(* could not be created: for any alerts, directors and readings.           *)
(***************************************************************************)
THEOREM AlertsAreSentOnce ==
    AlertsInit /\ [][AlertsNext]_alertVars => []AlertsComeOnce
<1>1. AlertsInv => AlertsComeOnce
  BY DEF AlertsInv, AlertsComeOnce, SentAlertsAreSettled, ToldOnce, Settled
<1>2. QED
  BY <1>1, AlertsInitOK, AlertsStepOK, PTL

(***************************************************************************)
(* Contacts: what a handler holds, what it has read of the directory, and  *)
(* what the form still has to hand over.                                   *)
(***************************************************************************)
AnsweredSteps == {"possible-duplicate", "created", "got", "photo", "photo-again"}

ReadingSteps == {"find-duplicate", "insert", "update", "close-category"}

ContactCalls ==
    [step : ReadingSteps \cup AnsweredSteps \cup {"idle"},
     contact : ContactIds \cup {NoContact}, marks : SUBSET Marks,
     category : CategoryNames \cup {NoName}, heard : BOOLEAN, forced : BOOLEAN,
     stale : SUBSET {"category", "similar", "users"}]

ContactsTypeOK ==
    /\ contacts \in [ContactIds -> ContactRows]
    /\ categoryState \in [CategoryNames -> {"absent", "active", "inactive"}]
    /\ working \in [ContactWorkers -> ContactCalls]
    /\ contactForm \in Forms

\* A contact that is there has a category.
ContactsHaveACategory ==
    \A c \in ContactIds : contacts[c].state # "absent" => contacts[c].category \in CategoryNames

\* What a handler has read holds as long as it is not stale.
Knows(h, rows, states) ==
    /\ h.step \in ReadingSteps \ {"update"} => h.category \in CategoryNames
    /\ h.step \in AnsweredSteps \cup {"update"} => h.contact \in ContactIds
    /\ /\ h.step \in {"find-duplicate", "insert", "update"}
       /\ h.category # NoName /\ "category" \notin h.stale
       => states[h.category] = "active"
    /\ h.step = "insert" /\ ~ h.forced /\ "similar" \notin h.stale =>
          \A c \in ContactIds : rows[c].state = "active" => ~ Similar(rows[c].marks, h.marks)
    /\ h.step = "close-category" /\ "users" \notin h.stale =>
          \A c \in ContactIds : rows[c].state = "active" => rows[c].category # h.category

HandlersKnow == \A w \in ContactWorkers : Knows(working[w], contacts, categoryState)

DirectoryInv ==
    /\ ContactsHaveACategory
    /\ HandlersKnow
    /\ ContactsAreSought

AnswersAreHeard ==
    \A w \in ContactWorkers : working[w].step \in AnsweredSteps => working[w].heard

ClosedFormsHearNothing ==
    ~ left /\ ~ contactForm.shown => \A w \in ContactWorkers : ~ working[w].heard

\* A photo is sent for a contact the form was told of.
PhotosAreOfSavedContacts ==
    ~ left => \A w \in ContactWorkers : working[w].step = "photo" =>
       working[w].contact \in contactForm.told

SavedContactsAreTold ==
    ~ left /\ contactForm.saved # NoContact => contactForm.saved \in contactForm.told

\* An open form that was told of a contact has it still to hand over.
ToldContactsArePending ==
    ~ left /\ contactForm.shown /\ contactForm.told # {} =>
       contactForm.saved # NoContact \/ \E w \in ContactWorkers : working[w].step = "photo"

FormInv ==
    /\ AnswersAreHeard
    /\ ClosedFormsHearNothing
    /\ PhotosAreOfSavedContacts
    /\ SavedContactsAreTold
    /\ ToldContactsArePending
    /\ SavedContactIsPicked

ContactsInv ==
    /\ ContactsTypeOK
    /\ DirectoryInv
    /\ FormInv

LEMMA StepsRead ==
    /\ Reads("find-duplicate") = {"category"}
    /\ Reads("insert") = {"category", "similar"}
    /\ Reads("update") = {"category"}
    /\ Reads("close-category") = {"users"}
    /\ \A s \in AnsweredSteps \cup {"idle"} : Reads(s) = {}
  BY DEF Reads, AnsweredSteps

\* What one field of a call, changed, leaves of it.
LEMMA CallEdits ==
    ASSUME NEW h \in ContactCalls
    PROVE  /\ \A s \in ReadingSteps \cup AnsweredSteps \cup {"idle"} :
                 [h EXCEPT !.step = s] =
                    [step |-> s, contact |-> h.contact, marks |-> h.marks,
                     category |-> h.category, heard |-> h.heard, forced |-> h.forced,
                     stale |-> h.stale]
           /\ \A c \in ContactIds \cup {NoContact} :
                 [h EXCEPT !.contact = c] =
                    [step |-> h.step, contact |-> c, marks |-> h.marks,
                     category |-> h.category, heard |-> h.heard, forced |-> h.forced,
                     stale |-> h.stale]
           /\ \A m \in SUBSET Marks :
                 [h EXCEPT !.marks = m] =
                    [step |-> h.step, contact |-> h.contact, marks |-> m,
                     category |-> h.category, heard |-> h.heard, forced |-> h.forced,
                     stale |-> h.stale]
           /\ \A k \in CategoryNames \cup {NoName} :
                 [h EXCEPT !.category = k] =
                    [step |-> h.step, contact |-> h.contact, marks |-> h.marks,
                     category |-> k, heard |-> h.heard, forced |-> h.forced,
                     stale |-> h.stale]
           /\ \A b \in BOOLEAN :
                 [h EXCEPT !.heard = b] =
                    [step |-> h.step, contact |-> h.contact, marks |-> h.marks,
                     category |-> h.category, heard |-> b, forced |-> h.forced,
                     stale |-> h.stale]
           /\ \A b \in BOOLEAN :
                 [h EXCEPT !.forced = b] =
                    [step |-> h.step, contact |-> h.contact, marks |-> h.marks,
                     category |-> h.category, heard |-> h.heard, forced |-> b,
                     stale |-> h.stale]
           /\ \A s \in SUBSET {"category", "similar", "users"} :
                 [h EXCEPT !.stale = s] =
                    [step |-> h.step, contact |-> h.contact, marks |-> h.marks,
                     category |-> h.category, heard |-> h.heard, forced |-> h.forced,
                     stale |-> s]
  BY DEF ContactCalls

LEMMA IdleIsACall ==
    /\ Idle \in ContactCalls
    /\ Idle.step = "idle" /\ Idle.stale = {} /\ Idle.heard = FALSE /\ Idle.forced = FALSE
    /\ Idle.marks = {} /\ Idle.category = NoName
  BY DEF Idle, ContactCalls

\* A handler knows as much of the directory if it does not change.
LEMMA HandlerChangesOK ==
    ASSUME ContactsTypeOK, DirectoryInv, NEW w \in ContactWorkers, NEW h \in ContactCalls,
           Knows(h, contacts, categoryState),
           working' = [working EXCEPT ![w] = h], UNCHANGED Directory
    PROVE  DirectoryInv' /\ working' \in [ContactWorkers -> ContactCalls]
<1> USE DEF ContactsTypeOK, DirectoryInv
<1>1. /\ UNCHANGED <<contacts, categoryState, unsought, unchecked>>
      /\ working' \in [ContactWorkers -> ContactCalls]
  BY DEF Directory
<1>2. HandlersKnow'
  BY <1>1 DEF HandlersKnow
<1>3. ContactsHaveACategory' /\ ContactsAreSought'
  BY <1>1 DEF ContactsHaveACategory, ContactsAreSought, IsActive
<1>4. QED
  BY <1>1, <1>2, <1>3

\* After a write, a handler knows nothing of what it has read; one that reads nothing
\* knows all it needs.
LEMMA StaleHandlersKnow ==
    ASSUME NEW h \in ContactCalls, NEW rows, NEW states, Knows(h, rows, states),
           NEW g, g = [h EXCEPT !.stale = h.stale \cup Reads(h.step)],
           NEW laterRows, NEW laterStates
    PROVE  /\ g \in ContactCalls
           /\ g.step = h.step /\ g.heard = h.heard /\ g.contact = h.contact
           /\ Knows(g, laterRows, laterStates)
<1> PICK s \in SUBSET {"category", "similar", "users"} : s = h.stale \cup Reads(h.step)
  BY StepsRead DEF ContactCalls, ReadingSteps
<1>1. g = [h EXCEPT !.stale = s]
  OBVIOUS
<1>2. g = [step |-> h.step, contact |-> h.contact, marks |-> h.marks,
           category |-> h.category, heard |-> h.heard, forced |-> h.forced, stale |-> s]
  BY <1>1, CallEdits
<1>3. /\ g \in ContactCalls /\ g.step = h.step /\ g.heard = h.heard /\ g.contact = h.contact
      /\ g.category = h.category /\ g.stale = s
  BY <1>2 DEF ContactCalls
<1>4. Knows(g, laterRows, laterStates)
  BY <1>3, StepsRead DEF Knows, ReadingSteps
<1>5. QED
  BY <1>3, <1>4

LEMMA AfterAWrite ==
    ASSUME ContactsTypeOK, HandlersKnow, NEW w \in ContactWorkers, NEW h \in ContactCalls,
           working' = [Written({w}) EXCEPT ![w] = h],
           Knows(h, contacts', categoryState')
    PROVE  /\ HandlersKnow'
           /\ working' \in [ContactWorkers -> ContactCalls]
           /\ working'[w] = h
           /\ \A v \in ContactWorkers \ {w} :
                 /\ working'[v].step = working[v].step
                 /\ working'[v].heard = working[v].heard
                 /\ working'[v].contact = working[v].contact
<1> USE DEF ContactsTypeOK, HandlersKnow
<1>1. /\ working'[w] = h
      /\ \A v \in ContactWorkers \ {w} :
            working'[v] = [working[v] EXCEPT !.stale = working[v].stale \cup Reads(working[v].step)]
      /\ working' = [v \in ContactWorkers |-> working'[v]]
  BY DEF Written
<1>2. \A v \in ContactWorkers \ {w} :
         /\ working'[v] \in ContactCalls
         /\ Knows(working'[v], contacts', categoryState')
         /\ working'[v].step = working[v].step
         /\ working'[v].heard = working[v].heard
         /\ working'[v].contact = working[v].contact
  <2> TAKE v \in ContactWorkers \ {w}
  <2> PICK g \in ContactCalls : g = working[v]
    OBVIOUS
  <2>1. Knows(g, contacts, categoryState)
    OBVIOUS
  <2> PICK later : later = working'[v]
    OBVIOUS
  <2>2. later = [g EXCEPT !.stale = g.stale \cup Reads(g.step)]
    BY <1>1
  <2>3. /\ later \in ContactCalls
        /\ later.step = g.step /\ later.heard = g.heard /\ later.contact = g.contact
        /\ Knows(later, contacts', categoryState')
    BY <2>1, <2>2, StaleHandlersKnow
  <2>4. QED
    BY <2>3
<1>3. QED
  BY <1>1, <1>2

LEMMA AfterAWriteOfNone ==
    ASSUME ContactsTypeOK, HandlersKnow, working' = Written({})
    PROVE  /\ HandlersKnow'
           /\ working' \in [ContactWorkers -> ContactCalls]
           /\ \A v \in ContactWorkers :
                 /\ working'[v].step = working[v].step
                 /\ working'[v].heard = working[v].heard
                 /\ working'[v].contact = working[v].contact
<1> USE DEF ContactsTypeOK, HandlersKnow
<1>1. /\ \A v \in ContactWorkers :
            working'[v] = [working[v] EXCEPT !.stale = working[v].stale \cup Reads(working[v].step)]
      /\ working' = [v \in ContactWorkers |-> working'[v]]
  BY DEF Written
<1>2. \A v \in ContactWorkers :
         /\ working'[v] \in ContactCalls
         /\ Knows(working'[v], contacts', categoryState')
         /\ working'[v].step = working[v].step
         /\ working'[v].heard = working[v].heard
         /\ working'[v].contact = working[v].contact
  <2> TAKE v \in ContactWorkers
  <2> PICK g \in ContactCalls : g = working[v]
    OBVIOUS
  <2>1. Knows(g, contacts, categoryState)
    OBVIOUS
  <2> PICK later : later = working'[v]
    OBVIOUS
  <2>2. later = [g EXCEPT !.stale = g.stale \cup Reads(g.step)]
    BY <1>1
  <2>3. /\ later \in ContactCalls
        /\ later.step = g.step /\ later.heard = g.heard /\ later.contact = g.contact
        /\ Knows(later, contacts', categoryState')
    BY <2>1, <2>2, StaleHandlersKnow
  <2>4. QED
    BY <2>3
<1>3. QED
  BY <1>1, <1>2

\* A row of a contact that was changed in part.
LEMMA ContactEdits ==
    ASSUME NEW row \in ContactRows
    PROVE  /\ \A s \in {"absent", "active", "inactive"} :
                 [row EXCEPT !.state = s] =
                    [state |-> s, marks |-> row.marks, category |-> row.category]
           /\ \A m \in SUBSET Marks, k \in CategoryNames \cup {NoName} :
                 [row EXCEPT !.marks = m, !.category = k] =
                    [state |-> row.state, marks |-> m, category |-> k]
<1>1. \A s \in {"absent", "active", "inactive"} :
         [row EXCEPT !.state = s] =
            [state |-> s, marks |-> row.marks, category |-> row.category]
  BY DEF ContactRows
<1>2. \A m \in SUBSET Marks, k \in CategoryNames \cup {NoName} :
         [row EXCEPT !.marks = m, !.category = k] =
            [state |-> row.state, marks |-> m, category |-> k]
  <2> TAKE m \in SUBSET Marks, k \in CategoryNames \cup {NoName}
  <2> DEFINE mid == [row EXCEPT !.marks = m]
  <2>1. mid = [state |-> row.state, marks |-> m, category |-> row.category]
    BY DEF ContactRows
  <2>2. [row EXCEPT !.marks = m, !.category = k] = [mid EXCEPT !.category = k]
    OBVIOUS
  <2> HIDE DEF mid
  <2>3. [mid EXCEPT !.category = k] = [state |-> row.state, marks |-> m, category |-> k]
    BY <2>1
  <2>4. QED
    BY <2>2, <2>3
<1>3. QED
  BY <1>1, <1>2

\* The calls that a handler begins with.
LEMMA NewCall ==
    ASSUME NEW m \in SUBSET Marks, NEW f \in BOOLEAN, NEW call,
           call = [Idle EXCEPT !.marks = m, !.forced = f]
    PROVE  call \in ContactCalls /\ call.stale = {} /\ call.forced = f /\ call.heard = FALSE
  BY DEF ContactCalls, Idle

LEMMA NewHeardCall ==
    ASSUME NEW m \in SUBSET Marks, NEW call, call = [Idle EXCEPT !.marks = m, !.heard = TRUE]
    PROVE  call \in ContactCalls /\ call.stale = {} /\ call.forced = FALSE /\ call.heard = TRUE
  BY DEF ContactCalls, Idle

LEMMA NewForcedCall ==
    ASSUME NEW m \in SUBSET Marks, NEW call,
           call = [Idle EXCEPT !.marks = m, !.heard = TRUE, !.forced = TRUE]
    PROVE  call \in ContactCalls /\ call.stale = {} /\ call.forced = TRUE /\ call.heard = TRUE
  BY DEF ContactCalls, Idle

LEMMA NewCallForContact ==
    ASSUME NEW c \in ContactIds, NEW call, call = [Idle EXCEPT !.contact = c, !.heard = TRUE]
    PROVE  call \in ContactCalls /\ call.stale = {} /\ call.contact = c /\ call.heard = TRUE
  BY DEF ContactCalls, Idle

LEMMA NewCallToClose ==
    ASSUME NEW k \in CategoryNames, NEW call, call = [Idle EXCEPT !.category = k]
    PROVE  call \in ContactCalls /\ call.category = k /\ call.heard = FALSE
  BY DEF ContactCalls, Idle

LEMMA AnswerFacts ==
    ASSUME ContactsTypeOK, NEW w \in ContactWorkers, NEW step \in AnsweredSteps,
           NEW c \in ContactIds, NEW h, h = Answer(w, step, c)
    PROVE  /\ h \in ContactCalls
           /\ h.heard = working[w].heard
           /\ IF h.heard THEN h.step = step /\ h.contact = c ELSE h = Idle
           /\ \A rows, states : Knows(h, rows, states)
<1>1. CASE working[w].heard
  <2> PICK f \in BOOLEAN : f = working[w].forced
    BY DEF ContactsTypeOK, ContactCalls
  <2>1. h = [Idle EXCEPT !.step = step, !.contact = c, !.heard = TRUE, !.forced = f]
    BY <1>1 DEF Answer
  <2>2. h \in ContactCalls /\ h.step = step /\ h.contact = c /\ h.heard = TRUE /\ h.stale = {}
    BY <2>1 DEF ContactCalls, Idle
  <2>3. \A rows, states : Knows(h, rows, states)
    BY <2>2 DEF Knows, AnsweredSteps, ReadingSteps
  <2>4. QED
    BY <1>1, <2>2, <2>3
<1>2. CASE ~ working[w].heard
  <2>1. h = Idle
    BY <1>2 DEF Answer
  <2>2. \A rows, states : Knows(h, rows, states)
    BY <2>1, IdleIsACall DEF Knows, AnsweredSteps, ReadingSteps
  <2>3. working[w].heard \in BOOLEAN
    BY DEF ContactsTypeOK, ContactCalls
  <2>4. QED
    BY <1>2, <2>1, <2>2, <2>3, IdleIsACall
<1>3. QED
  BY <1>1, <1>2

\* A call that is brought to its first statement.
AtStep(call, step) == [call EXCEPT !.step = step]

\* A handler begins.
LEMMA StartStepOK ==
    ASSUME ContactsTypeOK, DirectoryInv, NEW w \in ContactWorkers, NEW call, NEW step,
           NEW h \in ContactCalls, h = AtStep(call, step),
           StartStep(w, step, call), UNCHANGED Directory,
           Knows(h, contacts, categoryState)
    PROVE  /\ DirectoryInv' /\ working' \in [ContactWorkers -> ContactCalls]
           /\ working[w] = Idle
           /\ working'[w] = h
           /\ \A v \in ContactWorkers \ {w} : working'[v] = working[v]
<1>1. working[w] = Idle /\ working' = [working EXCEPT ![w] = h]
  BY DEF StartStep, AtStep
<1>2. working'[w] = h /\ \A v \in ContactWorkers \ {w} : working'[v] = working[v]
  BY <1>1 DEF ContactsTypeOK
<1>3. QED
  BY <1>1, <1>2, HandlerChangesOK

LEMMA StartCreateContactOK ==
    ASSUME ContactsTypeOK, DirectoryInv, NEW w \in ContactWorkers, NEW k \in CategoryNames,
           NEW call \in ContactCalls, call.stale = {}, StartCreateContact(w, k, call)
    PROVE  /\ DirectoryInv' /\ working' \in [ContactWorkers -> ContactCalls]
           /\ working[w] = Idle
           /\ working'[w].step \in ReadingSteps /\ working'[w].heard = call.heard
           /\ \A v \in ContactWorkers \ {w} : working'[v] = working[v]
<1> PICK step \in {"insert", "find-duplicate"} :
       step = IF call.forced THEN "insert" ELSE "find-duplicate"
  OBVIOUS
<1> PICK filed : filed = [call EXCEPT !.category = k]
  OBVIOUS
<1> PICK h : h = AtStep(filed, step)
  OBVIOUS
<1>1. filed = [step |-> call.step, contact |-> call.contact, marks |-> call.marks,
               category |-> k, heard |-> call.heard, forced |-> call.forced,
               stale |-> call.stale]
  BY CallEdits
<1>2. /\ filed \in ContactCalls /\ filed.heard = call.heard /\ filed.forced = call.forced
      /\ filed.category = k /\ filed.stale = {}
  BY <1>1 DEF ContactCalls
<1>3. /\ categoryState[k] = "active"
      /\ StartStep(w, step, filed)
      /\ UNCHANGED Directory
  BY DEF StartCreateContact
<1>4. step \in ReadingSteps \cup AnsweredSteps /\ step \in ReadingSteps
  BY DEF ReadingSteps
<1>5. /\ h \in ContactCalls /\ h.step = step /\ h.category = k /\ h.forced = call.forced
      /\ h.stale = {} /\ h.heard = call.heard
  <2>1. h = [step |-> step, contact |-> filed.contact, marks |-> filed.marks,
             category |-> filed.category, heard |-> filed.heard, forced |-> filed.forced,
             stale |-> filed.stale]
    BY <1>2, <1>4, CallEdits DEF AtStep
  <2>2. QED
    BY <1>2, <1>4, <2>1 DEF ContactCalls
<1>6. Knows(h, contacts, categoryState)
  BY <1>3, <1>5 DEF Knows, ReadingSteps, AnsweredSteps
<1>7. /\ DirectoryInv' /\ working' \in [ContactWorkers -> ContactCalls]
      /\ working[w] = Idle
      /\ working'[w] = h
      /\ \A v \in ContactWorkers \ {w} : working'[v] = working[v]
  BY <1>3, <1>5, <1>6, StartStepOK
<1>8. QED
  BY <1>4, <1>5, <1>7

\* What a step that the form does not see leaves of the form.
LEMMA FormDoesNotSee ==
    ASSUME ContactsInv, NEW w \in ContactWorkers, UNCHANGED Browser,
           \A v \in ContactWorkers \ {w} :
              /\ working'[v].step = working[v].step
              /\ working'[v].heard = working[v].heard
              /\ working'[v].contact = working[v].contact,
           working[w].step # "photo", working'[w].step # "photo",
           working'[w].heard => working[w].heard,
           working'[w].step \in AnsweredSteps => working'[w].heard
    PROVE  FormInv' /\ contactForm' \in Forms
<1> USE DEF ContactsInv, FormInv
<1>1. UNCHANGED <<contactForm, picked, left>> /\ contactForm \in Forms
  BY DEF Browser, ContactsTypeOK
<1>2. AnswersAreHeard' /\ ClosedFormsHearNothing' /\ PhotosAreOfSavedContacts'
  BY <1>1 DEF AnswersAreHeard, ClosedFormsHearNothing, PhotosAreOfSavedContacts
<1>3. SavedContactsAreTold' /\ SavedContactIsPicked'
  BY <1>1 DEF SavedContactsAreTold, SavedContactIsPicked
<1>4. ToldContactsArePending'
  BY <1>1 DEF ToldContactsArePending
<1>5. QED
  BY <1>1, <1>2, <1>3, <1>4

LEMMA CreateElsewhereOK ==
    ASSUME ContactsInv, NEW w \in ContactWorkers, NEW m \in SUBSET Marks,
           NEW k \in CategoryNames, NEW forced \in BOOLEAN, CreateElsewhere(w, m, k, forced)
    PROVE  ContactsInv'
<1> PICK call : call = [Idle EXCEPT !.marks = m, !.forced = forced]
  OBVIOUS
<1>1. call \in ContactCalls /\ call.stale = {} /\ call.heard = FALSE
  BY NewCall
<1>2. StartCreateContact(w, k, call) /\ UNCHANGED Browser
  BY DEF CreateElsewhere
<1>3. /\ DirectoryInv' /\ working' \in [ContactWorkers -> ContactCalls]
      /\ working[w] = Idle
      /\ working'[w].step \in ReadingSteps /\ working'[w].heard = FALSE
      /\ \A v \in ContactWorkers \ {w} : working'[v] = working[v]
  BY <1>1, <1>2, StartCreateContactOK DEF ContactsInv
<1>4. FormInv' /\ contactForm' \in Forms
  BY <1>2, <1>3, FormDoesNotSee, IdleIsACall DEF ReadingSteps, AnsweredSteps
<1>5. ContactsTypeOK'
  BY <1>2, <1>3, <1>4 DEF ContactsInv, ContactsTypeOK, StartCreateContact, Directory
<1>6. QED
  BY <1>3, <1>4, <1>5 DEF ContactsInv

\* One handler changes, and nothing else.
LEMMA HandlerGoesOnOK ==
    ASSUME ContactsInv, NEW w \in ContactWorkers, NEW h \in ContactCalls,
           Knows(h, contacts, categoryState),
           working' = [working EXCEPT ![w] = h], UNCHANGED <<Directory, Browser>>,
           working[w].step # "photo", h.step # "photo",
           h.heard => working[w].heard, h.step \in AnsweredSteps => h.heard
    PROVE  ContactsInv'
<1>1. working'[w] = h /\ \A v \in ContactWorkers \ {w} : working'[v] = working[v]
  BY DEF ContactsInv, ContactsTypeOK
<1>2. DirectoryInv' /\ working' \in [ContactWorkers -> ContactCalls]
  BY HandlerChangesOK DEF ContactsInv
<1>3. FormInv' /\ contactForm' \in Forms
  BY <1>1, FormDoesNotSee
<1>4. ContactsTypeOK'
  BY <1>2, <1>3 DEF ContactsInv, ContactsTypeOK, Directory
<1>5. QED
  BY <1>2, <1>3, <1>4 DEF ContactsInv

LEMMA FindDuplicateOK ==
    ASSUME ContactsInv, NEW w \in ContactWorkers, FindDuplicate(w)
    PROVE  ContactsInv'
<1> PICK g \in ContactCalls : g = working[w]
  BY DEF ContactsInv, ContactsTypeOK
<1>1. g.step = "find-duplicate" /\ UNCHANGED <<Directory, Browser>>
  BY DEF FindDuplicate
<1>2. CASE SimilarContacts(w) = {} /\ working' = [working EXCEPT ![w].step = "insert"]
  <2> PICK h : h = [g EXCEPT !.step = "insert"]
    OBVIOUS
  <2>1. h = [step |-> "insert", contact |-> g.contact, marks |-> g.marks,
             category |-> g.category, heard |-> g.heard, forced |-> g.forced,
             stale |-> g.stale]
    BY CallEdits DEF ReadingSteps
  <2>2. /\ h \in ContactCalls /\ h.step = "insert" /\ h.category = g.category
        /\ h.stale = g.stale /\ h.heard = g.heard /\ h.marks = g.marks
    BY <2>1 DEF ContactCalls, ReadingSteps
  <2>3. Knows(g, contacts, categoryState)
    BY DEF ContactsInv, DirectoryInv, HandlersKnow
  <2>4. \A c \in ContactIds : contacts[c].state = "active" =>
           ~ Similar(contacts[c].marks, h.marks)
    BY <1>2, <2>2 DEF SimilarContacts, IsActive
  <2>5. Knows(h, contacts, categoryState)
    BY <1>1, <2>2, <2>3, <2>4 DEF Knows, ReadingSteps, AnsweredSteps
  <2>6. working' = [working EXCEPT ![w] = h]
    BY <1>2
  <2>7. QED
    BY <1>1, <2>2, <2>5, <2>6, HandlerGoesOnOK DEF AnsweredSteps
<1>3. ASSUME NEW c \in SimilarContacts(w),
             working' = [working EXCEPT ![w] = Answer(w, "possible-duplicate", c)]
      PROVE  ContactsInv'
  <2> PICK h : h = Answer(w, "possible-duplicate", c)
    OBVIOUS
  <2>1. c \in ContactIds /\ "possible-duplicate" \in AnsweredSteps
    BY <1>3 DEF SimilarContacts, AnsweredSteps
  <2>2. /\ h \in ContactCalls /\ h.heard = g.heard
        /\ IF h.heard THEN h.step = "possible-duplicate" ELSE h = Idle
        /\ Knows(h, contacts, categoryState)
    BY <2>1, AnswerFacts DEF ContactsInv
  <2>3. h.step # "photo" /\ (h.step \in AnsweredSteps => h.heard)
    BY <2>2, IdleIsACall DEF AnsweredSteps
  <2>4. QED
    BY <1>1, <1>3, <2>2, <2>3, HandlerGoesOnOK
<1>4. QED
  BY <1>2, <1>3 DEF FindDuplicate

\* A handler writes the directory and ends, with an answer or not.
LEMMA DirectoryWriteOK ==
    ASSUME ContactsInv, NEW w \in ContactWorkers, NEW h \in ContactCalls,
           working' = [Written({w}) EXCEPT ![w] = h], UNCHANGED Browser,
           Knows(h, contacts', categoryState'),
           working[w].step # "photo", h.step # "photo",
           h.heard => working[w].heard, h.step \in AnsweredSteps => h.heard,
           contacts' \in [ContactIds -> ContactRows],
           categoryState' \in [CategoryNames -> {"absent", "active", "inactive"}],
           ContactsHaveACategory', ContactsAreSought'
    PROVE  ContactsInv'
<1>1. /\ HandlersKnow'
      /\ working' \in [ContactWorkers -> ContactCalls]
      /\ working'[w] = h
      /\ \A v \in ContactWorkers \ {w} :
            /\ working'[v].step = working[v].step
            /\ working'[v].heard = working[v].heard
            /\ working'[v].contact = working[v].contact
  BY AfterAWrite DEF ContactsInv, DirectoryInv
<1>2. FormInv' /\ contactForm' \in Forms
  BY <1>1, FormDoesNotSee
<1>3. QED
  BY <1>1, <1>2 DEF ContactsInv, DirectoryInv, ContactsTypeOK

LEMMA InsertContactOK ==
    ASSUME ContactsInv, NEW w \in ContactWorkers, NEW c \in ContactIds, InsertContact(w, c)
    PROVE  ContactsInv'
<1> USE DEF ContactsInv, DirectoryInv, ContactsTypeOK
<1> PICK g \in ContactCalls : g = working[w]
  OBVIOUS
<1> PICK h : h = Answer(w, "created", c)
  OBVIOUS
<1> PICK row : row = [state |-> "active", marks |-> g.marks, category |-> g.category]
  OBVIOUS
<1>1. /\ g.step = "insert"
      /\ contacts[c].state = "absent"
      /\ contacts' = [contacts EXCEPT ![c] = row]
      /\ unsought' = unsought \cup {d \in {c} : g.forced \/ "similar" \in g.stale}
      /\ unchecked' = unchecked \cup {d \in {c} : "category" \in g.stale}
      /\ working' = [Written({w}) EXCEPT ![w] = h]
      /\ UNCHANGED <<categoryState, Browser>>
  BY DEF InsertContact, IsNextContact, IsThere
<1>2. Knows(g, contacts, categoryState)
  BY DEF HandlersKnow
<1>3. g.category \in CategoryNames
  BY <1>1, <1>2 DEF Knows, ReadingSteps
<1>4. /\ row \in ContactRows /\ row.state = "active" /\ row.marks = g.marks
      /\ row.category = g.category
  BY <1>3 DEF ContactRows, ContactCalls
<1>5. /\ contacts' \in [ContactIds -> ContactRows]
      /\ contacts'[c] = row
      /\ \A d \in ContactIds \ {c} : contacts'[d] = contacts[d]
  BY <1>1, <1>4
<1>6. ContactsHaveACategory'
  BY <1>3, <1>4, <1>5 DEF ContactsHaveACategory
<1>7. /\ c \notin unsought' => ~ g.forced /\ "similar" \notin g.stale
      /\ c \notin unchecked' => "category" \notin g.stale
      /\ unsought \subseteq unsought' /\ unchecked \subseteq unchecked'
  BY <1>1
<1>8. ContactsAreSought'
  <2>1. \A d \in ContactIds \ {c} : c \notin unsought' /\ contacts[d].state = "active" =>
           ~ Similar(contacts[d].marks, g.marks) /\ ~ Similar(g.marks, contacts[d].marks)
    BY <1>1, <1>2, <1>7 DEF Knows, Similar
  <2>2. c \notin unchecked' => categoryState[g.category] = "active"
    BY <1>1, <1>2, <1>3, <1>7, ContactsAssumption DEF Knows
  <2>3. QED
    BY <1>1, <1>4, <1>5, <1>7, <2>1, <2>2 DEF ContactsAreSought, IsActive
<1>9. "created" \in AnsweredSteps
  BY DEF AnsweredSteps
<1>10. /\ h \in ContactCalls /\ h.heard = g.heard
       /\ IF h.heard THEN h.step = "created" ELSE h = Idle
       /\ Knows(h, contacts', categoryState')
  BY <1>9, AnswerFacts
<1>11. h.step # "photo" /\ (h.step \in AnsweredSteps => h.heard)
  BY <1>10, IdleIsACall DEF AnsweredSteps
<1> HIDE DEF ContactsInv, DirectoryInv, ContactsTypeOK
<1>12. categoryState' \in [CategoryNames -> {"absent", "active", "inactive"}]
  BY <1>1 DEF ContactsInv, ContactsTypeOK
<1>13. QED
  BY <1>1, <1>5, <1>6, <1>8, <1>10, <1>11, <1>12, DirectoryWriteOK

LEMMA StartUpdateOK ==
    ASSUME ContactsInv, NEW w \in ContactWorkers, NEW c \in ContactIds,
           NEW k \in CategoryNames \cup {NoName}, StartUpdate(w, c, k)
    PROVE  ContactsInv'
<1>0. PICK call : call = [Idle EXCEPT !.contact = c, !.category = k]
  OBVIOUS
<1>1. /\ call \in ContactCalls /\ call.stale = {} /\ call.contact = c
      /\ call.category = k /\ call.heard = FALSE
  <2> DEFINE mid == [Idle EXCEPT !.contact = c]
  <2>1. mid = [step |-> Idle.step, contact |-> c, marks |-> Idle.marks,
               category |-> Idle.category, heard |-> Idle.heard, forced |-> Idle.forced,
               stale |-> Idle.stale]
    BY IdleIsACall, CallEdits
  <2>2. call = [mid EXCEPT !.category = k]
    BY <1>0
  <2> HIDE DEF mid
  <2>3. call = [step |-> Idle.step, contact |-> c, marks |-> Idle.marks, category |-> k,
                heard |-> Idle.heard, forced |-> Idle.forced, stale |-> Idle.stale]
    BY <2>1, <2>2
  <2>4. QED
    BY <2>3, IdleIsACall DEF ContactCalls
<1>2. /\ k # NoName => categoryState[k] = "active"
      /\ StartStep(w, "update", call)
      /\ UNCHANGED Directory /\ UNCHANGED Browser
  BY <1>0 DEF StartUpdate
<1> PICK h : h = AtStep(call, "update")
  OBVIOUS
<1>3. /\ h \in ContactCalls /\ h.step = "update" /\ h.category = k /\ h.contact = c
      /\ h.stale = {} /\ h.heard = FALSE
  <2>1. "update" \in ReadingSteps \cup AnsweredSteps
    BY DEF ReadingSteps
  <2>2. h = [step |-> "update", contact |-> call.contact, marks |-> call.marks,
             category |-> call.category, heard |-> call.heard, forced |-> call.forced,
             stale |-> call.stale]
    BY <1>1, <2>1, CallEdits DEF AtStep
  <2>3. QED
    BY <1>1, <2>1, <2>2 DEF ContactCalls
<1>4. /\ DirectoryInv' /\ working' \in [ContactWorkers -> ContactCalls]
      /\ working[w] = Idle
      /\ working'[w].step = "update" /\ working'[w].heard = FALSE
      /\ \A v \in ContactWorkers \ {w} : working'[v] = working[v]
  <2>1. Knows(h, contacts, categoryState)
    BY <1>2, <1>3 DEF Knows, ReadingSteps, AnsweredSteps
  <2>2. QED
    BY <1>2, <1>3, <2>1, StartStepOK DEF ContactsInv
<1>5. FormInv' /\ contactForm' \in Forms
  BY <1>2, <1>4, FormDoesNotSee, IdleIsACall DEF AnsweredSteps
<1>6. ContactsTypeOK'
  BY <1>2, <1>4, <1>5 DEF ContactsInv, ContactsTypeOK, Directory
<1>7. QED
  BY <1>4, <1>5, <1>6 DEF ContactsInv

LEMMA StartCloseCategoryOK ==
    ASSUME ContactsInv, NEW w \in ContactWorkers, NEW k \in CategoryNames,
           StartCloseCategory(w, k)
    PROVE  ContactsInv'
<1> PICK call : call = [Idle EXCEPT !.category = k]
  OBVIOUS
<1> PICK h : h = AtStep(call, "close-category")
  OBVIOUS
<1>1. call \in ContactCalls /\ call.category = k /\ call.heard = FALSE
  BY NewCallToClose
<1>2. /\ StartStep(w, "close-category", call)
      /\ UNCHANGED Directory /\ UNCHANGED Browser
  BY DEF StartCloseCategory
<1>3. \A c \in ContactIds : contacts[c].state = "active" => contacts[c].category # k
  BY DEF StartCloseCategory, ContactsOf, IsActive
<1>4. /\ h \in ContactCalls /\ h.step = "close-category" /\ h.category = k
      /\ h.heard = FALSE
  <2>1. "close-category" \in ReadingSteps \cup AnsweredSteps
    BY DEF ReadingSteps
  <2>2. h = [step |-> "close-category", contact |-> call.contact, marks |-> call.marks,
             category |-> call.category, heard |-> call.heard, forced |-> call.forced,
             stale |-> call.stale]
    BY <1>1, <2>1, CallEdits DEF AtStep
  <2>3. QED
    BY <1>1, <2>1, <2>2 DEF ContactCalls
<1>5. /\ DirectoryInv' /\ working' \in [ContactWorkers -> ContactCalls]
      /\ working[w] = Idle
      /\ working'[w].step = "close-category" /\ working'[w].heard = FALSE
      /\ \A v \in ContactWorkers \ {w} : working'[v] = working[v]
  <2>1. Knows(h, contacts, categoryState)
    BY <1>3, <1>4 DEF Knows, ReadingSteps, AnsweredSteps
  <2>2. QED
    BY <1>2, <1>4, <2>1, StartStepOK DEF ContactsInv
<1>6. FormInv' /\ contactForm' \in Forms
  BY <1>2, <1>5, FormDoesNotSee, IdleIsACall DEF AnsweredSteps
<1>7. ContactsTypeOK'
  BY <1>2, <1>5, <1>6 DEF ContactsInv, ContactsTypeOK, Directory
<1>8. QED
  BY <1>5, <1>6, <1>7 DEF ContactsInv

LEMMA IdleKnows == \A rows, states : Knows(Idle, rows, states)
  BY IdleIsACall DEF Knows, ReadingSteps, AnsweredSteps

LEMMA UpdateContactOK ==
    ASSUME ContactsInv, NEW w \in ContactWorkers, NEW m \in SUBSET Marks, UpdateContact(w, m)
    PROVE  ContactsInv'
<1> USE DEF ContactsInv, DirectoryInv, ContactsTypeOK
<1> PICK g \in ContactCalls : g = working[w]
  OBVIOUS
<1> PICK c : c = g.contact
  OBVIOUS
<1>1. /\ g.step = "update"
      /\ unsought' = unsought \cup {d \in {c} : IsActive(d)}
      /\ unchecked' = unchecked \cup
            {d \in {c} : IsActive(d) /\ g.category # NoName /\ "category" \in g.stale}
      /\ working' = [Written({w}) EXCEPT ![w] = Idle]
      /\ UNCHANGED <<categoryState, Browser>>
  BY DEF UpdateContact
<1>2. Knows(g, contacts, categoryState)
  BY DEF HandlersKnow
<1>3. g.category \in CategoryNames \cup {NoName} /\ c \in ContactIds
  BY <1>1, <1>2 DEF Knows, ContactCalls
<1> PICK old \in ContactRows : old = contacts[c]
  BY <1>3
<1> PICK k : k = IF g.category = NoName THEN old.category ELSE g.category
  OBVIOUS
<1> PICK row : row = [state |-> old.state, marks |-> m, category |-> k]
  OBVIOUS
<1>4. row \in ContactRows /\ row.state = old.state /\ row.category = k
  BY <1>3 DEF ContactRows
<1>5. contacts' = [contacts EXCEPT ![c] = row]
  <2> DEFINE marked == [old EXCEPT !.marks = m]
  <2>1. contacts' = [[contacts EXCEPT ![c] = marked] EXCEPT
                        ![c].category = IF g.category = NoName THEN @ ELSE g.category]
    BY DEF UpdateContact
  <2>2. marked = [state |-> old.state, marks |-> m, category |-> old.category]
    BY DEF ContactRows
  <2> HIDE DEF marked
  <2>3. contacts' = [contacts EXCEPT ![c] = [marked EXCEPT !.category = k]]
    BY <1>3, <2>1, <2>2
  <2>4. [marked EXCEPT !.category = k] = row
    BY <2>2
  <2>5. QED
    BY <2>3, <2>4
<1>6. /\ contacts' \in [ContactIds -> ContactRows]
      /\ contacts'[c] = row
      /\ \A d \in ContactIds \ {c} : contacts'[d] = contacts[d]
  BY <1>3, <1>4, <1>5
<1>7. ContactsHaveACategory'
  BY <1>3, <1>4, <1>6 DEF ContactsHaveACategory
<1>8. ContactsAreSought'
  <2>1. /\ contacts[c].state = "active" => c \in unsought'
        /\ contacts[c].state = "active" /\ c \notin unchecked' => categoryState[k] = "active"
        /\ unsought \subseteq unsought' /\ unchecked \subseteq unchecked'
    BY <1>1, <1>2, <1>3 DEF Knows, IsActive, ContactsAreSought
  <2>2. QED
    BY <1>1, <1>4, <1>6, <2>1 DEF ContactsAreSought, IsActive
<1> HIDE DEF ContactsInv, DirectoryInv, ContactsTypeOK
<1>9. categoryState' \in [CategoryNames -> {"absent", "active", "inactive"}]
  BY <1>1 DEF ContactsInv, ContactsTypeOK
<1>10. QED
  BY <1>1, <1>6, <1>7, <1>8, <1>9, IdleIsACall, IdleKnows, DirectoryWriteOK DEF AnsweredSteps

LEMMA CloseCategoryOK ==
    ASSUME ContactsInv, NEW w \in ContactWorkers, CloseCategory(w)
    PROVE  ContactsInv'
<1> USE DEF ContactsInv, DirectoryInv, ContactsTypeOK
<1> PICK g \in ContactCalls : g = working[w]
  OBVIOUS
<1> PICK k : k = g.category
  OBVIOUS
<1>1. /\ g.step = "close-category"
      /\ categoryState' = [categoryState EXCEPT ![k] = "inactive"]
      /\ unchecked' = unchecked \cup {c \in ContactsOf(k) : "users" \in g.stale}
      /\ working' = [Written({w}) EXCEPT ![w] = Idle]
      /\ UNCHANGED <<contacts, unsought, Browser>>
  BY DEF CloseCategory
<1>2. Knows(g, contacts, categoryState)
  BY DEF HandlersKnow
<1>3. k \in CategoryNames
  BY <1>1, <1>2 DEF Knows, ReadingSteps
<1>4. \A c \in ContactIds : contacts[c].state = "active" /\ contacts[c].category = k =>
         c \in unchecked'
  BY <1>1, <1>2 DEF Knows, ContactsOf, IsActive
<1>5. /\ categoryState' \in [CategoryNames -> {"absent", "active", "inactive"}]
      /\ \A j \in CategoryNames \ {k} : categoryState'[j] = categoryState[j]
      /\ contacts' \in [ContactIds -> ContactRows]
  BY <1>1, <1>3
<1>6. ContactsHaveACategory'
  BY <1>1 DEF ContactsHaveACategory
<1>7. ContactsAreSought'
  <2>1. \A c \in ContactIds : contacts[c].state = "active" => contacts[c].category \in CategoryNames
    BY DEF ContactsHaveACategory
  <2>2. unchecked \subseteq unchecked'
    BY <1>1
  <2>3. QED
    BY <1>1, <1>4, <1>5, <2>1, <2>2 DEF ContactsAreSought, IsActive
<1> HIDE DEF ContactsInv, DirectoryInv, ContactsTypeOK
<1>8. QED
  BY <1>1, <1>5, <1>6, <1>7, IdleIsACall, IdleKnows, DirectoryWriteOK DEF AnsweredSteps

\* A row changes its state, and what the handlers know of the directory still holds.
LEMMA StateChangeOK ==
    ASSUME ContactsInv, NEW c \in ContactIds, contacts[c].state # "absent",
           NEW state \in {"active", "inactive"},
           contacts' = [contacts EXCEPT ![c].state = state], UNCHANGED <<categoryState, Browser>>,
           \/ /\ state = "inactive" /\ UNCHANGED working
              /\ unsought' = unsought \ {c} /\ unchecked' = unchecked \ {c}
           \/ /\ state = "active" /\ working' = Written({})
              /\ unsought' = unsought \cup {c} /\ unchecked' = unchecked \cup {c}
    PROVE  ContactsInv'
<1> USE DEF ContactsInv, DirectoryInv, ContactsTypeOK
<1> PICK old \in ContactRows : old = contacts[c]
  OBVIOUS
<1> PICK row : row = [state |-> state, marks |-> old.marks, category |-> old.category]
  OBVIOUS
<1>1. [old EXCEPT !.state = state] = row
  BY ContactEdits
<1>2. contacts' = [contacts EXCEPT ![c] = row]
  BY <1>1
<1>3. row \in ContactRows /\ row.state = state /\ row.category = old.category
      /\ row.marks = old.marks
  BY DEF ContactRows
<1>4. /\ contacts' \in [ContactIds -> ContactRows]
      /\ contacts'[c] = row
      /\ \A d \in ContactIds \ {c} : contacts'[d] = contacts[d]
  BY <1>2, <1>3
<1>5. ContactsHaveACategory'
  BY <1>3, <1>4 DEF ContactsHaveACategory
<1>6. ContactsAreSought'
  BY <1>3, <1>4 DEF ContactsAreSought, IsActive
<1>7. /\ HandlersKnow' /\ working' \in [ContactWorkers -> ContactCalls]
      /\ \A v \in ContactWorkers : /\ working'[v].step = working[v].step
                                   /\ working'[v].heard = working[v].heard
                                   /\ working'[v].contact = working[v].contact
  <2>1. CASE state = "inactive"
    <3>1. \A d \in ContactIds : contacts'[d].state = "active" =>
             contacts'[d] = contacts[d]
      BY <1>3, <1>4, <2>1
    <3>2. UNCHANGED working
      BY <2>1
    <3>3. HandlersKnow'
      <4> SUFFICES ASSUME NEW v \in ContactWorkers
                   PROVE  Knows(working'[v], contacts', categoryState')
        BY DEF HandlersKnow
      <4> PICK g \in ContactCalls : g = working[v]
        OBVIOUS
      <4>1. Knows(g, contacts, categoryState)
        BY DEF HandlersKnow
      <4>2. Knows(g, contacts', categoryState')
        BY <3>1, <4>1 DEF Knows
      <4>3. QED
        BY <3>2, <4>2
    <3>4. QED
      BY <3>2, <3>3
  <2>2. CASE state = "active"
    BY <2>2, AfterAWriteOfNone
  <2>3. QED
    BY <2>1, <2>2
<1>8. UNCHANGED <<contactForm, picked, left>>
  BY DEF Browser
<1>9. FormInv'
  BY <1>7, <1>8
  DEF FormInv, AnswersAreHeard, ClosedFormsHearNothing, PhotosAreOfSavedContacts,
      SavedContactsAreTold, ToldContactsArePending, SavedContactIsPicked
<1>10. QED
  BY <1>4, <1>5, <1>6, <1>7, <1>8, <1>9

LEMMA CreateCategoryOK ==
    ASSUME ContactsInv, NEW k \in CategoryNames, CreateCategory(k)
    PROVE  ContactsInv'
<1> USE DEF ContactsInv, DirectoryInv, ContactsTypeOK
<1>1. /\ categoryState' = [categoryState EXCEPT ![k] = "active"]
      /\ UNCHANGED <<contacts, unsought, unchecked, working, contactForm, picked, left>>
  BY DEF CreateCategory, Browser
<1>2. \A j \in CategoryNames : categoryState[j] = "active" => categoryState'[j] = "active"
  BY <1>1
<1>3. HandlersKnow'
  BY <1>1, <1>2 DEF HandlersKnow, Knows, ReadingSteps
<1>4. ContactsHaveACategory'
  BY <1>1 DEF ContactsHaveACategory
<1>5. ContactsAreSought'
  BY <1>1, <1>2 DEF ContactsAreSought, ContactsHaveACategory, IsActive
<1>6. FormInv'
  BY <1>1
  DEF FormInv, AnswersAreHeard, ClosedFormsHearNothing, PhotosAreOfSavedContacts,
      SavedContactsAreTold, ToldContactsArePending, SavedContactIsPicked
<1>7. QED
  BY <1>1, <1>3, <1>4, <1>5, <1>6

LEMMA ContactHandlerDiesOK ==
    ASSUME ContactsInv, NEW w \in ContactWorkers, ContactHandlerDies(w)
    PROVE  ContactsInv'
<1>1. working[w].step # "photo"
  BY DEF ContactHandlerDies, ContactsInv, FormInv, AnswersAreHeard, AnsweredSteps
<1>2. QED
  BY <1>1, IdleIsACall, IdleKnows, HandlerGoesOnOK DEF ContactHandlerDies, AnsweredSteps

LEMMA DirectoryStepOK == ContactsInv /\ DirectoryNext => ContactsInv'
<1> SUFFICES ASSUME ContactsInv, DirectoryNext PROVE ContactsInv'
  OBVIOUS
<1>1. ASSUME NEW c \in ContactIds, Deactivate(c) \/ Reactivate(c) PROVE ContactsInv'
  BY <1>1, StateChangeOK DEF Deactivate, Reactivate, IsThere
<1>2. ASSUME NEW k \in CategoryNames, CreateCategory(k) PROVE ContactsInv'
  BY <1>2, CreateCategoryOK
<1>3. ASSUME NEW w \in ContactWorkers, NEW k \in CategoryNames, NEW m \in SUBSET Marks,
             NEW forced \in BOOLEAN, CreateElsewhere(w, m, k, forced)
      PROVE  ContactsInv'
  BY <1>3, CreateElsewhereOK
<1>4. ASSUME NEW w \in ContactWorkers, NEW c \in ContactIds,
             NEW k \in CategoryNames \cup {NoName}, StartUpdate(w, c, k)
      PROVE  ContactsInv'
  BY <1>4, StartUpdateOK
<1>5. ASSUME NEW w \in ContactWorkers, NEW k \in CategoryNames, StartCloseCategory(w, k)
      PROVE  ContactsInv'
  BY <1>5, StartCloseCategoryOK
<1>6. ASSUME NEW w \in ContactWorkers, FindDuplicate(w) PROVE ContactsInv'
  BY <1>6, FindDuplicateOK
<1>7. ASSUME NEW w \in ContactWorkers, NEW c \in ContactIds, InsertContact(w, c)
      PROVE  ContactsInv'
  BY <1>7, InsertContactOK
<1>8. ASSUME NEW w \in ContactWorkers, NEW m \in SUBSET Marks, UpdateContact(w, m)
      PROVE  ContactsInv'
  BY <1>8, UpdateContactOK
<1>9. ASSUME NEW w \in ContactWorkers, CloseCategory(w) PROVE ContactsInv'
  BY <1>9, CloseCategoryOK
<1>10. ASSUME NEW w \in ContactWorkers, ContactHandlerDies(w) PROVE ContactsInv'
  BY <1>10, ContactHandlerDiesOK
<1>11. QED
  BY <1>1, <1>2, <1>3, <1>4, <1>5, <1>6, <1>7, <1>8, <1>9, <1>10 DEF DirectoryNext
\* What one field of the form, changed, leaves of it.
LEMMA FormEdits ==
    ASSUME NEW f \in Forms
    PROVE  /\ \A b \in BOOLEAN :
                 [f EXCEPT !.shown = b] =
                    [shown |-> b, duplicate |-> f.duplicate, saved |-> f.saved,
                     held |-> f.held, told |-> f.told]
           /\ \A d \in ContactIds \cup {NoContact} :
                 [f EXCEPT !.duplicate = d] =
                    [shown |-> f.shown, duplicate |-> d, saved |-> f.saved,
                     held |-> f.held, told |-> f.told]
           /\ \A c \in ContactIds \cup {NoContact} :
                 [f EXCEPT !.saved = c] =
                    [shown |-> f.shown, duplicate |-> f.duplicate, saved |-> c,
                     held |-> f.held, told |-> f.told]
           /\ \A s \in SUBSET {"saving", "resolving", "retrying"} :
                 [f EXCEPT !.held = s] =
                    [shown |-> f.shown, duplicate |-> f.duplicate, saved |-> f.saved,
                     held |-> s, told |-> f.told]
           /\ \A s \in SUBSET ContactIds :
                 [f EXCEPT !.told = s] =
                    [shown |-> f.shown, duplicate |-> f.duplicate, saved |-> f.saved,
                     held |-> f.held, told |-> s]
  BY DEF Forms

LEMMA NewFormFacts ==
    /\ NewForm \in Forms
    /\ NewForm.shown = TRUE /\ NewForm.told = {} /\ NewForm.saved = NoContact
    /\ NewForm.duplicate = NoContact /\ NewForm.held = {}
  BY DEF NewForm, Forms

\* The form as it is once it has closed.
LEMMA HideFacts ==
    ASSUME NEW f, NEW calls, f.told \in SUBSET ContactIds, Hide(f, calls)
    PROVE  /\ contactForm' \in Forms
           /\ contactForm'.shown = FALSE /\ contactForm'.told = f.told
           /\ contactForm'.saved = NoContact
           /\ left' = (left \/ calls # {})
<1> PICK told \in SUBSET ContactIds : told = f.told
  OBVIOUS
<1> DEFINE mid == [NewForm EXCEPT !.shown = FALSE]
<1>1. mid = [shown |-> FALSE, duplicate |-> NewForm.duplicate, saved |-> NewForm.saved,
             held |-> NewForm.held, told |-> NewForm.told]
  BY NewFormFacts, FormEdits
<1>2. contactForm' = [mid EXCEPT !.told = told] /\ left' = (left \/ calls # {})
  BY DEF Hide
<1> HIDE DEF mid
<1>3. contactForm' = [shown |-> FALSE, duplicate |-> NewForm.duplicate,
                      saved |-> NewForm.saved, held |-> NewForm.held, told |-> told]
  BY <1>1, <1>2
<1>4. /\ contactForm' \in Forms
      /\ contactForm'.shown = FALSE /\ contactForm'.told = told
      /\ contactForm'.saved = NewForm.saved
  BY <1>3, NewFormFacts DEF Forms
<1>5. QED
  BY <1>2, <1>4, NewFormFacts

LEMMA SavedAndClosedFacts ==
    ASSUME contactForm \in Forms, NEW c \in ContactIds, NEW calls, SavedAndClosed(c, calls)
    PROVE  /\ contactForm' \in Forms
           /\ contactForm'.shown = FALSE /\ contactForm'.told = contactForm.told \cup {c}
           /\ contactForm'.saved = NoContact
           /\ left' = (left \/ calls # {}) /\ picked' = c
<1> PICK told \in SUBSET ContactIds : told = contactForm.told \cup {c}
  BY DEF Forms
<1>1. PICK f : f = [contactForm EXCEPT !.told = contactForm.told \cup {c}]
  OBVIOUS
<1>2. Hide(f, calls) /\ picked' = c
  BY <1>1 DEF SavedAndClosed
<1>3. f = [shown |-> contactForm.shown, duplicate |-> contactForm.duplicate,
           saved |-> contactForm.saved, held |-> contactForm.held, told |-> told]
  BY <1>1, FormEdits
<1>4. f.told = told
  BY <1>3
<1>5. QED
  BY <1>2, <1>4, HideFacts

\* The directory does not change, and no handler moves.
LEMMA FormChangesOK ==
    ASSUME ContactsInv, UNCHANGED <<Directory, working>>, contactForm' \in Forms, FormInv'
    PROVE  ContactsInv'
<1>1. UNCHANGED <<contacts, categoryState, unsought, unchecked, working>>
  BY DEF Directory
<1>2. ContactsTypeOK' /\ DirectoryInv'
  BY <1>1
  DEF ContactsInv, ContactsTypeOK, DirectoryInv, ContactsHaveACategory, HandlersKnow,
      Knows, ContactsAreSought, IsActive
<1>3. QED
  BY <1>2 DEF ContactsInv

\* Without a call that the form waits for, nothing is on its way.
LEMMA NothingHeardNoPhoto ==
    ASSUME FormInv, NEW w \in ContactWorkers, working[w].step = "photo"
    PROVE  working[w].heard
  BY DEF FormInv, AnswersAreHeard, AnsweredSteps

LEMMA OpenContactFormOK ==
    ASSUME ContactsInv, ~ left, OpenContactForm
    PROVE  ContactsInv'
<1>1. /\ contactForm.shown = FALSE /\ contactForm' = NewForm
      /\ UNCHANGED <<Directory, working, left>> /\ UNCHANGED working /\ UNCHANGED left
  BY DEF OpenContactForm, ContactsInv, ContactsTypeOK, Forms
<1>2. FormInv
  BY DEF ContactsInv
<1>3. \A w \in ContactWorkers : ~ working[w].heard /\ working[w].step # "photo"
  BY <1>1, <1>2, NothingHeardNoPhoto DEF FormInv, ClosedFormsHearNothing
<1>4. AnswersAreHeard'
  BY <1>1, <1>2 DEF FormInv, AnswersAreHeard
<1>5. contactForm' \in Forms /\ contactForm'.shown = TRUE /\ contactForm'.told = {}
         /\ contactForm'.saved = NoContact
  BY <1>1, NewFormFacts
<1>6. FormInv'
  BY <1>1, <1>3, <1>4, <1>5
  DEF FormInv, ClosedFormsHearNothing, PhotosAreOfSavedContacts, SavedContactsAreTold,
      ToldContactsArePending, SavedContactIsPicked
<1>7. QED
  BY <1>1, <1>5, <1>6, FormChangesOK

LEMMA RequestCloseOK ==
    ASSUME ContactsInv, ~ left, RequestClose
    PROVE  ContactsInv'
<1>1. FormInv /\ contactForm \in Forms
  BY DEF ContactsInv, ContactsTypeOK
<1>2. contactForm.shown /\ UNCHANGED <<Directory, working>> /\ UNCHANGED working
  BY DEF RequestClose
<1>3. AnswersAreHeard'
  BY <1>1, <1>2 DEF FormInv, AnswersAreHeard
<1>4. /\ contactForm' \in Forms
      /\ contactForm'.shown = FALSE /\ contactForm'.saved = NoContact
      /\ left' = (left \/ HeardCalls # {})
      /\ \/ picked' \in contactForm'.told
         \/ contactForm'.told = contactForm.told /\ contactForm.saved = NoContact
  <2>1. CASE contactForm.saved # NoContact
    <3>1. contactForm.saved \in ContactIds
      BY <1>1, <2>1 DEF Forms
    <3>2. SavedAndClosed(contactForm.saved, HeardCalls)
      BY <2>1 DEF RequestClose
    <3>3. QED
      BY <1>1, <3>1, <3>2, SavedAndClosedFacts
  <2>2. CASE contactForm.saved = NoContact
    <3>1. Hide(contactForm, HeardCalls)
      BY <2>2 DEF RequestClose
    <3>2. contactForm.told \in SUBSET ContactIds
      BY <1>1 DEF Forms
    <3>3. QED
      BY <2>2, <3>1, <3>2, HideFacts
  <2>3. QED
    BY <2>1, <2>2
<1>5. ~ left' => \A w \in ContactWorkers : ~ working[w].heard /\ working[w].step # "photo"
  BY <1>1, <1>4, NothingHeardNoPhoto DEF HeardCalls
<1>6. ~ left' /\ contactForm'.told # {} => picked' \in contactForm'.told
  BY <1>1, <1>2, <1>4, <1>5 DEF FormInv, ToldContactsArePending
<1>7. FormInv'
  BY <1>2, <1>3, <1>4, <1>5, <1>6
  DEF FormInv, ClosedFormsHearNothing, PhotosAreOfSavedContacts, SavedContactsAreTold,
      ToldContactsArePending, SavedContactIsPicked
<1>8. QED
  BY <1>2, <1>4, <1>7, FormChangesOK

\* A step in an open form that moves no photo and tells of no contact.
LEMMA ShownFormStepOK ==
    ASSUME FormInv, ~ left, contactForm.shown, UNCHANGED <<picked, left>>,
           contactForm'.shown, contactForm'.told = contactForm.told,
           contactForm'.saved = contactForm.saved,
           \A v \in ContactWorkers :
              /\ working'[v].step = "photo" <=> working[v].step = "photo"
              /\ working'[v].step = "photo" => working'[v].contact = working[v].contact
              /\ working'[v].step \in AnsweredSteps => working'[v].heard
    PROVE  FormInv'
  BY DEF FormInv, AnswersAreHeard, ClosedFormsHearNothing, PhotosAreOfSavedContacts,
      SavedContactsAreTold, ToldContactsArePending, SavedContactIsPicked

LEMMA CancelDuplicateOK ==
    ASSUME ContactsInv, ~ left, CancelDuplicate
    PROVE  ContactsInv'
<1>1. FormInv /\ contactForm \in Forms
  BY DEF ContactsInv, ContactsTypeOK
<1>2. /\ contactForm' = [contactForm EXCEPT !.duplicate = NoContact]
      /\ contactForm.shown
      /\ UNCHANGED <<Directory, working>> /\ UNCHANGED working /\ UNCHANGED <<picked, left>>
  BY DEF CancelDuplicate, Panel
<1>3. contactForm' = [shown |-> contactForm.shown, duplicate |-> NoContact,
                      saved |-> contactForm.saved, held |-> contactForm.held,
                      told |-> contactForm.told]
  BY <1>1, <1>2, FormEdits
<1>4. /\ contactForm' \in Forms /\ contactForm'.shown = contactForm.shown
      /\ contactForm'.told = contactForm.told /\ contactForm'.saved = contactForm.saved
  BY <1>1, <1>3 DEF Forms
<1>5. \A v \in ContactWorkers : working[v].step \in AnsweredSteps => working[v].heard
  BY <1>1 DEF FormInv, AnswersAreHeard
<1>6. FormInv'
  BY <1>1, <1>2, <1>4, <1>5, ShownFormStepOK
<1>7. QED
  BY <1>2, <1>4, <1>6, FormChangesOK

\* The form after a button was pressed, or let go.
LEMMA HeldFacts ==
    ASSUME contactForm \in Forms, NEW s \in SUBSET {"saving", "resolving", "retrying"},
           NEW f, f = [contactForm EXCEPT !.held = s]
    PROVE  /\ f \in Forms /\ f.shown = contactForm.shown /\ f.told = contactForm.told
           /\ f.saved = contactForm.saved /\ f.duplicate = contactForm.duplicate
<1>1. f = [shown |-> contactForm.shown, duplicate |-> contactForm.duplicate,
           saved |-> contactForm.saved, held |-> s, told |-> contactForm.told]
  BY FormEdits
<1>2. QED
  BY <1>1 DEF Forms

LEMMA PressFacts ==
    ASSUME contactForm \in Forms, NEW panel \in {"fields", "duplicate", "photo"},
           NEW button \in {"saving", "resolving", "retrying"}, Press(panel, button)
    PROVE  /\ contactForm' \in Forms /\ contactForm.shown
           /\ contactForm'.shown /\ contactForm'.told = contactForm.told
           /\ contactForm'.saved = contactForm.saved
           /\ UNCHANGED <<picked, left>>
           /\ panel = "duplicate" => contactForm.duplicate # NoContact
           /\ panel = "photo" => contactForm.saved # NoContact
<1> PICK s \in SUBSET {"saving", "resolving", "retrying"} :
       s = contactForm.held \cup {button}
  BY DEF Forms
<1>1. /\ Panel = panel /\ UNCHANGED <<picked, left>>
      /\ contactForm' = [contactForm EXCEPT !.held = s]
  BY DEF Press
<1>2. /\ contactForm.shown
      /\ panel = "duplicate" => contactForm.duplicate # NoContact
      /\ panel = "photo" => contactForm.saved # NoContact
  BY <1>1 DEF Panel
<1>3. contactForm' = [shown |-> contactForm.shown, duplicate |-> contactForm.duplicate,
                      saved |-> contactForm.saved, held |-> s, told |-> contactForm.told]
  BY <1>1, FormEdits
<1>4. /\ contactForm' \in Forms /\ contactForm'.shown = contactForm.shown
      /\ contactForm'.told = contactForm.told /\ contactForm'.saved = contactForm.saved
  BY <1>3 DEF Forms
<1>5. QED
  BY <1>1, <1>2, <1>4

\* A button is pressed, and a handler that the form waits for begins.
LEMMA PressedOK ==
    ASSUME ContactsInv, ~ left, NEW w \in ContactWorkers,
           NEW panel \in {"fields", "duplicate", "photo"},
           NEW button \in {"saving", "resolving", "retrying"}, Press(panel, button),
           UNCHANGED Directory,
           DirectoryInv', working' \in [ContactWorkers -> ContactCalls], working[w] = Idle,
           working'[w].step # "photo", working'[w].heard = TRUE,
           \A v \in ContactWorkers \ {w} : working'[v] = working[v]
    PROVE  ContactsInv'
<1>1. FormInv /\ contactForm \in Forms
  BY DEF ContactsInv, ContactsTypeOK
<1>2. /\ contactForm' \in Forms /\ contactForm.shown
      /\ contactForm'.shown /\ contactForm'.told = contactForm.told
      /\ contactForm'.saved = contactForm.saved
      /\ UNCHANGED <<picked, left>>
  BY <1>1, PressFacts
<1>3. \A v \in ContactWorkers :
         /\ working'[v].step = "photo" <=> working[v].step = "photo"
         /\ working'[v].step = "photo" => working'[v].contact = working[v].contact
         /\ working'[v].step \in AnsweredSteps => working'[v].heard
  BY <1>1, IdleIsACall DEF FormInv, AnswersAreHeard
<1>4. FormInv'
  BY <1>1, <1>2, <1>3, ShownFormStepOK
<1>5. ContactsTypeOK'
  BY <1>2 DEF ContactsInv, ContactsTypeOK, Directory
<1>6. QED
  BY <1>4, <1>5 DEF ContactsInv

LEMMA HandleSubmitOK ==
    ASSUME ContactsInv, ~ left, NEW w \in ContactWorkers, NEW m \in SUBSET Marks,
           NEW k \in CategoryNames, HandleSubmit(w, m, k)
    PROVE  ContactsInv'
<1> PICK call : call = [Idle EXCEPT !.marks = m, !.heard = TRUE]
  OBVIOUS
<1>1. call \in ContactCalls /\ call.stale = {} /\ call.heard = TRUE
  BY NewHeardCall
<1>2. StartCreateContact(w, k, call) /\ Press("fields", "saving") /\ UNCHANGED Directory
  BY DEF HandleSubmit, StartCreateContact
<1>3. /\ DirectoryInv' /\ working' \in [ContactWorkers -> ContactCalls]
      /\ working[w] = Idle
      /\ working'[w].step \in ReadingSteps /\ working'[w].heard = TRUE
      /\ \A v \in ContactWorkers \ {w} : working'[v] = working[v]
  BY <1>1, <1>2, StartCreateContactOK DEF ContactsInv
<1>4. QED
  BY <1>2, <1>3, PressedOK DEF ReadingSteps

LEMMA HandleForceCreateOK ==
    ASSUME ContactsInv, ~ left, NEW w \in ContactWorkers, NEW m \in SUBSET Marks,
           NEW k \in CategoryNames, HandleForceCreate(w, m, k)
    PROVE  ContactsInv'
<1> PICK call : call = [Idle EXCEPT !.marks = m, !.heard = TRUE, !.forced = TRUE]
  OBVIOUS
<1>1. call \in ContactCalls /\ call.stale = {} /\ call.heard = TRUE
  BY NewForcedCall
<1>2. StartCreateContact(w, k, call) /\ Press("duplicate", "resolving") /\ UNCHANGED Directory
  BY DEF HandleForceCreate, StartCreateContact
<1>3. /\ DirectoryInv' /\ working' \in [ContactWorkers -> ContactCalls]
      /\ working[w] = Idle
      /\ working'[w].step \in ReadingSteps /\ working'[w].heard = TRUE
      /\ \A v \in ContactWorkers \ {w} : working'[v] = working[v]
  BY <1>1, <1>2, StartCreateContactOK DEF ContactsInv
<1>4. QED
  BY <1>2, <1>3, PressedOK DEF ReadingSteps

\* A call about a contact that the form has before it.
CallFor(c) == [Idle EXCEPT !.contact = c, !.heard = TRUE]

LEMMA StartCallForOK ==
    ASSUME ContactsInv, ~ left, NEW w \in ContactWorkers, NEW c \in ContactIds,
           NEW step \in {"got", "photo-again"}, StartStep(w, step, CallFor(c)),
           NEW panel \in {"fields", "duplicate", "photo"},
           NEW button \in {"saving", "resolving", "retrying"}, Press(panel, button),
           UNCHANGED Directory
    PROVE  ContactsInv'
<1>0. PICK call : call = CallFor(c)
  OBVIOUS
<1>1. /\ call \in ContactCalls /\ call.contact = c /\ call.heard = TRUE
  <2> DEFINE mid == [Idle EXCEPT !.contact = c]
  <2>1. mid = [step |-> Idle.step, contact |-> c, marks |-> Idle.marks,
               category |-> Idle.category, heard |-> Idle.heard, forced |-> Idle.forced,
               stale |-> Idle.stale]
    BY IdleIsACall, CallEdits
  <2>2. call = [mid EXCEPT !.heard = TRUE]
    BY <1>0 DEF CallFor
  <2> HIDE DEF mid
  <2>3. call = [step |-> Idle.step, contact |-> c, marks |-> Idle.marks,
                category |-> Idle.category, heard |-> TRUE, forced |-> Idle.forced,
                stale |-> Idle.stale]
    BY <2>1, <2>2
  <2>4. QED
    BY <2>3, IdleIsACall DEF ContactCalls
<1>2. PICK h : h = AtStep(call, step)
  OBVIOUS
<1>3. step \in ReadingSteps \cup AnsweredSteps
  BY DEF AnsweredSteps
<1>4. h \in ContactCalls /\ h.step = step /\ h.contact = c /\ h.heard = TRUE
  <2>1. h = [step |-> step, contact |-> call.contact, marks |-> call.marks,
             category |-> call.category, heard |-> call.heard, forced |-> call.forced,
             stale |-> call.stale]
    BY <1>1, <1>2, <1>3, CallEdits DEF AtStep
  <2>2. QED
    BY <1>1, <1>3, <2>1 DEF ContactCalls
<1>5. Knows(h, contacts, categoryState)
  BY <1>4 DEF Knows, ReadingSteps, AnsweredSteps
<1>6. /\ DirectoryInv' /\ working' \in [ContactWorkers -> ContactCalls]
      /\ working[w] = Idle
      /\ working'[w] = h
      /\ \A v \in ContactWorkers \ {w} : working'[v] = working[v]
  BY <1>0, <1>2, <1>4, <1>5, StartStepOK DEF ContactsInv
<1>7. QED
  BY <1>4, <1>6, PressedOK

LEMMA HandleUseDuplicateOK ==
    ASSUME ContactsInv, ~ left, NEW w \in ContactWorkers, HandleUseDuplicate(w)
    PROVE  ContactsInv'
<1> PICK c : c = contactForm.duplicate
  OBVIOUS
<1>1. /\ Press("duplicate", "resolving") /\ UNCHANGED Directory
      /\ StartStep(w, "got", CallFor(c))
  BY DEF HandleUseDuplicate, CallFor
<1>2. contactForm \in Forms
  BY DEF ContactsInv, ContactsTypeOK
<1>3. c \in ContactIds
  BY <1>1, <1>2 DEF Press, Panel, Forms
<1>4. QED
  BY <1>1, <1>3, StartCallForOK

LEMMA HandleRetryPhotoOK ==
    ASSUME ContactsInv, ~ left, NEW w \in ContactWorkers, HandleRetryPhoto(w)
    PROVE  ContactsInv'
<1> PICK c : c = contactForm.saved
  OBVIOUS
<1>1. /\ Press("photo", "retrying") /\ UNCHANGED Directory
      /\ StartStep(w, "photo-again", CallFor(c))
  BY DEF HandleRetryPhoto, CallFor
<1>2. contactForm \in Forms
  BY DEF ContactsInv, ContactsTypeOK
<1>3. c \in ContactIds
  BY <1>1, <1>2 DEF Press, Panel, Forms
<1>4. QED
  BY <1>1, <1>3, StartCallForOK

\* What is known of a handler whose answer the form hears.
LEMMA HeardHandler ==
    ASSUME ContactsInv, ~ left, NEW w \in ContactWorkers, NEW g, g = working[w],
           g.heard \/ g.step \in AnsweredSteps
    PROVE  /\ g \in ContactCalls /\ g.heard
           /\ g.step \in AnsweredSteps => g.contact \in ContactIds
           /\ Knows(g, contacts, categoryState)
           /\ contactForm \in Forms /\ contactForm.shown
           /\ g.step = "photo" => g.contact \in contactForm.told
<1>1. working[w] \in ContactCalls /\ contactForm \in Forms
  BY DEF ContactsInv, ContactsTypeOK
<1>2. Knows(g, contacts, categoryState)
  BY DEF ContactsInv, DirectoryInv, HandlersKnow
<1>3. g.step \in AnsweredSteps => g.contact \in ContactIds
  BY <1>2 DEF Knows
<1>4. g.heard
  BY DEF ContactsInv, FormInv, AnswersAreHeard
<1>5. contactForm.shown
  BY <1>4 DEF ContactsInv, FormInv, ClosedFormsHearNothing
<1>6. g.step = "photo" => g.contact \in contactForm.told
  BY DEF ContactsInv, FormInv, PhotosAreOfSavedContacts
<1>7. QED
  BY <1>1, <1>2, <1>3, <1>4, <1>5, <1>6

LEMMA ReleasedFacts ==
    ASSUME contactForm \in Forms, NEW w, NEW f, f = Released(w)
    PROVE  /\ f \in Forms /\ f.shown = contactForm.shown /\ f.told = contactForm.told
           /\ f.saved = contactForm.saved /\ f.duplicate = contactForm.duplicate
<1> PICK s \in SUBSET {"saving", "resolving", "retrying"} :
       s = contactForm.held \ {ButtonOf(w)}
  BY DEF Forms
<1>1. f = [contactForm EXCEPT !.held = s]
  BY DEF Released
<1>2. f = [shown |-> contactForm.shown, duplicate |-> contactForm.duplicate,
           saved |-> contactForm.saved, held |-> s, told |-> contactForm.told]
  BY <1>1, FormEdits
<1>3. QED
  BY <1>2 DEF Forms

\* A handler changes, and the form with it.
LEMMA HandlerAndFormOK ==
    ASSUME ContactsInv, NEW w \in ContactWorkers, NEW h \in ContactCalls,
           Knows(h, contacts, categoryState),
           working' = [working EXCEPT ![w] = h], UNCHANGED Directory,
           contactForm' \in Forms, FormInv'
    PROVE  ContactsInv'
<1>1. DirectoryInv' /\ working' \in [ContactWorkers -> ContactCalls]
  BY HandlerChangesOK DEF ContactsInv
<1>2. ContactsTypeOK'
  BY <1>1 DEF ContactsInv, ContactsTypeOK, Directory
<1>3. QED
  BY <1>1, <1>2 DEF ContactsInv

\* The form is answered and stays open, told of nothing new; no photo was under way.
LEMMA AnsweredOK ==
    ASSUME ContactsInv, ~ left, NEW w \in ContactWorkers, NEW h \in ContactCalls,
           Knows(h, contacts, categoryState),
           working' = [working EXCEPT ![w] = h], UNCHANGED Directory,
           UNCHANGED <<picked, left>>,
           working[w].step # "photo", h.step # "photo", h.step \notin AnsweredSteps,
           contactForm.shown, contactForm' \in Forms, contactForm'.shown,
           contactForm'.told = contactForm.told, contactForm'.saved = contactForm.saved
    PROVE  ContactsInv'
<1>1. FormInv
  BY DEF ContactsInv
<1>2. working'[w] = h /\ \A v \in ContactWorkers \ {w} : working'[v] = working[v]
  BY DEF ContactsInv, ContactsTypeOK
<1>3. \A v \in ContactWorkers :
         /\ working'[v].step = "photo" <=> working[v].step = "photo"
         /\ working'[v].step = "photo" => working'[v].contact = working[v].contact
         /\ working'[v].step \in AnsweredSteps => working'[v].heard
  BY <1>1, <1>2 DEF FormInv, AnswersAreHeard
<1>4. FormInv'
  BY <1>1, <1>3, ShownFormStepOK
<1>5. QED
  BY <1>4, HandlerAndFormOK

LEMMA IdleAnswersNothing == Idle.step # "photo" /\ Idle.step \notin AnsweredSteps
  BY IdleIsACall DEF AnsweredSteps

LEMMA AnswerDuplicateOK ==
    ASSUME ContactsInv, ~ left, NEW w \in ContactWorkers, AnswerDuplicate(w)
    PROVE  ContactsInv'
<1> PICK g : g = working[w]
  OBVIOUS
<1> PICK c : c = g.contact
  OBVIOUS
<1> PICK f : f = Released(w)
  OBVIOUS
<1>1. /\ g.step = "possible-duplicate" /\ g.step \in AnsweredSteps
      /\ contactForm' = [f EXCEPT !.duplicate = c]
      /\ working' = [working EXCEPT ![w] = Idle]
      /\ UNCHANGED Directory /\ UNCHANGED <<picked, left>>
  BY DEF AnswerDuplicate, AnsweredSteps
<1>2. c \in ContactIds /\ contactForm \in Forms /\ contactForm.shown
  BY <1>1, HeardHandler
<1>3. /\ f \in Forms /\ f.shown = contactForm.shown /\ f.told = contactForm.told
      /\ f.saved = contactForm.saved
  BY <1>2, ReleasedFacts
<1>4. contactForm' = [shown |-> f.shown, duplicate |-> c, saved |-> f.saved,
                      held |-> f.held, told |-> f.told]
  <2>1. \A d \in ContactIds \cup {NoContact} :
           [f EXCEPT !.duplicate = d] =
              [shown |-> f.shown, duplicate |-> d, saved |-> f.saved,
               held |-> f.held, told |-> f.told]
    BY <1>3, FormEdits
  <2>2. QED
    BY <1>1, <1>2, <2>1
<1>5. /\ contactForm' \in Forms /\ contactForm'.shown = f.shown
      /\ contactForm'.told = f.told /\ contactForm'.saved = f.saved
  BY <1>2, <1>3, <1>4 DEF Forms
<1>6. working[w].step # "photo"
  BY <1>1
<1>7. QED
  BY <1>1, <1>2, <1>3, <1>5, <1>6, IdleIsACall, IdleKnows, IdleAnswersNothing, AnsweredOK

LEMMA CallFailsOK ==
    ASSUME ContactsInv, ~ left, NEW w \in ContactWorkers, CallFails(w)
    PROVE  ContactsInv'
<1> PICK g : g = working[w]
  OBVIOUS
<1>1. /\ g.heard /\ g.step \notin {"photo", "photo-again"}
      /\ contactForm' = Released(w)
      /\ UNCHANGED Directory /\ UNCHANGED <<picked, left>>
  BY DEF CallFails
<1>2. /\ g \in ContactCalls /\ Knows(g, contacts, categoryState)
      /\ contactForm \in Forms /\ contactForm.shown
  BY <1>1, HeardHandler
<1>3. /\ contactForm' \in Forms /\ contactForm'.shown = contactForm.shown
      /\ contactForm'.told = contactForm.told /\ contactForm'.saved = contactForm.saved
  BY <1>1, <1>2, ReleasedFacts
<1>4. working[w].step # "photo"
  BY <1>1
<1>5. CASE working' = [working EXCEPT ![w] = Idle]
  BY <1>1, <1>2, <1>3, <1>4, <1>5, IdleIsACall, IdleKnows, IdleAnswersNothing, AnsweredOK
<1>6. CASE Reads(g.step) # {} /\ working' = [working EXCEPT ![w].heard = FALSE]
  <2> PICK h : h = [g EXCEPT !.heard = FALSE]
    OBVIOUS
  <2>1. h = [step |-> g.step, contact |-> g.contact, marks |-> g.marks,
             category |-> g.category, heard |-> FALSE, forced |-> g.forced,
             stale |-> g.stale]
    BY <1>2, CallEdits
  <2>2. /\ h \in ContactCalls /\ h.step = g.step /\ h.contact = g.contact
        /\ h.marks = g.marks /\ h.category = g.category /\ h.forced = g.forced
        /\ h.stale = g.stale
    BY <1>2, <2>1 DEF ContactCalls
  <2>3. Knows(h, contacts, categoryState)
    BY <1>2, <2>2 DEF Knows
  <2>4. h.step \notin AnsweredSteps
    BY <1>6, <2>2, StepsRead
  <2>5. working' = [working EXCEPT ![w] = h]
    BY <1>6
  <2>6. h.step # "photo"
    BY <1>1, <2>2
  <2>7. QED
    BY <1>1, <1>2, <1>3, <1>4, <2>2, <2>3, <2>4, <2>5, <2>6, AnsweredOK
<1>7. QED
  BY <1>5, <1>6 DEF CallFails

LEMMA CreatedWithPhotoOK ==
    ASSUME ContactsInv, ~ left, NEW w \in ContactWorkers, CreatedWithPhoto(w)
    PROVE  ContactsInv'
<1> PICK g : g = working[w]
  OBVIOUS
<1> PICK c : c = g.contact
  OBVIOUS
<1>0. PICK h : h = AtStep(g, "photo")
  OBVIOUS
<1>1. /\ g.step = "created" /\ g.step \in AnsweredSteps
      /\ working' = [working EXCEPT ![w] = h]
      /\ UNCHANGED Directory /\ UNCHANGED <<picked, left>>
  BY <1>0 DEF CreatedWithPhoto, AnsweredSteps, AtStep
<1>2. /\ g \in ContactCalls /\ g.heard /\ c \in ContactIds
      /\ contactForm \in Forms /\ contactForm.shown
  BY <1>1, HeardHandler
<1>3. "photo" \in ReadingSteps \cup AnsweredSteps /\ "photo" \in AnsweredSteps
  BY DEF AnsweredSteps
<1>4. h \in ContactCalls /\ h.step = "photo" /\ h.contact = c /\ h.heard = g.heard
  <2>1. h = [step |-> "photo", contact |-> g.contact, marks |-> g.marks,
             category |-> g.category, heard |-> g.heard, forced |-> g.forced,
             stale |-> g.stale]
    <3>1. \A s \in ReadingSteps \cup AnsweredSteps \cup {"idle"} :
             [g EXCEPT !.step = s] =
                [step |-> s, contact |-> g.contact, marks |-> g.marks,
                 category |-> g.category, heard |-> g.heard, forced |-> g.forced,
                 stale |-> g.stale]
      BY <1>2, CallEdits
    <3>2. QED
      BY <1>0, <1>3, <3>1 DEF AtStep
  <2>2. QED
    BY <1>2, <1>3, <2>1 DEF ContactCalls
<1>5. Knows(h, contacts, categoryState)
  BY <1>2, <1>4 DEF Knows, ReadingSteps, AnsweredSteps
<1>6. /\ contactForm' \in Forms /\ contactForm'.shown
      /\ contactForm'.told = contactForm.told \cup {c}
      /\ contactForm'.saved = contactForm.saved
  <2> PICK told \in SUBSET ContactIds : told = contactForm.told \cup {c}
    BY <1>2 DEF Forms
  <2> PICK d \in ContactIds \cup {NoContact} :
         d = IF g.forced THEN NoContact ELSE contactForm.duplicate
    BY <1>2 DEF Forms
  <2> DEFINE mid == [contactForm EXCEPT !.told = told]
  <2>1. mid = [shown |-> contactForm.shown, duplicate |-> contactForm.duplicate,
               saved |-> contactForm.saved, held |-> contactForm.held, told |-> told]
    BY <1>2, FormEdits
  <2>2. contactForm' = [mid EXCEPT !.duplicate = d]
    BY DEF CreatedWithPhoto
  <2> HIDE DEF mid
  <2>3. contactForm' = [shown |-> contactForm.shown, duplicate |-> d,
                        saved |-> contactForm.saved, held |-> contactForm.held,
                        told |-> told]
    BY <2>1, <2>2
  <2>4. QED
    BY <1>2, <2>3 DEF Forms
<1>7. /\ working'[w] = h
      /\ \A v \in ContactWorkers \ {w} : working'[v] = working[v]
  BY <1>1 DEF ContactsInv, ContactsTypeOK
<1>8. FormInv'
  BY <1>1, <1>2, <1>4, <1>6, <1>7
  DEF ContactsInv, FormInv, AnswersAreHeard, ClosedFormsHearNothing,
      PhotosAreOfSavedContacts, SavedContactsAreTold, ToldContactsArePending,
      SavedContactIsPicked
<1>9. QED
  BY <1>1, <1>4, <1>5, <1>6, <1>8, HandlerAndFormOK

LEMMA FinishedOK ==
    ASSUME ContactsInv, ~ left, NEW w \in ContactWorkers, Finished(w)
    PROVE  ContactsInv'
<1> PICK g : g = working[w]
  OBVIOUS
<1> PICK c : c = g.contact
  OBVIOUS
<1>1. /\ g.step \in AnsweredSteps
      /\ SavedAndClosed(c, HeardCalls \ {w})
      /\ working' = [working EXCEPT ![w] = Idle] /\ UNCHANGED Directory
  BY DEF Finished, AnsweredSteps
<1>2. c \in ContactIds /\ contactForm \in Forms
  BY <1>1, HeardHandler
<1>3. /\ contactForm' \in Forms
      /\ contactForm'.shown = FALSE /\ contactForm'.told = contactForm.told \cup {c}
      /\ contactForm'.saved = NoContact
      /\ left' = (left \/ HeardCalls \ {w} # {}) /\ picked' = c
  BY <1>1, <1>2, SavedAndClosedFacts
<1>4. /\ working'[w] = Idle
      /\ \A v \in ContactWorkers \ {w} : working'[v] = working[v]
  BY <1>1 DEF ContactsInv, ContactsTypeOK
<1>5. ~ left' => \A v \in ContactWorkers : ~ working'[v].heard
  BY <1>3, <1>4, IdleIsACall DEF HeardCalls
<1>6. AnswersAreHeard'
  BY <1>4, IdleAnswersNothing DEF ContactsInv, FormInv, AnswersAreHeard
<1>7. ~ left' => \A v \in ContactWorkers : working'[v].step # "photo"
  BY <1>5, <1>6 DEF AnswersAreHeard, AnsweredSteps
<1>8. FormInv'
  BY <1>3, <1>5, <1>6, <1>7
  DEF FormInv, ClosedFormsHearNothing, PhotosAreOfSavedContacts, SavedContactsAreTold,
      ToldContactsArePending, SavedContactIsPicked
<1>9. QED
  BY <1>1, <1>3, <1>8, IdleIsACall, IdleKnows, HandlerAndFormOK

LEMMA PhotoFailsOK ==
    ASSUME ContactsInv, ~ left, NEW w \in ContactWorkers, PhotoFails(w)
    PROVE  ContactsInv'
<1> PICK g : g = working[w]
  OBVIOUS
<1> PICK c : c = g.contact
  OBVIOUS
<1> PICK f : f = Released(w)
  OBVIOUS
<1>1. /\ g.step \in {"photo", "photo-again"} /\ g.step \in AnsweredSteps
      /\ working' = [working EXCEPT ![w] = Idle]
      /\ UNCHANGED Directory /\ UNCHANGED <<picked, left>>
  BY DEF PhotoFails, AnsweredSteps
<1>2. /\ c \in ContactIds /\ contactForm \in Forms /\ contactForm.shown
      /\ g.step = "photo" => c \in contactForm.told
  BY <1>1, HeardHandler
<1>3. /\ f \in Forms /\ f.shown = contactForm.shown /\ f.told = contactForm.told
      /\ f.saved = contactForm.saved
  BY <1>2, ReleasedFacts
<1>4. CASE g.step = "photo"
  <2>1. contactForm' = [f EXCEPT !.saved = c]
    BY <1>4 DEF PhotoFails
  <2>2. contactForm' = [shown |-> f.shown, duplicate |-> f.duplicate, saved |-> c,
                        held |-> f.held, told |-> f.told]
    <3>1. \A d \in ContactIds \cup {NoContact} :
             [f EXCEPT !.saved = d] =
                [shown |-> f.shown, duplicate |-> f.duplicate, saved |-> d,
                 held |-> f.held, told |-> f.told]
      BY <1>3, FormEdits
    <3>2. QED
      BY <1>2, <2>1, <3>1
  <2>3. /\ contactForm' \in Forms /\ contactForm'.shown = f.shown
        /\ contactForm'.told = f.told /\ contactForm'.saved = c
    BY <1>2, <1>3, <2>2 DEF Forms
  <2>4. /\ working'[w] = Idle
        /\ \A v \in ContactWorkers \ {w} : working'[v] = working[v]
    BY <1>1 DEF ContactsInv, ContactsTypeOK
  <2>5. AnswersAreHeard'
    BY <2>4, IdleAnswersNothing DEF ContactsInv, FormInv, AnswersAreHeard
  <2>6. contactForm'.saved # NoContact
    BY <1>2, <2>3 DEF ContactIds, NoContact
  <2>7. PhotosAreOfSavedContacts'
    BY <1>1, <1>3, <2>3, <2>4, IdleAnswersNothing
    DEF ContactsInv, FormInv, PhotosAreOfSavedContacts
  <2>8. FormInv'
    BY <1>1, <1>2, <1>3, <1>4, <2>3, <2>5, <2>6, <2>7
    DEF FormInv, ClosedFormsHearNothing, SavedContactsAreTold, ToldContactsArePending,
        SavedContactIsPicked
  <2>9. QED
    BY <1>1, <2>3, <2>8, IdleIsACall, IdleKnows, HandlerAndFormOK
<1>5. CASE g.step = "photo-again"
  <2>1. contactForm' = f
    BY <1>5 DEF PhotoFails
  <2>2. working[w].step # "photo"
    BY <1>5
  <2>3. /\ contactForm' \in Forms /\ contactForm'.shown
        /\ contactForm'.told = contactForm.told /\ contactForm'.saved = contactForm.saved
    BY <1>2, <1>3, <2>1
  <2>4. QED
    BY <1>1, <1>2, <2>2, <2>3, IdleIsACall, IdleKnows, IdleAnswersNothing, AnsweredOK
<1>6. QED
  BY <1>1, <1>4, <1>5

LEMMA FormStepOK == ContactsInv /\ ~ left /\ FormNext => ContactsInv'
<1> SUFFICES ASSUME ContactsInv, ~ left, FormNext PROVE ContactsInv'
  OBVIOUS
<1>1. CASE OpenContactForm
  BY <1>1, OpenContactFormOK
<1>2. CASE RequestClose
  BY <1>2, RequestCloseOK
<1>3. CASE CancelDuplicate
  BY <1>3, CancelDuplicateOK
<1>4. ASSUME NEW w \in ContactWorkers, NEW m \in SUBSET Marks, NEW k \in CategoryNames,
             HandleSubmit(w, m, k) \/ HandleForceCreate(w, m, k)
      PROVE  ContactsInv'
  BY <1>4, HandleSubmitOK, HandleForceCreateOK
<1>5. ASSUME NEW w \in ContactWorkers, HandleUseDuplicate(w) \/ HandleRetryPhoto(w)
      PROVE  ContactsInv'
  BY <1>5, HandleUseDuplicateOK, HandleRetryPhotoOK
<1>6. ASSUME NEW w \in ContactWorkers, AnswerDuplicate(w) \/ CallFails(w)
      PROVE  ContactsInv'
  BY <1>6, AnswerDuplicateOK, CallFailsOK
<1>7. ASSUME NEW w \in ContactWorkers, CreatedWithPhoto(w) \/ Finished(w) \/ PhotoFails(w)
      PROVE  ContactsInv'
  BY <1>7, CreatedWithPhotoOK, FinishedOK, PhotoFailsOK
<1>8. QED
  BY <1>1, <1>2, <1>3, <1>4, <1>5, <1>6, <1>7 DEF FormNext

LEMMA ContactsInitOK == ContactsInit => ContactsInv
<1> SUFFICES ASSUME ContactsInit PROVE ContactsInv
  OBVIOUS
<1>1. /\ \A c \in ContactIds : contacts[c].state = "absent" /\ contacts[c].category = NoName
      /\ contacts \in [ContactIds -> ContactRows]
      /\ categoryState \in [CategoryNames -> {"absent", "active", "inactive"}]
  BY DEF ContactsInit, ContactRows
<1>2. /\ \A w \in ContactWorkers : working[w] = Idle
      /\ working \in [ContactWorkers -> ContactCalls]
  BY IdleIsACall DEF ContactsInit
<1>3. contactForm = [shown |-> FALSE, duplicate |-> NewForm.duplicate,
                     saved |-> NewForm.saved, held |-> NewForm.held, told |-> NewForm.told]
  BY NewFormFacts, FormEdits DEF ContactsInit
<1>4. /\ contactForm \in Forms /\ contactForm.shown = FALSE /\ contactForm.told = {}
      /\ contactForm.saved = NoContact
  BY <1>3, NewFormFacts DEF Forms
<1>5. HandlersKnow
  BY <1>2, IdleKnows DEF HandlersKnow
<1>6. ContactsHaveACategory /\ ContactsAreSought
  BY <1>1 DEF ContactsHaveACategory, ContactsAreSought, IsActive
<1>7. FormInv
  BY <1>2, <1>4, IdleIsACall, IdleAnswersNothing
  DEF FormInv, AnswersAreHeard, ClosedFormsHearNothing, PhotosAreOfSavedContacts,
      SavedContactsAreTold, ToldContactsArePending, SavedContactIsPicked
<1>8. QED
  BY <1>1, <1>2, <1>4, <1>5, <1>6, <1>7 DEF ContactsInv, ContactsTypeOK, DirectoryInv

LEMMA ContactsStepOK == ContactsInv /\ [ContactsNext]_contactVars => ContactsInv'
<1> SUFFICES ASSUME ContactsInv, [ContactsNext]_contactVars PROVE ContactsInv'
  OBVIOUS
<1>1. CASE ContactsNext
  BY <1>1, DirectoryStepOK, FormStepOK DEF ContactsNext
<1>2. CASE UNCHANGED contactVars
  BY <1>2
  DEF contactVars, ContactsInv, ContactsTypeOK, DirectoryInv, ContactsHaveACategory,
      HandlersKnow, Knows, ContactsAreSought, IsActive, FormInv, AnswersAreHeard,
      ClosedFormsHearNothing, PhotosAreOfSavedContacts, SavedContactsAreTold,
      ToldContactsArePending, SavedContactIsPicked
<1>3. QED
  BY <1>1, <1>2

(***************************************************************************)
(* Of two similar active contacts one was not looked for, or too early; an *)
(* active contact of a category that is not active was not checked, or too *)
(* early: whatever handlers overlap, and whatever their number.            *)
(***************************************************************************)
THEOREM ContactsAreLookedFor ==
    ContactsInit /\ [][ContactsNext]_contactVars => []ContactsAreSought
<1>1. ContactsInv => ContactsAreSought
  BY DEF ContactsInv, DirectoryInv
<1>2. QED
  BY ContactsInitOK, ContactsStepOK, <1>1, PTL

(***************************************************************************)
(* The form that was told of a saved contact closes with one of them       *)
(* picked, whatever it was answered in between and however often the photo *)
(* failed.                                                                 *)
(***************************************************************************)
THEOREM SavedContactsAreHandedOver ==
    ContactsInit /\ [][ContactsNext]_contactVars => []SavedContactIsPicked
<1>1. ContactsInv => SavedContactIsPicked
  BY DEF ContactsInv, FormInv
<1>2. QED
  BY ContactsInitOK, ContactsStepOK, <1>1, PTL

(***************************************************************************)
(* IncidentHistory.  A transaction that is open has one entry nobody else  *)
(* sees, and what it read is a status the incident has had; while no two   *)
(* changes have overlapped, that entry is the last one.                    *)
(***************************************************************************)

\* A handler has read the incident, and its transaction has not ended.
Changes(w) == changing[w].step # "idle"

EntryRecords ==
    [previous : IncidentStatuses, new : IncidentStatuses, by : SUBSET IncidentWorkers]

ChangeRecords ==
    [step : {"idle", "insert", "update"}, previous : IncidentStatuses,
     new : IncidentStatuses]

HistoryTypeOK ==
    /\ firstStatus \in IncidentStatuses
    /\ incidentStatus \in IncidentStatuses
    /\ entries \in Seq(EntryRecords)
    /\ changing \in [IncidentWorkers -> ChangeRecords]
    /\ crossed \in BOOLEAN
    /\ \A w \in IncidentWorkers : ~ Changes(w) => changing[w] = NoChange

\* An entry the others do not see is that of an open transaction.
EntriesHaveWriters ==
    \A n \in DOMAIN entries : entries[n].by # {} =>
        \E w \in IncidentWorkers :
            /\ changing[w].step = "update"
            /\ entries[n] = Entry(changing[w].previous, changing[w].new, w)

\* A transaction between its two statements has one entry.
WritersHaveEntries ==
    \A w \in IncidentWorkers : changing[w].step = "update" =>
        \E n \in DOMAIN entries :
            /\ entries[n].by = {w}
            /\ \A m \in DOMAIN entries : entries[m].by = {w} => m = n

\* The statuses the incident has had.
Had == {firstStatus} \cup {entries[n].new : n \in Committed}

ChangesAreSound ==
    \A w \in IncidentWorkers : Changes(w) =>
        /\ changing[w].previous # changing[w].new
        /\ changing[w].new # NoStatus

StatusesWereHad ==
    IF IncidentExists
    THEN /\ incidentStatus \in Had
         /\ \A n \in Committed : entries[n].previous \in Had /\ entries[n].previous # entries[n].new
         /\ \A w \in IncidentWorkers : Changes(w) => changing[w].previous \in Had
    ELSE entries = <<>>

\* Changes that have not overlapped.
OneByOne ==
    ~ crossed =>
        /\ \A v, w \in IncidentWorkers : Changes(v) /\ Changes(w) => v = w
        /\ \A n \in DOMAIN entries : n # Len(entries) => entries[n].by = {}

\* Then every entry begins where the one before it ended.
EntriesChain ==
    ~ crossed /\ IncidentExists =>
        /\ \A n \in DOMAIN entries :
              entries[n].previous = IF n = 1 THEN firstStatus ELSE entries[n - 1].new
        /\ incidentStatus =
              IF entries = <<>> THEN firstStatus
              ELSE IF entries[Len(entries)].by = {} THEN entries[Len(entries)].new
              ELSE entries[Len(entries)].previous
        /\ \A w \in IncidentWorkers : Changes(w) => changing[w].previous = incidentStatus

HistoryInv ==
    /\ HistoryTypeOK
    /\ EntriesHaveWriters /\ WritersHaveEntries
    /\ ChangesAreSound /\ StatusesWereHad
    /\ OneByOne /\ EntriesChain

\* The greatest of the numbers below n is the one before it.
LEMMA MaxBelow ==
    ASSUME NEW n \in Nat, n > 0 PROVE Max(1..n) = n
<1>1. n \in 1..n /\ \A y \in 1..n : n >= y
  OBVIOUS
<1>2. \A x \in 1..n : (\A y \in 1..n : x >= y) => x = n
  OBVIOUS
<1>3. QED  BY <1>1, <1>2 DEF Max

LEMMA HistoryInit == IncidentsInit => HistoryInv
<1> SUFFICES ASSUME IncidentsInit PROVE HistoryInv
  OBVIOUS
<1> USE DEF IncidentsInit
<1>1. HistoryTypeOK
  <2>1. NoChange \in ChangeRecords
    BY DEF NoChange, ChangeRecords, IncidentStatuses
  <2>2. changing \in [IncidentWorkers -> ChangeRecords]
    BY <2>1
  <2>3. \A w \in IncidentWorkers : changing[w] = NoChange
    OBVIOUS
  <2>4. entries \in Seq(EntryRecords)
    OBVIOUS
  <2>5. firstStatus \in IncidentStatuses /\ incidentStatus \in IncidentStatuses /\ crossed \in BOOLEAN
    BY DEF IncidentStatuses
  <2>6. QED  BY <2>2, <2>3, <2>4, <2>5 DEF HistoryTypeOK
<1>2. \A w \in IncidentWorkers : ~ Changes(w) /\ changing[w].step # "update"
  BY DEF Changes, NoChange
<1>3. DOMAIN entries = {} /\ Committed = {}
  BY DEF Committed
<1>4. EntriesHaveWriters /\ WritersHaveEntries /\ ChangesAreSound /\ OneByOne
  BY <1>2, <1>3 DEF EntriesHaveWriters, WritersHaveEntries, ChangesAreSound, OneByOne
<1>5. StatusesWereHad
  BY <1>2, <1>3 DEF StatusesWereHad, Had
<1>6. EntriesChain
  BY <1>2, <1>3 DEF EntriesChain
<1>7. QED  BY <1>1, <1>4, <1>5, <1>6 DEF HistoryInv

\* The invariant says what the history tells.
LEMMA HistoryIsTold == HistoryInv => HistoryTellsTheStatus
<1> SUFFICES ASSUME HistoryInv, IncidentExists PROVE HistoryTellsTheStatus
  BY DEF HistoryTellsTheStatus
<1> DEFINE earlier(n) == {m \in Committed : m < n}
           before(n) == IF earlier(n) = {} THEN firstStatus
                        ELSE entries[Max(earlier(n))].new
           size == Len(entries)
<1>1. /\ incidentStatus \in Had
      /\ \A n \in Committed : entries[n].previous \in Had /\ entries[n].previous # entries[n].new
  BY DEF HistoryInv, StatusesWereHad
<1>2. entries \in Seq(EntryRecords) /\ size \in Nat /\ DOMAIN entries = 1..size
  BY DEF HistoryInv, HistoryTypeOK
<1>3. ASSUME ~ crossed
      PROVE  /\ incidentStatus = before(size + 1)
             /\ \A n \in Committed : entries[n].previous = before(n)
  <2>1. /\ \A n \in 1..size : n # size => entries[n].by = {}
        /\ \A n \in 1..size :
              entries[n].previous = IF n = 1 THEN firstStatus ELSE entries[n - 1].new
        /\ incidentStatus =
              IF entries = <<>> THEN firstStatus
              ELSE IF entries[size].by = {} THEN entries[size].new
              ELSE entries[size].previous
    BY <1>2, <1>3 DEF HistoryInv, OneByOne, EntriesChain
  <2> HIDE DEF size, before
  <2>2. ASSUME NEW k \in 0..size, \A n \in 1..k : entries[n].by = {},
               NEW n \in Nat, n = k + 1 \/ (n = k + 2 /\ k + 1 = size /\ entries[size].by # {})
        PROVE  before(n) = IF k = 0 THEN firstStatus ELSE entries[k].new
    <3>1. earlier(n) = 1..k
      <4>1. k \in Nat /\ k <= size
        BY <1>2, <2>2
      <4>2. ASSUME NEW m \in 1..k PROVE m \in earlier(n)
        BY <1>2, <2>2, <4>1, <4>2 DEF Committed
      <4>3. ASSUME NEW m \in earlier(n) PROVE m \in 1..k
        <5>1. m \in 1..size /\ m < n /\ entries[m].by = {}
          BY <1>2, <4>3 DEF Committed
        <5>2. QED  BY <1>2, <2>2, <4>1, <5>1
      <4>4. QED  BY <4>2, <4>3
    <3> USE DEF before
    <3> HIDE DEF earlier
    <3>2. CASE k = 0
      <4>1. earlier(n) = {}
        BY <3>1, <3>2
      <4>2. QED  BY <3>2, <4>1
    <3>3. CASE k # 0
      <4>1. k \in Nat /\ k > 0
        BY <1>2, <2>2, <3>3
      <4>2. Max(1..k) = k
        BY <4>1, MaxBelow
      <4>3. k \in 1..k
        BY <4>1
      <4>4. QED  BY <3>1, <3>3, <4>2, <4>3
    <3>4. QED  BY <3>2, <3>3
  <2>3. ASSUME NEW n \in Committed PROVE entries[n].previous = before(n)
    <3>1. n \in 1..size
      BY <1>2 DEF Committed
    <3>2. PICK k \in 0..size : n = k + 1
      BY <1>2, <3>1
    <3>3. \A m \in 1..k : entries[m].by = {}
      BY <1>2, <2>1, <3>1, <3>2
    <3>4. before(n) = IF k = 0 THEN firstStatus ELSE entries[k].new
      BY <1>2, <2>2, <3>1, <3>2, <3>3
    <3>5. entries[n].previous = IF k = 0 THEN firstStatus ELSE entries[k].new
      BY <1>2, <2>1, <3>1, <3>2
    <3>6. QED  BY <3>4, <3>5
  <2>4. CASE size = 0 \/ entries[size].by = {}
    <3>1. \A m \in 1..size : entries[m].by = {}
      BY <1>2, <2>1, <2>4
    <3>2. before(size + 1) = IF size = 0 THEN firstStatus ELSE entries[size].new
      BY <1>2, <2>2, <3>1
    <3>3. entries = <<>> <=> size = 0
      BY <1>2
    <3>4. QED  BY <2>1, <2>3, <2>4, <3>2, <3>3
  <2>5. CASE size # 0 /\ entries[size].by # {}
    <3>1. PICK k \in 0..size : size = k + 1
      BY <1>2, <2>5
    <3>2. \A m \in 1..k : entries[m].by = {}
      BY <1>2, <2>1, <3>1
    <3>3. before(size + 1) = IF k = 0 THEN firstStatus ELSE entries[k].new
      BY <1>2, <2>2, <2>5, <3>1, <3>2
    <3>4. entries # <<>>
      BY <1>2, <2>5
    <3>5. entries[size].previous = IF k = 0 THEN firstStatus ELSE entries[k].new
      BY <1>2, <2>1, <2>5, <3>1
    <3>6. QED  BY <2>1, <2>3, <2>5, <3>3, <3>4, <3>5
  <2>6. QED  BY <2>4, <2>5
<1>4. QED
  BY <1>1, <1>3 DEF HistoryTellsTheStatus, Had

\* The parts of the invariant, with the domain of the entries as numbers.
LEMMA HistoryFacts ==
    ASSUME HistoryInv
    PROVE  /\ firstStatus \in IncidentStatuses /\ incidentStatus \in IncidentStatuses
           /\ entries \in Seq(EntryRecords)
           /\ Len(entries) \in Nat /\ DOMAIN entries = 1..Len(entries)
           /\ changing \in [IncidentWorkers -> ChangeRecords]
           /\ crossed \in BOOLEAN
           /\ \A w \in IncidentWorkers : ~ Changes(w) => changing[w] = NoChange
<1>1. entries \in Seq(EntryRecords)
  BY DEF HistoryInv, HistoryTypeOK
<1>2. Len(entries) \in Nat /\ DOMAIN entries = 1..Len(entries)
  BY <1>1
<1>3. QED  BY <1>1, <1>2 DEF HistoryInv, HistoryTypeOK

LEMMA NoChangeIsIdle ==
    /\ NoChange.step = "idle"
    /\ NoChange \in ChangeRecords
  BY DEF NoChange, ChangeRecords, IncidentStatuses

LEMMA StartChangeKeepsHistory ==
    ASSUME HistoryInv, NEW w \in IncidentWorkers, NEW status \in Selectable,
           StartChange(w, status)
    PROVE  HistoryInv'
<1> DEFINE h == [step |-> "insert", previous |-> incidentStatus, new |-> status]
<1>1. /\ changing[w] = NoChange /\ IncidentExists /\ status # incidentStatus
      /\ changing' = [changing EXCEPT ![w] = h]
      /\ crossed' = (crossed \/ \E v \in IncidentWorkers : changing[v] # NoChange)
      /\ UNCHANGED <<firstStatus, incidentStatus, entries>>
  BY DEF StartChange
<1>2. /\ firstStatus \in IncidentStatuses /\ incidentStatus \in IncidentStatuses
      /\ entries \in Seq(EntryRecords)
      /\ Len(entries) \in Nat /\ DOMAIN entries = 1..Len(entries)
      /\ changing \in [IncidentWorkers -> ChangeRecords]
      /\ crossed \in BOOLEAN
      /\ \A v \in IncidentWorkers : ~ Changes(v) => changing[v] = NoChange
  BY HistoryFacts
<1>3. /\ h.step = "insert" /\ h.previous = incidentStatus /\ h.new = status
      /\ h \in ChangeRecords /\ status # NoStatus
  BY <1>2, IncidentsAssumption DEF ChangeRecords, IncidentStatuses
<1> HIDE DEF h
<1>4. /\ changing'[w] = h
      /\ \A v \in IncidentWorkers : v # w => changing'[v] = changing[v]
      /\ changing' \in [IncidentWorkers -> ChangeRecords]
  BY <1>1, <1>2, <1>3
<1>5. /\ Changes(w)' /\ ~ Changes(w)
      /\ \A v \in IncidentWorkers : v # w => (Changes(v)' <=> Changes(v))
  BY <1>1, <1>3, <1>4, NoChangeIsIdle DEF Changes
<1>6. Committed' = Committed /\ Had' = Had /\ (IncidentExists' <=> IncidentExists)
  BY <1>1 DEF Committed, Had, IncidentExists
<1>7. HistoryTypeOK'
  <2>1. crossed' \in BOOLEAN
    BY <1>1, <1>2
  <2>2. ASSUME NEW v \in IncidentWorkers, ~ Changes(v)' PROVE changing'[v] = NoChange
    BY <1>2, <1>4, <1>5, <2>2
  <2>3. QED  BY <1>1, <1>2, <1>4, <2>1, <2>2 DEF HistoryTypeOK
<1>8. EntriesHaveWriters'
  <2> SUFFICES ASSUME NEW n \in DOMAIN entries, entries[n].by # {}
               PROVE  \E v \in IncidentWorkers :
                          /\ changing'[v].step = "update"
                          /\ entries[n] = Entry(changing'[v].previous, changing'[v].new, v)
    BY <1>1 DEF EntriesHaveWriters, Entry
  <2>1. PICK v \in IncidentWorkers :
           /\ changing[v].step = "update"
           /\ entries[n] = Entry(changing[v].previous, changing[v].new, v)
    BY DEF HistoryInv, EntriesHaveWriters
  <2>2. v # w
    BY <1>1, <2>1, NoChangeIsIdle
  <2>3. QED  BY <1>4, <2>1, <2>2
<1>9. WritersHaveEntries'
  <2>1. \A v \in IncidentWorkers : changing'[v].step = "update" => changing[v].step = "update"
    BY <1>3, <1>4
  <2>2. QED  BY <1>1, <2>1 DEF HistoryInv, WritersHaveEntries
<1>10. ChangesAreSound'
  <2>1. ASSUME NEW v \in IncidentWorkers, Changes(v)'
        PROVE  changing'[v].previous # changing'[v].new /\ changing'[v].new # NoStatus
    BY <1>1, <1>3, <1>4, <1>5, <2>1 DEF HistoryInv, ChangesAreSound
  <2>2. QED  BY <2>1 DEF ChangesAreSound
<1>11. StatusesWereHad'
  <2>1. /\ incidentStatus \in Had
        /\ \A n \in Committed : entries[n].previous \in Had /\ entries[n].previous # entries[n].new
        /\ \A v \in IncidentWorkers : Changes(v) => changing[v].previous \in Had
    BY <1>1 DEF HistoryInv, StatusesWereHad
  <2>2. ASSUME NEW v \in IncidentWorkers, Changes(v)' PROVE changing'[v].previous \in Had
    BY <1>3, <1>4, <1>5, <2>1, <2>2
  <2>3. QED  BY <1>1, <1>6, <2>1, <2>2 DEF StatusesWereHad
<1>12. ASSUME ~ crossed'
       PROVE  /\ ~ crossed
              /\ \A v \in IncidentWorkers : ~ Changes(v)
              /\ \A n \in DOMAIN entries : entries[n].by = {}
  <2>1. ~ crossed /\ \A v \in IncidentWorkers : changing[v] = NoChange
    BY <1>1, <1>12
  <2>2. \A v \in IncidentWorkers : changing[v].step # "update" /\ ~ Changes(v)
    BY <2>1, NoChangeIsIdle DEF Changes
  <2>3. QED  BY <2>1, <2>2 DEF HistoryInv, EntriesHaveWriters
<1>13. OneByOne'
  <2>1. ASSUME ~ crossed', NEW u \in IncidentWorkers, NEW v \in IncidentWorkers,
               Changes(u)', Changes(v)'
        PROVE  u = v
    BY <1>5, <1>12, <2>1
  <2>2. ASSUME ~ crossed', NEW n \in DOMAIN entries PROVE entries[n].by = {}
    BY <1>12, <2>2
  <2>3. QED  BY <1>1, <2>1, <2>2 DEF OneByOne
<1>14. EntriesChain'
  <2> SUFFICES ASSUME ~ crossed' PROVE EntriesChain'
    BY DEF EntriesChain
  <2>1. /\ \A n \in DOMAIN entries :
              entries[n].previous = IF n = 1 THEN firstStatus ELSE entries[n - 1].new
        /\ incidentStatus =
              IF entries = <<>> THEN firstStatus
              ELSE IF entries[Len(entries)].by = {} THEN entries[Len(entries)].new
              ELSE entries[Len(entries)].previous
    BY <1>1, <1>12 DEF HistoryInv, EntriesChain
  <2>2. ASSUME NEW v \in IncidentWorkers, Changes(v)' PROVE changing'[v].previous = incidentStatus
    BY <1>3, <1>4, <1>5, <1>12, <2>2
  <2>3. QED  BY <1>1, <2>1, <2>2 DEF EntriesChain
<1>15. QED
  BY <1>7, <1>8, <1>9, <1>10, <1>11, <1>13, <1>14 DEF HistoryInv

LEMMA InsertEntryKeepsHistory ==
    ASSUME HistoryInv, NEW w \in IncidentWorkers, InsertEntry(w)
    PROVE  HistoryInv'
<1> DEFINE h == changing[w]
           e == Entry(h.previous, h.new, w)
           size == Len(entries)
<1>1. /\ h.step = "insert" /\ IncidentExists
      /\ entries' = Append(entries, e)
      /\ changing' = [changing EXCEPT ![w].step = "update"]
      /\ UNCHANGED <<firstStatus, incidentStatus, crossed>>
  BY DEF InsertEntry
<1>2. /\ firstStatus \in IncidentStatuses /\ incidentStatus \in IncidentStatuses
      /\ entries \in Seq(EntryRecords)
      /\ size \in Nat /\ DOMAIN entries = 1..size
      /\ changing \in [IncidentWorkers -> ChangeRecords]
      /\ crossed \in BOOLEAN
      /\ \A v \in IncidentWorkers : ~ Changes(v) => changing[v] = NoChange
  BY HistoryFacts
<1>3. h \in ChangeRecords
  BY <1>2
<1>4. /\ e.previous = h.previous /\ e.new = h.new /\ e.by = {w}
      /\ e \in EntryRecords
  BY <1>3 DEF Entry, EntryRecords, ChangeRecords
<1>5. /\ entries' \in Seq(EntryRecords)
      /\ Len(entries)' = size + 1 /\ DOMAIN entries' = 1..(size + 1)
      /\ \A n \in 1..size : entries'[n] = entries[n]
      /\ entries'[size + 1] = e
  <2> HIDE DEF e
  <2>1. QED  BY <1>1, <1>2, <1>4
<1>6. /\ changing'[w].step = "update"
      /\ changing'[w].previous = h.previous /\ changing'[w].new = h.new
      /\ \A v \in IncidentWorkers : v # w => changing'[v] = changing[v]
      /\ changing' \in [IncidentWorkers -> ChangeRecords]
  BY <1>1, <1>2, <1>3 DEF ChangeRecords
<1>7. \A v \in IncidentWorkers : Changes(v)' <=> Changes(v)
  BY <1>1, <1>6 DEF Changes
<1>8. \A v \in IncidentWorkers :
         changing'[v].previous = changing[v].previous /\ changing'[v].new = changing[v].new
  BY <1>6
<1> HIDE DEF e, h, size
<1>9. Committed' = Committed
  <2>1. ASSUME NEW n \in Committed' PROVE n \in Committed
    <3>1. n \in 1..(size + 1) /\ entries'[n].by = {}
      BY <1>5, <2>1 DEF Committed
    <3>2. n # size + 1
      BY <1>4, <1>5, <3>1
    <3>3. n \in 1..size
      BY <1>2, <3>1, <3>2
    <3>4. QED  BY <1>2, <1>5, <3>1, <3>3 DEF Committed
  <2>2. ASSUME NEW n \in Committed PROVE n \in Committed'
    <3>1. n \in 1..size /\ entries[n].by = {}
      BY <1>2, <2>2 DEF Committed
    <3>2. n \in 1..(size + 1) /\ entries'[n].by = {}
      BY <1>2, <1>5, <3>1
    <3>3. QED  BY <1>5, <3>2 DEF Committed
  <2>3. QED  BY <2>1, <2>2
<1>10. \A n \in Committed : n \in 1..size /\ entries'[n] = entries[n]
  BY <1>2, <1>5 DEF Committed
<1>11. Had' = Had /\ (IncidentExists' <=> IncidentExists)
  BY <1>1, <1>9, <1>10 DEF Had, IncidentExists
<1>12. HistoryTypeOK'
  <2>1. ASSUME NEW v \in IncidentWorkers, ~ Changes(v)' PROVE changing'[v] = NoChange
    <3>1. ~ Changes(v) /\ v # w
      BY <1>6, <1>7, <2>1 DEF Changes
    <3>2. QED  BY <1>2, <1>6, <3>1
  <2>2. QED  BY <1>1, <1>2, <1>5, <1>6, <2>1 DEF HistoryTypeOK
<1>13. EntriesHaveWriters'
  <2>1. ASSUME NEW n \in 1..(size + 1), entries'[n].by # {}
        PROVE  \E v \in IncidentWorkers :
                  /\ changing'[v].step = "update"
                  /\ entries'[n] = Entry(changing'[v].previous, changing'[v].new, v)
    <3>1. CASE n = size + 1
      BY <1>5, <1>6, <3>1 DEF e
    <3>2. CASE n # size + 1
      <4>1. n \in 1..size /\ entries'[n] = entries[n]
        BY <1>2, <1>5, <3>2
      <4>2. PICK v \in IncidentWorkers :
               /\ changing[v].step = "update"
               /\ entries[n] = Entry(changing[v].previous, changing[v].new, v)
        BY <1>2, <2>1, <4>1 DEF HistoryInv, EntriesHaveWriters
      <4>3. v # w
        BY <1>1, <4>2 DEF h
      <4>4. QED  BY <1>6, <4>1, <4>2, <4>3
    <3>3. QED  BY <3>1, <3>2
  <2>2. QED  BY <1>5, <2>1 DEF EntriesHaveWriters, Entry
<1>14. WritersHaveEntries'
  <2>1. ASSUME NEW v \in IncidentWorkers, changing'[v].step = "update"
        PROVE  \E n \in 1..(size + 1) :
                  /\ entries'[n].by = {v}
                  /\ \A m \in 1..(size + 1) : entries'[m].by = {v} => m = n
    <3>1. CASE v = w
      <4>1. ASSUME NEW m \in 1..size, entries[m].by = {w} PROVE FALSE
        <5>1. PICK u \in IncidentWorkers :
                 /\ changing[u].step = "update"
                 /\ entries[m] = Entry(changing[u].previous, changing[u].new, u)
          BY <1>2, <4>1 DEF HistoryInv, EntriesHaveWriters
        <5>2. u = w
          BY <4>1, <5>1 DEF Entry
        <5>3. QED  BY <1>1, <5>1, <5>2 DEF h
      <4>2. \A m \in 1..(size + 1) : entries'[m].by = {w} => m = size + 1
        <5>1. SUFFICES ASSUME NEW m \in 1..(size + 1), entries'[m].by = {w}, m # size + 1
                       PROVE  FALSE
          OBVIOUS
        <5>2. m \in 1..size
          BY <1>2, <5>1
        <5>3. QED  BY <1>5, <4>1, <5>1, <5>2
      <4>3. size + 1 \in 1..(size + 1)
        BY <1>2
      <4>4. QED  BY <1>4, <1>5, <3>1, <4>2, <4>3
    <3>2. CASE v # w
      <4>1. PICK n \in 1..size :
               /\ entries[n].by = {v}
               /\ \A m \in 1..size : entries[m].by = {v} => m = n
        BY <1>2, <1>6, <2>1, <3>2 DEF HistoryInv, WritersHaveEntries
      <4>2. ASSUME NEW m \in 1..(size + 1), entries'[m].by = {v} PROVE m = n
        <5>1. m # size + 1
          BY <1>4, <1>5, <3>2, <4>2
        <5>2. m \in 1..size
          BY <1>2, <5>1
        <5>3. QED  BY <1>5, <4>1, <4>2, <5>2
      <4>3. n \in 1..(size + 1) /\ entries'[n].by = {v}
        BY <1>2, <1>5, <4>1
      <4>4. QED  BY <4>2, <4>3
    <3>3. QED  BY <3>1, <3>2
  <2>2. QED  BY <1>5, <2>1 DEF WritersHaveEntries
<1>15. ChangesAreSound'
  <2>1. ASSUME NEW v \in IncidentWorkers, Changes(v)'
        PROVE  changing'[v].previous # changing'[v].new /\ changing'[v].new # NoStatus
    BY <1>7, <1>8, <2>1 DEF HistoryInv, ChangesAreSound
  <2>2. QED  BY <2>1 DEF ChangesAreSound
<1>16. StatusesWereHad'
  <2>1. /\ incidentStatus \in Had
        /\ \A n \in Committed : entries[n].previous \in Had /\ entries[n].previous # entries[n].new
        /\ \A v \in IncidentWorkers : Changes(v) => changing[v].previous \in Had
    BY <1>1 DEF HistoryInv, StatusesWereHad
  <2>2. ASSUME NEW v \in IncidentWorkers, Changes(v)' PROVE changing'[v].previous \in Had
    BY <1>7, <1>8, <2>1, <2>2
  <2>3. \A n \in Committed : entries'[n].previous \in Had /\ entries'[n].previous # entries'[n].new
    BY <1>10, <2>1
  <2>4. QED  BY <1>1, <1>9, <1>11, <2>1, <2>2, <2>3 DEF StatusesWereHad
\* While changes do not overlap, nobody else is between the two statements.
<1>17. ASSUME ~ crossed
       PROVE  /\ \A n \in 1..size : entries[n].by = {}
              /\ \A v \in IncidentWorkers : Changes(v) => v = w
  <2>1. \A v \in IncidentWorkers : Changes(v) => v = w
    BY <1>1, <1>17 DEF HistoryInv, OneByOne, Changes, h
  <2>2. ASSUME NEW n \in 1..size, entries[n].by # {} PROVE FALSE
    <3>1. PICK v \in IncidentWorkers : changing[v].step = "update"
      BY <1>2, <2>2 DEF HistoryInv, EntriesHaveWriters
    <3>2. v = w
      BY <2>1, <3>1 DEF Changes
    <3>3. QED  BY <1>1, <3>1, <3>2 DEF h
  <2>3. QED  BY <2>1, <2>2
<1>18. OneByOne'
  <2>1. ASSUME ~ crossed, NEW u \in IncidentWorkers, NEW v \in IncidentWorkers,
               Changes(u)', Changes(v)'
        PROVE  u = v
    BY <1>7, <1>17, <2>1
  <2>2. ASSUME ~ crossed, NEW n \in 1..(size + 1), n # size + 1 PROVE entries'[n].by = {}
    <3>1. n \in 1..size
      BY <1>2, <2>2
    <3>2. QED  BY <1>5, <1>17, <2>2, <3>1
  <2>3. QED  BY <1>1, <1>5, <2>1, <2>2 DEF OneByOne
<1>19. EntriesChain'
  <2> SUFFICES ASSUME ~ crossed
               PROVE  /\ \A n \in 1..(size + 1) :
                            entries'[n].previous =
                               IF n = 1 THEN firstStatus ELSE entries'[n - 1].new
                      /\ incidentStatus = entries'[size + 1].previous
                      /\ entries'[size + 1].by # {} /\ entries' # <<>>
                      /\ \A v \in IncidentWorkers :
                            Changes(v)' => changing'[v].previous = incidentStatus
    BY <1>1, <1>5 DEF EntriesChain
  <2>1. /\ \A n \in 1..size :
              entries[n].previous = IF n = 1 THEN firstStatus ELSE entries[n - 1].new
        /\ incidentStatus =
              IF entries = <<>> THEN firstStatus
              ELSE IF entries[size].by = {} THEN entries[size].new
              ELSE entries[size].previous
        /\ \A v \in IncidentWorkers : Changes(v) => changing[v].previous = incidentStatus
    BY <1>1, <1>2 DEF HistoryInv, EntriesChain, size
  <2>2. \A v \in IncidentWorkers : Changes(v)' => changing'[v].previous = incidentStatus
    BY <1>7, <1>8, <2>1
  <2>3. e.previous = incidentStatus
    BY <1>1, <1>4, <2>1 DEF Changes, h
  <2>4. incidentStatus = IF size = 0 THEN firstStatus ELSE entries[size].new
    <3>1. entries = <<>> <=> size = 0
      BY <1>2 DEF size
    <3>2. CASE size = 0
      BY <2>1, <3>1, <3>2
    <3>3. CASE size # 0
      <4>1. size \in 1..size
        BY <1>2, <3>3
      <4>2. QED  BY <1>17, <2>1, <3>1, <3>3, <4>1
    <3>4. QED  BY <3>2, <3>3
  <2>5. ASSUME NEW n \in 1..(size + 1)
        PROVE  entries'[n].previous = IF n = 1 THEN firstStatus ELSE entries'[n - 1].new
    <3>1. CASE n = size + 1
      <4>1. CASE size = 0
        BY <1>5, <2>3, <2>4, <3>1, <4>1
      <4>2. CASE size # 0
        <5>1. n # 1 /\ n - 1 = size /\ size \in 1..size
          BY <1>2, <3>1, <4>2
        <5>2. QED  BY <1>5, <2>3, <2>4, <3>1, <4>2, <5>1
      <4>3. QED  BY <4>1, <4>2
    <3>2. CASE n # size + 1
      <4>1. n \in 1..size /\ (n # 1 => n - 1 \in 1..size)
        BY <1>2, <3>2
      <4>2. QED  BY <1>5, <2>1, <4>1
    <3>3. QED  BY <3>1, <3>2
  <2>6. entries' # <<>>
    BY <1>1, <1>2, <1>4 DEF size
  <2>7. QED  BY <1>4, <1>5, <2>2, <2>3, <2>5, <2>6
<1>20. QED
  BY <1>12, <1>13, <1>14, <1>15, <1>16, <1>18, <1>19 DEF HistoryInv

LEMMA UpdateStatusKeepsHistory ==
    ASSUME HistoryInv, NEW w \in IncidentWorkers, UpdateStatus(w)
    PROVE  HistoryInv'
<1> DEFINE h == changing[w]
           size == Len(entries)
<1>1. /\ h.step = "update"
      /\ incidentStatus' = h.new
      /\ entries' = [n \in DOMAIN entries |->
            IF entries[n].by = {w} THEN [entries[n] EXCEPT !.by = {}] ELSE entries[n]]
      /\ changing' = [changing EXCEPT ![w] = NoChange]
      /\ UNCHANGED <<firstStatus, crossed>>
  BY DEF UpdateStatus
<1>2. /\ firstStatus \in IncidentStatuses /\ incidentStatus \in IncidentStatuses
      /\ entries \in Seq(EntryRecords)
      /\ size \in Nat /\ DOMAIN entries = 1..size
      /\ changing \in [IncidentWorkers -> ChangeRecords]
      /\ crossed \in BOOLEAN
      /\ \A v \in IncidentWorkers : ~ Changes(v) => changing[v] = NoChange
  BY HistoryFacts
<1>3. /\ h \in ChangeRecords /\ h.new \in IncidentStatuses
      /\ h.previous # h.new /\ h.new # NoStatus
  BY <1>1, <1>2 DEF ChangeRecords, HistoryInv, ChangesAreSound, Changes
<1>4. /\ changing'[w] = NoChange
      /\ \A v \in IncidentWorkers : v # w => changing'[v] = changing[v]
      /\ changing' \in [IncidentWorkers -> ChangeRecords]
  BY <1>1, <1>2, NoChangeIsIdle
<1>5. /\ Changes(w) /\ ~ Changes(w)'
      /\ \A v \in IncidentWorkers : v # w => (Changes(v)' <=> Changes(v))
  BY <1>1, <1>4, NoChangeIsIdle DEF Changes
<1> HIDE DEF size
<1>6. PICK k \in 1..size :
         /\ entries[k].by = {w}
         /\ \A m \in 1..size : entries[m].by = {w} => m = k
  BY <1>1, <1>2 DEF HistoryInv, WritersHaveEntries
<1>7. entries[k] = Entry(h.previous, h.new, w)
  <2>1. PICK v \in IncidentWorkers :
           /\ changing[v].step = "update"
           /\ entries[k] = Entry(changing[v].previous, changing[v].new, v)
    BY <1>2, <1>6 DEF HistoryInv, EntriesHaveWriters
  <2>2. v = w
    BY <1>6, <2>1 DEF Entry
  <2>3. QED  BY <2>1, <2>2
<1>8. IncidentExists /\ IncidentExists'
  <2>1. entries # <<>>
    BY <1>2, <1>6 DEF size
  <2>2. QED  BY <1>1, <1>3, <2>1 DEF HistoryInv, StatusesWereHad, IncidentExists
<1>9. /\ DOMAIN entries' = 1..size
      /\ entries'[k] = [entries[k] EXCEPT !.by = {}]
      /\ \A n \in 1..size : n # k => entries'[n] = entries[n]
  BY <1>1, <1>2, <1>6
<1>10. /\ entries' \in Seq(EntryRecords) /\ Len(entries)' = size
       /\ entries'[k].by = {} /\ entries'[k].previous = h.previous /\ entries'[k].new = h.new
  <2>1. \A n \in 1..size : entries[n] \in EntryRecords
    BY <1>2 DEF size
  <2>2. [entries[k] EXCEPT !.by = {}] \in EntryRecords
    BY <1>6, <2>1 DEF EntryRecords
  <2>3. entries' \in [1..size -> EntryRecords]
    BY <1>1, <1>2, <1>6, <1>9, <2>1, <2>2
  <2>4. entries' \in Seq(EntryRecords) /\ Len(entries)' = size
    BY <1>2, <2>3
  <2>5. QED  BY <1>7, <1>9, <2>4 DEF Entry
<1>11. \A n \in 1..size :
          entries'[n].previous = entries[n].previous /\ entries'[n].new = entries[n].new
  BY <1>7, <1>9, <1>10 DEF Entry
<1> HIDE DEF h
<1>12. Committed' = Committed \cup {k} /\ k \notin Committed /\ Committed \subseteq 1..size
  <2>1. k \notin Committed /\ Committed \subseteq 1..size
    BY <1>2, <1>6 DEF Committed
  <2>2. ASSUME NEW n \in Committed' PROVE n \in Committed \cup {k}
    <3>1. n \in 1..size /\ entries'[n].by = {}
      BY <1>9, <2>2 DEF Committed
    <3>2. CASE n # k
      BY <1>2, <1>9, <3>1, <3>2 DEF Committed
    <3>3. QED  BY <3>2
  <2>3. ASSUME NEW n \in Committed PROVE n \in Committed'
    <3>1. n \in 1..size /\ n # k /\ entries[n].by = {}
      BY <2>1, <2>3 DEF Committed
    <3>2. QED  BY <1>9, <3>1 DEF Committed
  <2>4. k \in Committed'
    BY <1>9, <1>10 DEF Committed
  <2>5. QED  BY <2>1, <2>2, <2>3, <2>4
<1>13. Had' = Had \cup {h.new}
  <2>1. ASSUME NEW s \in Had' PROVE s \in Had \cup {h.new}
    <3>1. CASE s = firstStatus
      BY <3>1 DEF Had
    <3>2. ASSUME NEW n \in Committed', s = entries'[n].new PROVE s \in Had \cup {h.new}
      BY <1>10, <1>11, <1>12, <3>2 DEF Had
    <3>3. QED  BY <1>1, <2>1, <3>1, <3>2 DEF Had
  <2>2. ASSUME NEW s \in Had PROVE s \in Had'
    <3>1. CASE s = firstStatus
      BY <1>1, <3>1 DEF Had
    <3>2. ASSUME NEW n \in Committed, s = entries[n].new PROVE s \in Had'
      BY <1>11, <1>12, <3>2 DEF Had
    <3>3. QED  BY <2>2, <3>1, <3>2 DEF Had
  <2>3. h.new \in Had'
    BY <1>10, <1>12 DEF Had
  <2>4. QED  BY <2>1, <2>2, <2>3
<1>14. HistoryTypeOK'
  <2>1. ASSUME NEW v \in IncidentWorkers, ~ Changes(v)' PROVE changing'[v] = NoChange
    BY <1>2, <1>4, <1>5, <2>1
  <2>2. QED  BY <1>1, <1>2, <1>3, <1>4, <1>10, <2>1 DEF HistoryTypeOK
<1>15. EntriesHaveWriters'
  <2>1. ASSUME NEW n \in 1..size, entries'[n].by # {}
        PROVE  \E v \in IncidentWorkers :
                  /\ changing'[v].step = "update"
                  /\ entries'[n] = Entry(changing'[v].previous, changing'[v].new, v)
    <3>1. n # k /\ entries'[n] = entries[n]
      BY <1>9, <1>10, <2>1
    <3>2. PICK v \in IncidentWorkers :
             /\ changing[v].step = "update"
             /\ entries[n] = Entry(changing[v].previous, changing[v].new, v)
      BY <1>2, <2>1, <3>1 DEF HistoryInv, EntriesHaveWriters
    <3>3. v # w
      BY <1>6, <3>1, <3>2 DEF Entry
    <3>4. QED  BY <1>4, <3>1, <3>2, <3>3
  <2>2. QED  BY <1>9, <2>1 DEF EntriesHaveWriters, Entry
<1>16. WritersHaveEntries'
  <2>1. ASSUME NEW v \in IncidentWorkers, changing'[v].step = "update"
        PROVE  \E n \in 1..size :
                  /\ entries'[n].by = {v}
                  /\ \A m \in 1..size : entries'[m].by = {v} => m = n
    <3>1. v # w /\ changing[v].step = "update"
      BY <1>4, <2>1, NoChangeIsIdle
    <3>2. PICK n \in 1..size :
             /\ entries[n].by = {v}
             /\ \A m \in 1..size : entries[m].by = {v} => m = n
      BY <1>2, <3>1 DEF HistoryInv, WritersHaveEntries
    <3>3. n # k
      BY <1>6, <3>1, <3>2
    <3>4. entries'[n].by = {v}
      BY <1>9, <3>2, <3>3
    <3>5. ASSUME NEW m \in 1..size, entries'[m].by = {v} PROVE m = n
      <4>1. m # k
        BY <1>10, <3>5
      <4>2. QED  BY <1>9, <3>2, <3>5, <4>1
    <3>6. QED  BY <3>4, <3>5
  <2>2. QED  BY <1>9, <2>1 DEF WritersHaveEntries
<1>17. ChangesAreSound'
  <2>1. ASSUME NEW v \in IncidentWorkers, Changes(v)'
        PROVE  changing'[v].previous # changing'[v].new /\ changing'[v].new # NoStatus
    BY <1>4, <1>5, <2>1 DEF HistoryInv, ChangesAreSound
  <2>2. QED  BY <2>1 DEF ChangesAreSound
<1>18. StatusesWereHad'
  <2>1. /\ \A n \in Committed : entries[n].previous \in Had /\ entries[n].previous # entries[n].new
        /\ \A v \in IncidentWorkers : Changes(v) => changing[v].previous \in Had
    BY <1>8 DEF HistoryInv, StatusesWereHad
  <2>2. ASSUME NEW v \in IncidentWorkers, Changes(v)' PROVE changing'[v].previous \in Had'
    BY <1>4, <1>5, <1>13, <2>1, <2>2
  <2>3. ASSUME NEW n \in Committed'
        PROVE  entries'[n].previous \in Had' /\ entries'[n].previous # entries'[n].new
    <3>1. CASE n = k
      <4>1. h.previous \in Had
        BY <1>5, <2>1 DEF h
      <4>2. QED  BY <1>3, <1>10, <1>13, <3>1, <4>1 DEF h
    <3>2. CASE n # k
      BY <1>11, <1>12, <1>13, <2>1, <3>2
    <3>3. QED  BY <3>1, <3>2
  <2>4. incidentStatus' \in Had'
    BY <1>1, <1>13
  <2>5. QED  BY <1>8, <2>2, <2>3, <2>4 DEF StatusesWereHad
<1>19. OneByOne'
  <2>1. ASSUME ~ crossed, NEW u \in IncidentWorkers, NEW v \in IncidentWorkers,
               Changes(u)', Changes(v)'
        PROVE  u = v
    BY <1>5, <2>1 DEF HistoryInv, OneByOne
  <2>2. ASSUME ~ crossed, NEW n \in 1..size, n # size PROVE entries'[n].by = {}
    BY <1>2, <1>9, <1>10, <2>2 DEF HistoryInv, OneByOne, size
  <2>3. QED  BY <1>1, <1>9, <1>10, <2>1, <2>2 DEF OneByOne
<1>20. EntriesChain'
  <2> SUFFICES ASSUME ~ crossed
               PROVE  /\ \A n \in 1..size :
                            entries'[n].previous =
                               IF n = 1 THEN firstStatus ELSE entries'[n - 1].new
                      /\ incidentStatus' = entries'[size].new
                      /\ entries'[size].by = {} /\ entries' # <<>>
                      /\ \A v \in IncidentWorkers : ~ Changes(v)'
    <3>1. /\ firstStatus' = firstStatus /\ crossed' = crossed
          /\ DOMAIN entries' = 1..size /\ Len(entries') = size
      BY <1>1, <1>9, <1>10
    <3>2. QED  BY <3>1 DEF EntriesChain
  <2>1. \A n \in 1..size :
              entries[n].previous = IF n = 1 THEN firstStatus ELSE entries[n - 1].new
    BY <1>2, <1>8 DEF HistoryInv, EntriesChain, size
  <2>2. k = size
    BY <1>2, <1>6 DEF HistoryInv, OneByOne, size
  <2>3. incidentStatus' = entries'[size].new /\ entries'[size].by = {}
    BY <1>1, <1>10, <2>2
  <2>4. \A v \in IncidentWorkers : ~ Changes(v)'
    BY <1>5 DEF HistoryInv, OneByOne
  <2>5. ASSUME NEW n \in 1..size
        PROVE  entries'[n].previous = IF n = 1 THEN firstStatus ELSE entries'[n - 1].new
    <3>1. n # 1 => n - 1 \in 1..size
      BY <1>2
    <3>2. QED  BY <1>11, <2>1, <3>1
  <2>6. entries' # <<>>
    <3>1. Len(entries') # 0
      BY <1>2, <1>6, <1>10
    <3>2. QED  BY <3>1
  <2>7. QED  BY <2>3, <2>4, <2>5, <2>6
<1>21. QED
  BY <1>14, <1>15, <1>16, <1>17, <1>18, <1>19, <1>20 DEF HistoryInv

\* A sequence without its k-th element.
LEMMA Removed ==
    ASSUME NEW S, NEW s \in Seq(S), NEW k \in 1..Len(s), NEW t,
           t = SubSeq(s, 1, k - 1) \o SubSeq(s, k + 1, Len(s))
    PROVE  /\ t \in Seq(S)
           /\ Len(t) = Len(s) - 1
           /\ \A i \in 1..(Len(s) - 1) : t[i] = IF i < k THEN s[i] ELSE s[i + 1]
<1> DEFINE a == SubSeq(s, 1, k - 1)
           b == SubSeq(s, k + 1, Len(s))
<1>1. Len(s) \in Nat /\ k \in Nat /\ 1 <= k /\ k <= Len(s)
  OBVIOUS
<1>2. a \in Seq(S) /\ Len(a) = k - 1 /\ \A i \in 1..(k - 1) : a[i] = s[i]
  <2>1. \A i \in 1..(k - 1) : i \in 1..Len(s) /\ s[i] \in S
    BY <1>1
  <2>2. QED  BY <1>1, <2>1
<1>3. b \in Seq(S) /\ Len(b) = Len(s) - k /\ \A i \in 1..(Len(s) - k) : b[i] = s[k + i]
  <2>1. \A i \in (k + 1)..Len(s) : i \in 1..Len(s) /\ s[i] \in S
    BY <1>1
  <2>2. QED  BY <1>1, <2>1
<1> HIDE DEF a, b
<1>4. t = a \o b
  BY DEF a, b
<1>5. t \in Seq(S) /\ Len(t) = Len(a) + Len(b)
      /\ \A i \in 1..(Len(a) + Len(b)) : t[i] = IF i <= Len(a) THEN a[i] ELSE b[i - Len(a)]
  <2>1. a \in Seq(S) /\ b \in Seq(S)
    BY <1>2, <1>3
  <2>2. QED  BY ONLY <1>4, <2>1
<1>6. Len(t) = Len(s) - 1
  <2>1. Len(a) = k - 1 /\ Len(b) = Len(s) - k /\ Len(t) = Len(a) + Len(b)
    BY <1>2, <1>3, <1>5
  <2>2. QED  BY ONLY <1>1, <2>1
<1>7. ASSUME NEW i \in 1..(Len(s) - 1) PROVE t[i] = IF i < k THEN s[i] ELSE s[i + 1]
  <2>1. CASE i < k
    <3>1. i \in 1..(k - 1) /\ i <= Len(a) /\ i \in 1..(Len(a) + Len(b))
      BY <1>1, <1>2, <1>3, <2>1
    <3>2. QED  BY <1>2, <1>5, <2>1, <3>1
  <2>2. CASE ~ (i < k)
    <3>1. /\ ~ (i <= Len(a)) /\ i \in 1..(Len(a) + Len(b))
          /\ i - Len(a) = i - k + 1 /\ i - k + 1 \in 1..(Len(s) - k)
          /\ k + (i - k + 1) = i + 1
      BY <1>1, <1>2, <1>3, <2>2
    <3>2. QED  BY <1>3, <1>5, <2>2, <3>1
  <2>3. QED  BY <2>1, <2>2
<1>8. QED  BY <1>5, <1>6, <1>7

\* It dies before its first statement.
LEMMA DyingEarlyKeepsHistory ==
    ASSUME HistoryInv, NEW w \in IncidentWorkers,
           changing[w].step = "insert", entries' = entries,
           changing' = [changing EXCEPT ![w] = NoChange],
           UNCHANGED <<firstStatus, incidentStatus, crossed>>
    PROVE  HistoryInv'
<1>1. /\ firstStatus \in IncidentStatuses /\ incidentStatus \in IncidentStatuses
      /\ entries \in Seq(EntryRecords)
      /\ changing \in [IncidentWorkers -> ChangeRecords]
      /\ crossed \in BOOLEAN
      /\ \A v \in IncidentWorkers : ~ Changes(v) => changing[v] = NoChange
  BY HistoryFacts
<1>2. /\ changing'[w] = NoChange
      /\ \A v \in IncidentWorkers : v # w => changing'[v] = changing[v]
      /\ changing' \in [IncidentWorkers -> ChangeRecords]
  BY <1>1, NoChangeIsIdle
<1>3. /\ ~ Changes(w)'
      /\ \A v \in IncidentWorkers : v # w => (Changes(v)' <=> Changes(v))
  BY <1>2, NoChangeIsIdle DEF Changes
<1>4. Committed' = Committed /\ Had' = Had /\ (IncidentExists' <=> IncidentExists)
  BY DEF Committed, Had, IncidentExists
<1>5. HistoryTypeOK'
  <2>1. ASSUME NEW v \in IncidentWorkers, ~ Changes(v)' PROVE changing'[v] = NoChange
    BY <1>1, <1>2, <1>3, <2>1
  <2>2. QED  BY <1>1, <1>2, <2>1 DEF HistoryTypeOK
<1>6. EntriesHaveWriters'
  <2> SUFFICES ASSUME NEW n \in DOMAIN entries, entries[n].by # {}
               PROVE  \E v \in IncidentWorkers :
                          /\ changing'[v].step = "update"
                          /\ entries[n] = Entry(changing'[v].previous, changing'[v].new, v)
    BY DEF EntriesHaveWriters, Entry
  <2>1. PICK v \in IncidentWorkers :
           /\ changing[v].step = "update"
           /\ entries[n] = Entry(changing[v].previous, changing[v].new, v)
    BY DEF HistoryInv, EntriesHaveWriters
  <2>2. v # w
    BY <2>1
  <2>3. QED  BY <1>2, <2>1, <2>2
<1>7. WritersHaveEntries'
  <2>1. \A v \in IncidentWorkers : changing'[v].step = "update" => changing[v].step = "update"
    BY <1>2, NoChangeIsIdle
  <2>2. QED  BY <2>1 DEF HistoryInv, WritersHaveEntries
<1>8. ChangesAreSound'
  <2>1. ASSUME NEW v \in IncidentWorkers, Changes(v)'
        PROVE  changing'[v].previous # changing'[v].new /\ changing'[v].new # NoStatus
    BY <1>2, <1>3, <2>1 DEF HistoryInv, ChangesAreSound
  <2>2. QED  BY <2>1 DEF ChangesAreSound
<1>9. StatusesWereHad'
  <2>1. ASSUME IncidentExists, NEW v \in IncidentWorkers, Changes(v)'
        PROVE  changing'[v].previous \in Had
    BY <1>2, <1>3, <2>1 DEF HistoryInv, StatusesWereHad
  <2>2. QED  BY <1>4, <2>1 DEF HistoryInv, StatusesWereHad
<1>10. OneByOne'
  BY <1>3 DEF HistoryInv, OneByOne
<1>11. EntriesChain'
  <2>1. ASSUME ~ crossed, IncidentExists, NEW v \in IncidentWorkers, Changes(v)'
        PROVE  changing'[v].previous = incidentStatus
    BY <1>2, <1>3, <2>1 DEF HistoryInv, EntriesChain
  <2>2. QED  BY <1>4, <2>1 DEF HistoryInv, EntriesChain
<1>12. QED
  BY <1>5, <1>6, <1>7, <1>8, <1>9, <1>10, <1>11 DEF HistoryInv

\* It dies after its first statement: its entry goes with it.
LEMMA DyingLateKeepsHistory ==
    ASSUME HistoryInv, NEW w \in IncidentWorkers, NEW k \in DOMAIN entries,
           entries[k].by = {w},
           entries' = SubSeq(entries, 1, k - 1) \o SubSeq(entries, k + 1, Len(entries)),
           changing' = [changing EXCEPT ![w] = NoChange],
           UNCHANGED <<firstStatus, incidentStatus, crossed>>
    PROVE  HistoryInv'
<1> DEFINE size == Len(entries)
           at(i) == IF i < k THEN i ELSE i + 1
<1>1. /\ firstStatus \in IncidentStatuses /\ incidentStatus \in IncidentStatuses
      /\ entries \in Seq(EntryRecords)
      /\ size \in Nat /\ DOMAIN entries = 1..size
      /\ changing \in [IncidentWorkers -> ChangeRecords]
      /\ crossed \in BOOLEAN
      /\ \A v \in IncidentWorkers : ~ Changes(v) => changing[v] = NoChange
  BY HistoryFacts
<1>2. /\ changing'[w] = NoChange
      /\ \A v \in IncidentWorkers : v # w => changing'[v] = changing[v]
      /\ changing' \in [IncidentWorkers -> ChangeRecords]
  BY <1>1, NoChangeIsIdle
<1>3. changing[w].step = "update"
  <2>1. PICK v \in IncidentWorkers :
           /\ changing[v].step = "update"
           /\ entries[k] = Entry(changing[v].previous, changing[v].new, v)
    BY DEF HistoryInv, EntriesHaveWriters
  <2>2. entries[k].by = {v}
    BY ONLY <2>1 DEF Entry
  <2>3. v = w
    BY <2>2
  <2>4. QED  BY <2>1, <2>3
<1>4. /\ Changes(w) /\ ~ Changes(w)'
      /\ \A v \in IncidentWorkers : v # w => (Changes(v)' <=> Changes(v))
  BY <1>2, <1>3, NoChangeIsIdle DEF Changes
<1>5. k \in 1..size /\ \A m \in 1..size : entries[m].by = {w} => m = k
  BY <1>1, <1>3 DEF HistoryInv, WritersHaveEntries
<1>6. /\ entries' \in Seq(EntryRecords)
      /\ Len(entries') = size - 1 /\ size - 1 \in Nat
      /\ \A i \in 1..(size - 1) : entries'[i] = entries[at(i)]
  <2>1. k \in 1..Len(entries)
    BY <1>5
  <2>2. PICK t : t = entries'
    OBVIOUS
  <2>3. t = SubSeq(entries, 1, k - 1) \o SubSeq(entries, k + 1, Len(entries))
    BY <2>2
  <2>4. entries \in Seq(EntryRecords)
    BY <1>1
  <2> HIDE DEF at, size
  <2>5. /\ t \in Seq(EntryRecords)
        /\ Len(t) = Len(entries) - 1
        /\ \A i \in 1..(Len(entries) - 1) : t[i] = IF i < k THEN entries[i] ELSE entries[i + 1]
    BY ONLY <2>1, <2>3, <2>4, Removed, ZenonT(30)
  <2>6. \A i \in 1..(size - 1) : t[i] = entries[at(i)]
    BY <2>5 DEF at, size
  <2>7. size \in Nat /\ size - 1 \in Nat
    BY <1>1, <1>5 DEF size
  <2>8. QED  BY <2>2, <2>5, <2>6, <2>7 DEF size
<1> HIDE DEF size
<1>7. DOMAIN entries' = 1..(size - 1)
  BY <1>6
<1>8. \A i \in 1..(size - 1) : at(i) \in 1..size /\ at(i) # k
  BY <1>1, <1>5
<1>9. \A j \in 1..size : j # k => \E i \in 1..(size - 1) : at(i) = j
  <2>1. ASSUME NEW j \in 1..size, j # k PROVE \E i \in 1..(size - 1) : at(i) = j
    <3>1. CASE j < k
      <4>1. j \in 1..(size - 1) /\ at(j) = j
        BY <1>1, <1>5, <3>1
      <4>2. QED  BY <4>1
    <3>2. CASE ~ (j < k)
      <4>1. j - 1 \in 1..(size - 1) /\ at(j - 1) = j
        BY <1>1, <1>5, <2>1, <3>2
      <4>2. QED  BY <4>1
    <3>3. QED  BY <3>1, <3>2
  <2>2. QED  BY <2>1
<1>10. \A i, j \in 1..(size - 1) : at(i) = at(j) => i = j
  BY <1>1, <1>5
<1> HIDE DEF at
<1>11. \A i \in 1..(size - 1) : i \in Committed' <=> at(i) \in Committed
  BY <1>1, <1>6, <1>7, <1>8 DEF Committed
<1>12. Committed' \subseteq 1..(size - 1)
  BY <1>7 DEF Committed
<1>13. \A j \in Committed : \E i \in Committed' : at(i) = j
  <2>1. ASSUME NEW j \in Committed PROVE \E i \in Committed' : at(i) = j
    <3>1. j \in 1..size /\ j # k
      BY <1>1, <2>1 DEF Committed
    <3>2. PICK i \in 1..(size - 1) : at(i) = j
      BY <1>9, <3>1
    <3>3. QED  BY <1>11, <2>1, <3>2
  <2>2. QED  BY <2>1
<1>14. Had' = Had /\ IncidentExists /\ IncidentExists'
  <2>1. ASSUME NEW i \in Committed' PROVE entries'[i].new \in Had
    <3>1. entries'[i] = entries[at(i)] /\ at(i) \in Committed
      BY <1>6, <1>11, <1>12, <2>1
    <3>2. QED  BY <3>1 DEF Had
  <2>2. ASSUME NEW j \in Committed PROVE entries[j].new \in Had'
    <3>1. PICK i \in Committed' : at(i) = j
      BY <1>13
    <3>2. entries'[i] = entries[j]
      BY <1>6, <1>12, <3>1
    <3>3. QED  BY <3>2 DEF Had
  <2>3. \A s \in Had' : s \in Had
    BY <2>1 DEF Had
  <2>4. \A s \in Had : s \in Had'
    BY <2>2 DEF Had
  <2>5. entries # <<>>
    BY <1>5 DEF size
  <2>6. QED  BY <2>3, <2>4, <2>5 DEF HistoryInv, StatusesWereHad, IncidentExists
<1>15. HistoryTypeOK'
  <2>1. ASSUME NEW v \in IncidentWorkers, ~ Changes(v)' PROVE changing'[v] = NoChange
    BY <1>1, <1>2, <1>4, <2>1
  <2>2. QED  BY <1>1, <1>2, <1>6, <2>1 DEF HistoryTypeOK
<1>16. EntriesHaveWriters'
  <2>1. ASSUME NEW i \in 1..(size - 1), entries'[i].by # {}
        PROVE  \E v \in IncidentWorkers :
                  /\ changing'[v].step = "update"
                  /\ entries'[i] = Entry(changing'[v].previous, changing'[v].new, v)
    <3>1. PICK j \in 1..size : j = at(i) /\ j # k /\ entries'[i] = entries[j]
      BY <1>6, <1>8
    <3>2. PICK v \in IncidentWorkers :
             /\ changing[v].step = "update"
             /\ entries[j] = Entry(changing[v].previous, changing[v].new, v)
      BY <1>1, <2>1, <3>1 DEF HistoryInv, EntriesHaveWriters
    <3>3. entries[j].by = {v}
      BY <3>2 DEF Entry
    <3>4. v # w
      BY <1>5, <3>1, <3>3
    <3>5. QED  BY <1>2, <3>1, <3>2, <3>4
  <2>2. QED  BY <1>7, <2>1 DEF EntriesHaveWriters, Entry
<1>17. WritersHaveEntries'
  <2>1. ASSUME NEW v \in IncidentWorkers, changing'[v].step = "update"
        PROVE  \E i \in 1..(size - 1) :
                  /\ entries'[i].by = {v}
                  /\ \A m \in 1..(size - 1) : entries'[m].by = {v} => m = i
    <3>1. v # w /\ changing[v].step = "update"
      BY <1>2, <2>1, NoChangeIsIdle
    <3>2. PICK j \in 1..size :
             /\ entries[j].by = {v}
             /\ \A m \in 1..size : entries[m].by = {v} => m = j
      BY <1>1, <3>1 DEF HistoryInv, WritersHaveEntries
    <3>3. j # k
      BY <3>1, <3>2
    <3>4. PICK i \in 1..(size - 1) : at(i) = j
      BY <1>9, <3>3
    <3>5. entries'[i].by = {v}
      BY <1>6, <3>2, <3>4
    <3>6. ASSUME NEW m \in 1..(size - 1), entries'[m].by = {v} PROVE m = i
      <4>1. at(m) \in 1..size /\ entries[at(m)].by = {v}
        BY <1>6, <1>8, <3>6
      <4>2. at(m) = at(i)
        BY <3>2, <3>4, <4>1
      <4>3. QED  BY <1>10, <4>2
    <3>7. QED  BY <3>5, <3>6
  <2> HIDE DEF at
  <2>2. \A v \in IncidentWorkers : changing'[v].step = "update" =>
           \E i \in DOMAIN entries' :
              /\ entries'[i].by = {v}
              /\ \A m \in DOMAIN entries' : entries'[m].by = {v} => m = i
    <3> DEFINE D == 1..(size - 1)
    <3>1. DOMAIN entries' = D
      BY <1>7
    <3>2. ASSUME NEW v \in IncidentWorkers, changing'[v].step = "update"
          PROVE  \E i \in D : /\ entries'[i].by = {v}
                              /\ \A m \in D : entries'[m].by = {v} => m = i
      BY <2>1, <3>2
    <3> HIDE DEF D
    <3>3. QED  BY <3>1, <3>2
  <2>3. QED  BY <2>2 DEF WritersHaveEntries
<1>18. ChangesAreSound'
  <2>1. ASSUME NEW v \in IncidentWorkers, Changes(v)'
        PROVE  changing'[v].previous # changing'[v].new /\ changing'[v].new # NoStatus
    BY <1>2, <1>4, <2>1 DEF HistoryInv, ChangesAreSound
  <2>2. QED  BY <2>1 DEF ChangesAreSound
<1>19. StatusesWereHad'
  <2>1. /\ incidentStatus \in Had
        /\ \A n \in Committed : entries[n].previous \in Had /\ entries[n].previous # entries[n].new
        /\ \A v \in IncidentWorkers : Changes(v) => changing[v].previous \in Had
    BY <1>14 DEF HistoryInv, StatusesWereHad
  <2>2. ASSUME NEW v \in IncidentWorkers, Changes(v)' PROVE changing'[v].previous \in Had
    BY <1>2, <1>4, <2>1, <2>2
  <2>3. ASSUME NEW i \in Committed'
        PROVE  entries'[i].previous \in Had /\ entries'[i].previous # entries'[i].new
    <3>1. entries'[i] = entries[at(i)] /\ at(i) \in Committed
      BY <1>6, <1>11, <1>12, <2>3
    <3>2. QED  BY <2>1, <3>1
  <2>4. QED  BY <1>14, <2>1, <2>2, <2>3 DEF StatusesWereHad
\* While changes do not overlap it is the last entry that goes.
<1>20. ASSUME ~ crossed
       PROVE  /\ k = size
              /\ \A n \in 1..(size - 1) : entries'[n] = entries[n] /\ entries'[n].by = {}
              /\ \A v \in IncidentWorkers : Changes(v) => v = w
  <2>1. k = size
    BY <1>1, <1>5, <1>20 DEF HistoryInv, OneByOne, size
  <2>2. ASSUME NEW n \in 1..(size - 1) PROVE entries'[n] = entries[n] /\ entries'[n].by = {}
    <3>1. at(n) = n
      BY <1>1, <2>1, <2>2 DEF at
    <3>2. n \in 1..size /\ n # size
      BY <1>1, <2>2
    <3>3. entries[n].by = {}
      BY <1>1, <1>20, <3>2 DEF HistoryInv, OneByOne, size
    <3>4. QED  BY <1>6, <3>1, <3>3
  <2>3. \A v \in IncidentWorkers : Changes(v) => v = w
    BY <1>4, <1>20 DEF HistoryInv, OneByOne
  <2>4. QED  BY <2>1, <2>2, <2>3
<1>21. OneByOne'
  <2>1. ASSUME ~ crossed, NEW u \in IncidentWorkers, NEW v \in IncidentWorkers,
               Changes(u)', Changes(v)'
        PROVE  u = v
    BY <1>4, <1>20, <2>1
  <2>2. ASSUME ~ crossed, NEW n \in 1..(size - 1) PROVE entries'[n].by = {}
    BY <1>20, <2>2
  <2>3. QED  BY <1>7, <2>1, <2>2 DEF OneByOne
<1>22. EntriesChain'
  <2>1. ASSUME ~ crossed
        PROVE  /\ \A n \in 1..(size - 1) :
                     entries'[n].previous = IF n = 1 THEN firstStatus ELSE entries'[n - 1].new
               /\ incidentStatus =
                     IF entries' = <<>> THEN firstStatus
                     ELSE IF entries'[size - 1].by = {} THEN entries'[size - 1].new
                     ELSE entries'[size - 1].previous
               /\ \A v \in IncidentWorkers : ~ Changes(v)'
    <3>1. /\ \A n \in 1..size :
                entries[n].previous = IF n = 1 THEN firstStatus ELSE entries[n - 1].new
          /\ incidentStatus =
                IF entries = <<>> THEN firstStatus
                ELSE IF entries[size].by = {} THEN entries[size].new
                ELSE entries[size].previous
      BY <1>1, <1>14, <2>1 DEF HistoryInv, EntriesChain, size
    <3>2. ASSUME NEW n \in 1..(size - 1)
          PROVE  entries'[n].previous = IF n = 1 THEN firstStatus ELSE entries'[n - 1].new
      <4>1. n \in 1..size /\ (n # 1 => n - 1 \in 1..(size - 1))
        BY <1>1, <3>2
      <4>2. QED  BY <1>20, <2>1, <3>1, <4>1
    <3>3. size \in 1..size /\ entries # <<>>
      BY <1>1, <1>5 DEF size
    <3>4. entries[size].by # {}
      BY <1>5, <1>20, <2>1
    <3>5. incidentStatus = IF size = 1 THEN firstStatus ELSE entries[size - 1].new
      BY <3>1, <3>3, <3>4
    <3>6. entries' = <<>> <=> size = 1
      <4>1. Len(entries') = size - 1 /\ size \in Nat
        BY <1>1, <1>6
      <4>2. entries' = <<>> <=> Len(entries') = 0
        BY <1>6
      <4>3. QED  BY ONLY <4>1, <4>2
    <3>7. size # 1 => /\ entries'[size - 1].by = {}
                      /\ entries'[size - 1].new = entries[size - 1].new
      <4>1. SUFFICES ASSUME size # 1 PROVE size - 1 \in 1..(size - 1)
        BY <1>20, <2>1
      <4>2. QED  BY <1>1, <1>5, <4>1
    <3>8. \A v \in IncidentWorkers : ~ Changes(v)'
      BY <1>4, <1>20, <2>1
    <3>9. QED  BY <3>2, <3>5, <3>6, <3>7, <3>8
  <2>2. QED  BY <1>6, <1>7, <2>1 DEF EntriesChain
<1>23. QED
  BY <1>15, <1>16, <1>17, <1>18, <1>19, <1>21, <1>22 DEF HistoryInv

LEMMA ChangeDiesKeepsHistory ==
    ASSUME HistoryInv, NEW w \in IncidentWorkers, ChangeDies(w)
    PROVE  HistoryInv'
<1>1. /\ changing' = [changing EXCEPT ![w] = NoChange]
      /\ UNCHANGED <<firstStatus, incidentStatus, crossed>>
  BY DEF ChangeDies
<1>2. CASE changing[w].step = "insert" /\ entries' = entries
  BY <1>1, <1>2, DyingEarlyKeepsHistory
<1>3. ASSUME NEW k \in DOMAIN entries, entries[k].by = {w},
             entries' = SubSeq(entries, 1, k - 1) \o SubSeq(entries, k + 1, Len(entries))
      PROVE  HistoryInv'
  BY <1>1, <1>3, DyingLateKeepsHistory
<1>4. QED  BY <1>2, <1>3 DEF ChangeDies

\* What is left of a deleted incident is nothing.
LEMMA DeleteIncidentKeepsHistory ==
    ASSUME HistoryInv, DeleteIncident
    PROVE  HistoryInv'
<1>1. /\ \A w \in IncidentWorkers : changing[w].step # "update"
      /\ incidentStatus' = NoStatus /\ entries' = <<>>
      /\ UNCHANGED <<firstStatus, changing, crossed>>
  BY DEF DeleteIncident
<1>2. /\ firstStatus \in IncidentStatuses
      /\ changing \in [IncidentWorkers -> ChangeRecords]
      /\ crossed \in BOOLEAN
      /\ \A v \in IncidentWorkers : ~ Changes(v) => changing[v] = NoChange
  BY HistoryFacts
<1>3. ~ IncidentExists' /\ DOMAIN entries' = {}
  BY <1>1 DEF IncidentExists
<1>4. \A v \in IncidentWorkers : Changes(v)' <=> Changes(v)
  BY <1>1 DEF Changes
<1>5. HistoryTypeOK'
  <2>1. entries' \in Seq(EntryRecords) /\ incidentStatus' \in IncidentStatuses
    BY <1>1 DEF IncidentStatuses
  <2>2. QED  BY <1>1, <1>2, <1>4, <2>1 DEF HistoryTypeOK
<1>6. EntriesHaveWriters' /\ WritersHaveEntries'
  BY <1>1, <1>3 DEF EntriesHaveWriters, WritersHaveEntries
<1>7. ChangesAreSound'
  BY <1>1, <1>4 DEF HistoryInv, ChangesAreSound
<1>8. StatusesWereHad' /\ EntriesChain'
  BY <1>1, <1>3 DEF StatusesWereHad, EntriesChain
<1>9. OneByOne'
  BY <1>1, <1>3, <1>4 DEF HistoryInv, OneByOne
<1>10. QED
  BY <1>5, <1>6, <1>7, <1>8, <1>9 DEF HistoryInv

LEMMA HistoryStep == HistoryInv /\ [IncidentsNext]_incidentVars => HistoryInv'
<1> SUFFICES ASSUME HistoryInv, [IncidentsNext]_incidentVars PROVE HistoryInv'
  OBVIOUS
<1>1. CASE DeleteIncident
  BY <1>1, DeleteIncidentKeepsHistory
<1>2. ASSUME NEW w \in IncidentWorkers, NEW status \in Selectable, StartChange(w, status)
      PROVE  HistoryInv'
  BY <1>2, StartChangeKeepsHistory
<1>3. ASSUME NEW w \in IncidentWorkers, InsertEntry(w) PROVE HistoryInv'
  BY <1>3, InsertEntryKeepsHistory
<1>4. ASSUME NEW w \in IncidentWorkers, UpdateStatus(w) PROVE HistoryInv'
  BY <1>4, UpdateStatusKeepsHistory
<1>5. ASSUME NEW w \in IncidentWorkers, ChangeDies(w) PROVE HistoryInv'
  BY <1>5, ChangeDiesKeepsHistory
<1>6. CASE UNCHANGED incidentVars
  <2>1. UNCHANGED <<firstStatus, incidentStatus, entries, changing, crossed>>
    BY <1>6 DEF incidentVars
  <2>2. Committed' = Committed /\ Had' = Had /\ IncidentExists' = IncidentExists
    BY <2>1 DEF Committed, Had, IncidentExists
  <2>3. \A w \in IncidentWorkers : Changes(w)' <=> Changes(w)
    BY <2>1 DEF Changes
  <2>4. HistoryTypeOK'
    BY <2>1, <2>3 DEF HistoryInv, HistoryTypeOK
  <2>5. EntriesHaveWriters' /\ WritersHaveEntries'
    BY <2>1 DEF HistoryInv, EntriesHaveWriters, WritersHaveEntries, Entry
  <2>6. ChangesAreSound' /\ StatusesWereHad'
    BY <2>1, <2>2, <2>3 DEF HistoryInv, ChangesAreSound, StatusesWereHad
  <2>7. OneByOne' /\ EntriesChain'
    BY <2>1, <2>2, <2>3 DEF HistoryInv, OneByOne, EntriesChain
  <2>8. QED  BY <2>4, <2>5, <2>6, <2>7 DEF HistoryInv
<1>7. QED
  BY <1>1, <1>2, <1>3, <1>4, <1>5, <1>6 DEF IncidentsNext

\* The history of an incident tells how it came to its status, in every
\* run of IncidentsService on it.
THEOREM HistoriesAreTold ==
    IncidentsInit /\ [][IncidentsNext]_incidentVars => []HistoryTellsTheStatus
  BY HistoryInit, HistoryStep, HistoryIsTold, PTL
=============================================================================
