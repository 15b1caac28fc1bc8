----------------------------- MODULE DonorReports -----------------------------
(***************************************************************************)
(* DonorReportsService: the periodic report of a sponsor is created,       *)
(* generated as a file, generated again at will, and marked as sent, which *)
(* writes a communication to the donor.  Its photos may change, and enter  *)
(* the file once approved, until it is sent.                               *)
(*                                                                         *)
(* A generation takes its time: it reads the report, the donor and the     *)
(* photos, draws, uploads, and then updates the report by id.  Nothing is  *)
(* locked, and a handler may die, or its call fail, before any statement.  *)
(* A handler refused by the checks that follow its first read is not a     *)
(* step.                                                                   *)
(***************************************************************************)
EXTENDS Naturals, FiniteSets

CONSTANTS
    Reports,         \* a donor, a type of period and a period
    Photos,          \* photos of a report
    NoReport,        \* of an idle handler
    ReportWorkers,   \* handlers that may overlap
    MaxFiles         \* bound: files generated

ASSUME ReportsAssumption == NoReport \notin Reports /\ MaxFiles \in Nat

VARIABLES
    donorType,       \* the type of the donor
    report,          \* the row of every report, and those of its photos
    photoFiles,      \* the photos whose file is stored
    communications,  \* history: what each REPORT_SENT communication spoke of
    files,           \* generated files so far
    overlapped,      \* history: reports of which two handlers have overlapped
    reportStep,      \* the next step of every handler
    reporting        \* what it holds in memory

reportVars ==
    <<donorType, report, photoFiles, communications, files, overlapped, reportStep,
      reporting>>

ReportStatuses == {"absent", "DRAFT", "GENERATED", "SENT"}

PhotoStates == {"absent", "uploaded", "approved", "deleted"}

\* A generated file: which one, and the photos in it.
ReportFiles == [number : 0..MaxFiles, photos : SUBSET Photos]

NoFile == [number |-> 0, photos |-> {}]

ReportRows ==
    [status : ReportStatuses, file : ReportFiles, photos : [Photos -> PhotoStates]]

NoRow ==
    [status |-> "absent", file |-> NoFile, photos |-> [p \in Photos |-> "absent"]]

NoReportCall == [report |-> NoReport, photo |-> {}, drawn |-> {}]

Approved(r) == {p \in Photos : report[r].photos[p] = "approved"}

Exists(p, r) == report[r].photos[p] \in {"uploaded", "approved"}

(***************************************************************************)
(* Handlers.                                                               *)
(***************************************************************************)
OthersOn(w, r) ==
    {v \in ReportWorkers \ {w} : reportStep[v] # "idle" /\ reporting[v].report = r}

StartReportCall(w, r, step, photo) ==
    /\ reportStep[w] = "idle"
    /\ reportStep' = [reportStep EXCEPT ![w] = step]
    /\ reporting' = [reporting EXCEPT ![w] = [report |-> r, photo |-> photo, drawn |-> {}]]
    /\ overlapped' = IF OthersOn(w, r) = {} THEN overlapped ELSE overlapped \cup {r}
    /\ UNCHANGED <<donorType, report, photoFiles, communications, files>>

EndReportCall(w) ==
    /\ reportStep' = [reportStep EXCEPT ![w] = "idle"]
    /\ reporting' = [reporting EXCEPT ![w] = NoReportCall]
    /\ UNCHANGED <<donorType, overlapped>>

\* assertParrain; a report for the same donor and period is looked for.
StartCreate(w, r) ==
    /\ donorType = "PARRAIN"
    /\ report[r].status = "absent"
    /\ StartReportCall(w, r, "insert", {})

StartGenerate(w, r) ==
    /\ report[r].status \in {"DRAFT", "GENERATED"}
    /\ StartReportCall(w, r, "check-donor", {})

\* Mutant: a report may be sent again.
StartMarkSentAgain(w, r) ==
    /\ report[r].status \in {"GENERATED", "SENT"}
    /\ StartReportCall(w, r, "send", {})

StartMarkSent(w, r) ==
    /\ report[r].status = "GENERATED"
    /\ StartReportCall(w, r, "send", {})

\* assertMutablePhotos
MutablePhotos(r) == report[r].status \in {"DRAFT", "GENERATED"}

StartUploadPhoto(w, r, p) ==
    /\ MutablePhotos(r)
    /\ report[r].photos[p] = "absent"
    /\ <<r, p>> \notin photoFiles
    /\ StartReportCall(w, r, "upload-photo", {p})

StartApprovePhoto(w, r, p) ==
    /\ MutablePhotos(r)
    /\ Exists(p, r)
    /\ StartReportCall(w, r, "approve-photo", {p})

StartDeletePhoto(w, r, p) ==
    /\ MutablePhotos(r)
    /\ Exists(p, r)
    /\ StartReportCall(w, r, "delete-photo-file", {p})

(***************************************************************************)
(* Statements.  An update of a row that is gone fails, as does the insert  *)
(* of a report that is there by now (its unique key).                      *)
(***************************************************************************)
InsertReport(w) ==
    LET r == reporting[w].report
    IN  /\ reportStep[w] = "insert"
        /\ report' = IF report[r].status = "absent"
                     THEN [report EXCEPT ![r].status = "DRAFT"]
                     ELSE report
        /\ EndReportCall(w)
        /\ UNCHANGED <<photoFiles, communications, files>>

CheckDonor(w) ==
    /\ reportStep[w] = "check-donor"
    /\ IF donorType = "PARRAIN"
       THEN /\ reportStep' = [reportStep EXCEPT ![w] = "build"]
            /\ UNCHANGED <<donorType, overlapped, reporting>>
       ELSE EndReportCall(w)
    /\ UNCHANGED <<report, photoFiles, communications, files>>

Build(w) ==
    /\ reportStep[w] = "build"
    /\ reporting' = [reporting EXCEPT ![w].drawn = Approved(reporting[w].report)]
    /\ reportStep' = [reportStep EXCEPT ![w] = "render"]
    /\ UNCHANGED <<donorType, report, photoFiles, communications, files, overlapped>>

\* The photos are downloaded one by one, then the file is uploaded.
Render(w) ==
    LET h == reporting[w]
    IN  /\ reportStep[w] = "render"
        /\ IF \A p \in h.drawn : <<h.report, p>> \in photoFiles
           THEN /\ reportStep' = [reportStep EXCEPT ![w] = "update"]
                /\ UNCHANGED <<donorType, overlapped, reporting>>
           ELSE EndReportCall(w)
        /\ UNCHANGED <<report, photoFiles, communications, files>>

UpdateReport(w) ==
    LET h == reporting[w]
    IN  /\ reportStep[w] = "update"
        /\ files < MaxFiles
        /\ files' = files + 1
        /\ report' = [report EXCEPT
              ![h.report].status = "GENERATED",
              ![h.report].file = [number |-> files + 1, photos |-> h.drawn]]
        /\ EndReportCall(w)
        /\ UNCHANGED <<photoFiles, communications>>

\* One transaction: the report and its communication.
Send(w) ==
    LET r == reporting[w].report
    IN  /\ reportStep[w] = "send"
        /\ report' = [report EXCEPT ![r].status = "SENT"]
        /\ communications' = [communications EXCEPT ![r] =
              @ \cup {[number |-> Cardinality(@) + 1, file |-> report[r].file,
                       photos |-> report[r].photos]}]
        /\ EndReportCall(w)
        /\ UNCHANGED <<photoFiles, files>>

SetPhoto(w, state) ==
    report' = [report EXCEPT ![reporting[w].report].photos =
                  [p \in Photos |-> IF p \in reporting[w].photo THEN state ELSE @[p]]]

ItsPhoto(w) == {<<reporting[w].report, p>> : p \in reporting[w].photo}

UploadPhoto(w) ==
    /\ reportStep[w] = "upload-photo"
    /\ photoFiles' = photoFiles \cup ItsPhoto(w)
    /\ reportStep' = [reportStep EXCEPT ![w] = "add-photo"]
    /\ UNCHANGED <<donorType, report, communications, files, overlapped, reporting>>

\* Approved at once, if the director said so.
AddPhoto(w) ==
    /\ reportStep[w] = "add-photo"
    /\ \E state \in {"uploaded", "approved"} : SetPhoto(w, state)
    /\ EndReportCall(w)
    /\ UNCHANGED <<photoFiles, communications, files>>

ApprovePhoto(w) ==
    /\ reportStep[w] = "approve-photo"
    /\ IF \A p \in reporting[w].photo : Exists(p, reporting[w].report)
       THEN SetPhoto(w, "approved")
       ELSE UNCHANGED report
    /\ EndReportCall(w)
    /\ UNCHANGED <<photoFiles, communications, files>>

DeletePhotoFile(w) ==
    /\ reportStep[w] = "delete-photo-file"
    /\ photoFiles' = photoFiles \ ItsPhoto(w)
    /\ reportStep' = [reportStep EXCEPT ![w] = "delete-photo"]
    /\ UNCHANGED <<donorType, report, communications, files, overlapped, reporting>>

DeletePhoto(w) ==
    /\ reportStep[w] = "delete-photo"
    /\ SetPhoto(w, "deleted")
    /\ EndReportCall(w)
    /\ UNCHANGED <<photoFiles, communications, files>>

ReportCallDies(w) ==
    /\ reportStep[w] # "idle"
    /\ EndReportCall(w)
    /\ UNCHANGED <<report, photoFiles, communications, files>>

\* DonorsService.update
ChangeDonorType ==
    /\ donorType' \in {"PARRAIN", "DONATEUR_PONCTUEL"} \ {donorType}
    /\ UNCHANGED <<report, photoFiles, communications, files, overlapped, reportStep,
                   reporting>>

ReportsInit ==
    /\ donorType \in {"PARRAIN", "DONATEUR_PONCTUEL"}
    /\ report = [r \in Reports |-> NoRow]
    /\ photoFiles = {}
    /\ communications = [r \in Reports |-> {}]
    /\ files = 0
    /\ overlapped = {}
    /\ reportStep = [w \in ReportWorkers |-> "idle"]
    /\ reporting = [w \in ReportWorkers |-> NoReportCall]

ReportStart(w, r) ==
    \/ StartCreate(w, r)
    \/ StartGenerate(w, r)
    \/ StartMarkSent(w, r)
    \/ \E p \in Photos :
          \/ StartUploadPhoto(w, r, p)
          \/ StartApprovePhoto(w, r, p)
          \/ StartDeletePhoto(w, r, p)

ReportsNext ==
    \/ ChangeDonorType
    \/ \E w \in ReportWorkers :
          \/ \E r \in Reports : ReportStart(w, r)
          \/ InsertReport(w)
          \/ CheckDonor(w)
          \/ Build(w)
          \/ Render(w)
          \/ UpdateReport(w)
          \/ Send(w)
          \/ UploadPhoto(w)
          \/ AddPhoto(w)
          \/ ApprovePhoto(w)
          \/ DeletePhotoFile(w)
          \/ DeletePhoto(w)
          \/ ReportCallDies(w)

(***************************************************************************)
(* A report that is marked as sent has its communication, whatever         *)
(* overlaps.  And unless two of its handlers have overlapped, a report has *)
(* at most one, it stays marked as sent, and its file and its photos are   *)
(* for ever those that were sent.                                          *)
(***************************************************************************)
SentReportsAreCommunicated ==
    \A r \in Reports :
       /\ report[r].status = "SENT" => communications[r] # {}
       /\ r \notin overlapped =>
             \A c \in communications[r] :
                /\ communications[r] = {c}
                /\ report[r].status = "SENT"
                /\ report[r].file = c.file
                /\ report[r].photos = c.photos
=============================================================================
