------------------------------- MODULE EntryLogs -------------------------------
(***************************************************************************)
(* EntryLogsService.  The class of an entry is its type.  Business hours   *)
(* are the caller's choice: the time of arrival comes with the call.       *)
(***************************************************************************)
EXTENDS ReviewedResources

Entry == "ENTRY_LOG"

ASSUME EntryTypesAssumption ==
    EntryTypes \subseteq {"SORTIE_EXCEPTIONNELLE", "VISITE_PREVUE", "ENTREE"}

IMMEDIATE_ENTRY_TYPES == {"ENTREE"}

CreateEntry(w, x, entryType) ==
    /\ IsNew(Entry, x)
    /\ Insert(w, x,
          [NoPatch EXCEPT
              !.status = IF entryType \in IMMEDIATE_ENTRY_TYPES THEN "PRESENT" ELSE "PREVUE",
              !.class = entryType])

\* The type changes at any time but after the archive.
CanUpdateEntry(x) == Is(Entry, x) /\ rows[x].status # "ARCHIVEE"

UpdateEntry(w, x, entryType) ==
    /\ CanUpdateEntry(x)
    /\ StartWrite(w, x, [NoPatch EXCEPT !.class = entryType])

\* update, of a departure that is recorded already
CorrectDeparture(w, x, user) ==
    /\ Is(Entry, x)
    /\ rows[x].status # "ARCHIVEE"
    /\ rows[x].departed
    /\ Unreviewed(x)
    /\ StartSubmit(w, x, user, "MANUAL_CHECKOUT_OVERRIDE", "none")

CanCheckIn(x) ==
    Is(Entry, x) /\ rows[x].status \in {"PREVUE", "REFUSEE"} /\ Unreviewed(x)

SensitiveArrival(x, afterHours) ==
    CASE rows[x].status = "REFUSEE" -> "ACCESS_OVERRIDE"
      [] rows[x].status # "REFUSEE" /\ afterHours -> "AFTER_HOURS_ACCESS"
      [] OTHER -> "none"

CheckIn(w, x, user, afterHours) ==
    LET action == SensitiveArrival(x, afterHours)
    IN  /\ CanCheckIn(x)
        /\ IF action = "none"
           THEN StartWrite(w, x, SetStatus("PRESENT"))
           ELSE StartSubmit(w, x, user, action, "none")

CanCheckOut(x) == Is(Entry, x) /\ rows[x].status = "PRESENT" /\ Unreviewed(x)

ExitIsExceptional(x) == rows[x].class = "SORTIE_EXCEPTIONNELLE"

CheckOut(w, x, user) ==
    /\ CanCheckOut(x)
    /\ IF ExitIsExceptional(x)
       THEN StartSubmit(w, x, user, "EXCEPTIONAL_EXIT", "none")
       ELSE StartWrite(w, x, [SetStatus("SORTI") EXCEPT !.departs = TRUE])

CanCancelEntry(x) == Is(Entry, x) /\ rows[x].status = "PREVUE" /\ Unreviewed(x)

CancelEntry(w, x) == CanCancelEntry(x) /\ StartWrite(w, x, SetStatus("ANNULEE"))

\* Mutant: who waits for an access can be refused it.
CanRefuseAnyEntry(x) ==
    Is(Entry, x) /\ rows[x].status \notin {"PRESENT", "SORTI", "ARCHIVEE"}

CanRefuseEntry(x) ==
    /\ Is(Entry, x)
    /\ rows[x].status \notin {"PRESENT", "SORTI", "ARCHIVEE"}
    /\ Unreviewed(x)

RefuseEntry(w, x) == CanRefuseEntry(x) /\ StartWrite(w, x, SetStatus("REFUSEE"))

CanArchiveEntry(x) == Is(Entry, x) /\ rows[x].status # "ARCHIVEE" /\ Unreviewed(x)

EntryIsOver(x) == rows[x].status \in {"SORTI", "ANNULEE", "REFUSEE"}

ArchiveEntry(w, x, user) ==
    /\ CanArchiveEntry(x)
    /\ IF EntryIsOver(x)
       THEN StartWrite(w, x, SetStatus("ARCHIVEE"))
       ELSE StartSubmit(w, x, user, "RECORD_ARCHIVE", "none")

EntryApproval(row) ==
    CASE row.action \in {"ACCESS_OVERRIDE", "AFTER_HOURS_ACCESS"} -> SetStatus("PRESENT")
      [] row.action = "EXCEPTIONAL_EXIT" -> [SetStatus("SORTI") EXCEPT !.departs = TRUE]
      [] row.action = "MANUAL_CHECKOUT_OVERRIDE" -> [NoPatch EXCEPT !.departs = TRUE]
      [] row.action = "RECORD_ARCHIVE" -> SetStatus("ARCHIVEE")

CanApproveEntry(x) == Is(Entry, x) /\ rows[x].action # "none"

ApproveEntry(w, x, user) ==
    /\ CanApproveEntry(x)
    /\ StartReview(w, x, user, "APPROVED", EntryApproval(rows[x]), TRUE)

DeclineEntry(w, x, user, verdict) ==
    /\ Is(Entry, x)
    /\ StartReview(w, x, user, verdict, NoPatch, FALSE)

EntriesNext(w) ==
    \E x \in Items :
       \/ \E entryType \in EntryTypes : CreateEntry(w, x, entryType) \/ UpdateEntry(w, x, entryType)
       \/ CancelEntry(w, x)
       \/ RefuseEntry(w, x)
       \/ \E user \in Directors :
             \/ CorrectDeparture(w, x, user)
             \/ \E afterHours \in BOOLEAN : CheckIn(w, x, user, afterHours)
             \/ CheckOut(w, x, user)
             \/ ArchiveEntry(w, x, user)
       \/ \E user \in Supervisors :
             \/ ApproveEntry(w, x, user)
             \/ \E verdict \in Verdicts \ {"APPROVED"} : DeclineEntry(w, x, user, verdict)
=============================================================================
