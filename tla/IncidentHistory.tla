----------------------------- MODULE IncidentHistory -----------------------------
(***************************************************************************)
(* The status of an incident and its history (IncidentsService).  A change *)
(* reads the incident, then writes an entry, with the status it read as    *)
(* the previous one, and the status itself in one transaction.  Entries    *)
(* are shown by their date, which is that of the transaction's beginning.  *)
(*                                                                         *)
(* The entry refers to the incident, so an incident cannot be deleted      *)
(* between the two statements; two transactions about one incident can     *)
(* overlap, and write the status in another order than their entries.      *)
(***************************************************************************)
EXTENDS Sequences, FiniteSetsExt

CONSTANTS
    ReportedAs,        \* the status of a new incident, and those of old ones
    Selectable,        \* SELECTABLE_INCIDENT_STATUSES
    NoStatus,          \* of an incident that is deleted
    IncidentWorkers,   \* handlers that may overlap
    MaxChanges         \* bound: entries

ASSUME IncidentsAssumption ==
    /\ NoStatus \notin ReportedAs \cup Selectable
    /\ MaxChanges \in Nat

VARIABLES
    firstStatus,     \* history: the status the incident was reported with
    incidentStatus,  \* its status
    entries,         \* its entries, by date
    changing,        \* what every handler holds in memory
    crossed          \* history: two changes have overlapped

incidentVars == <<firstStatus, incidentStatus, entries, changing, crossed>>

IncidentStatuses == ReportedAs \cup Selectable \cup {NoStatus}

\* by: the handler whose transaction is still open.
Entry(previous, new, by) == [previous |-> previous, new |-> new, by |-> {by}]

NoChange == [step |-> "idle", previous |-> NoStatus, new |-> NoStatus]

IncidentExists == incidentStatus # NoStatus

\* findRaw, and the check that follows
StartChange(w, status) ==
    /\ changing[w] = NoChange
    /\ IncidentExists
    /\ status # incidentStatus
    /\ changing' = [changing EXCEPT ![w] =
          [step |-> "insert", previous |-> incidentStatus, new |-> status]]
    /\ crossed' = (crossed \/ \E v \in IncidentWorkers : changing[v] # NoChange)
    /\ UNCHANGED <<firstStatus, incidentStatus, entries>>

InsertEntry(w) ==
    LET h == changing[w]
    IN  /\ h.step = "insert"
        /\ IncidentExists
        /\ Len(entries) < MaxChanges
        /\ entries' = Append(entries, Entry(h.previous, h.new, w))
        /\ changing' = [changing EXCEPT ![w].step = "update"]
        /\ UNCHANGED <<firstStatus, incidentStatus, crossed>>

\* The update by id, and the commit.
UpdateStatus(w) ==
    /\ changing[w].step = "update"
    /\ incidentStatus' = changing[w].new
    /\ entries' = [n \in DOMAIN entries |->
          IF entries[n].by = {w} THEN [entries[n] EXCEPT !.by = {}] ELSE entries[n]]
    /\ changing' = [changing EXCEPT ![w] = NoChange]
    /\ UNCHANGED <<firstStatus, crossed>>

\* The entries the others see.
Committed == {n \in DOMAIN entries : entries[n].by = {}}

\* Mutant: the two statements are not one transaction.
ChangeDiesHalfway(w) ==
    /\ changing[w] # NoChange
    /\ entries' = [n \in DOMAIN entries |->
          IF entries[n].by = {w} THEN [entries[n] EXCEPT !.by = {}] ELSE entries[n]]
    /\ changing' = [changing EXCEPT ![w] = NoChange]
    /\ UNCHANGED <<firstStatus, incidentStatus, crossed>>

\* Also a change that finds the incident deleted.
ChangeDies(w) ==
    /\ changing[w] # NoChange
    /\ \/ changing[w].step = "insert" /\ entries' = entries
       \/ \E n \in DOMAIN entries :
             /\ entries[n].by = {w}
             /\ entries' = SubSeq(entries, 1, n - 1) \o SubSeq(entries, n + 1, Len(entries))
    /\ changing' = [changing EXCEPT ![w] = NoChange]
    /\ UNCHANGED <<firstStatus, incidentStatus, crossed>>

\* With its entries; it waits for the transactions that refer to it.
DeleteIncident ==
    /\ IncidentExists
    /\ \A w \in IncidentWorkers : changing[w].step # "update"
    /\ incidentStatus' = NoStatus
    /\ entries' = <<>>
    /\ UNCHANGED <<firstStatus, changing, crossed>>

IncidentsInit ==
    /\ firstStatus \in ReportedAs
    /\ incidentStatus = firstStatus
    /\ entries = <<>>
    /\ changing = [w \in IncidentWorkers |-> NoChange]
    /\ crossed = FALSE

IncidentsNext ==
    \/ DeleteIncident
    \/ \E w \in IncidentWorkers :
          \/ \E status \in Selectable : StartChange(w, status)
          \/ InsertEntry(w)
          \/ UpdateStatus(w)
          \/ ChangeDies(w)

(***************************************************************************)
(* The history of an incident tells how it came to its status: every entry *)
(* begins where the one before it ended, and the last ends at the status.  *)
(* Changes that overlapped break that, in either way; but even then no     *)
(* entry changes nothing, none begins at a status the incident never had,  *)
(* and no status is without its entry.                                     *)
(***************************************************************************)
HistoryTellsTheStatus ==
    LET earlier(n) == {m \in Committed : m < n}
        before(n) == IF earlier(n) = {} THEN firstStatus
                     ELSE entries[Max(earlier(n))].new
        had == {firstStatus} \cup {entries[n].new : n \in Committed}
    IN  IncidentExists =>
           /\ incidentStatus \in had
           /\ \A n \in Committed :
                 /\ entries[n].previous \in had
                 /\ entries[n].previous # entries[n].new
           /\ ~ crossed =>
                 /\ incidentStatus = before(Len(entries) + 1)
                 /\ \A n \in Committed : entries[n].previous = before(n)
=============================================================================
