-------------------------------- MODULE BackOffice --------------------------------
(***************************************************************************)
(* The parts of the back office that share no state with one another: the  *)
(* stored files, the reports of donors, the tables of the team and its     *)
(* page, the pages that show a list, the menus, the contacts with their    *)
(* form, the box that looks for a contact, the alerts, the history of an   *)
(* incident, and the profile of a donor.  A behaviour is about one of      *)
(* them, the others stay as they begin.  (To interleave them would show    *)
(* nothing more, since no step of one reads what another writes; of the    *)
(* profile, reports only read the type, which DonorReports changes at      *)
(* will.)                                                                  *)
(***************************************************************************)
EXTENDS StoredFiles, DonorReports, Team, ListPageTable, Menus, Contacts,
        ContactSearch, Alerts, IncidentHistory, DonorProfiles

VARIABLE part   \* the part a behaviour is about

vars ==
    <<part, fileVars, reportVars, teamVars, pageVars, menuVars, contactVars, searchVars,
      alertVars, incidentVars, profileVars>>

\* Where a part may begin in several ways, the others begin in one.
Init ==
    /\ part \in {"files", "reports", "team", "pages", "menus", "contacts", "search",
                "alerts", "incidents", "profiles"}
    /\ FilesInit
    /\ part = "files" \/ kindOf = CHOOSE kinds \in FileSlots : TRUE
    /\ ReportsInit
    /\ part = "reports" \/ donorType = "PARRAIN"
    /\ TeamInit
    /\ part = "team" \/ \A r \in TeamRows : tableOf[r] = "none"
    /\ PagesInit
    /\ part = "pages" \/ (taken = {} /\ page = CHOOSE p \in Pages : TRUE)
    /\ MenusInit
    /\ ContactsInit
    /\ SearchInit
    /\ part = "search" \/ (restriction = {} /\ box.text = CHOOSE t \in Texts : TRUE)
    /\ AlertsInit
    /\ part = "alerts" \/ swallows
    /\ IncidentsInit
    /\ part = "incidents" \/ firstStatus = CHOOSE s \in ReportedAs : TRUE
    /\ ProfilesInit
    /\ part = "profiles" \/ profile.type = "DONATEUR_PONCTUEL"

Next ==
    \/ /\ part = "files"
       /\ FilesNext
       /\ UNCHANGED <<part, reportVars, teamVars, pageVars, menuVars, contactVars,
                      searchVars, alertVars, incidentVars, profileVars>>
    \/ /\ part = "reports"
       /\ ReportsNext
       /\ UNCHANGED <<part, fileVars, teamVars, pageVars, menuVars, contactVars,
                      searchVars, alertVars, incidentVars, profileVars>>
    \/ /\ part = "team"
       /\ TeamNext
       /\ UNCHANGED <<part, fileVars, reportVars, pageVars, menuVars, contactVars,
                      searchVars, alertVars, incidentVars, profileVars>>
    \/ /\ part = "pages"
       /\ PagesNext
       /\ UNCHANGED <<part, fileVars, reportVars, teamVars, menuVars, contactVars,
                      searchVars, alertVars, incidentVars, profileVars>>
    \/ /\ part = "menus"
       /\ MenusNext
       /\ UNCHANGED <<part, fileVars, reportVars, teamVars, pageVars, contactVars,
                      searchVars, alertVars, incidentVars, profileVars>>
    \/ /\ part = "contacts"
       /\ ContactsNext
       /\ UNCHANGED <<part, fileVars, reportVars, teamVars, pageVars, menuVars,
                      searchVars, alertVars, incidentVars, profileVars>>
    \/ /\ part = "search"
       /\ SearchNext
       /\ UNCHANGED <<part, fileVars, reportVars, teamVars, pageVars, menuVars,
                      contactVars, alertVars, incidentVars, profileVars>>
    \/ /\ part = "alerts"
       /\ AlertsNext
       /\ UNCHANGED <<part, fileVars, reportVars, teamVars, pageVars, menuVars,
                      contactVars, searchVars, incidentVars, profileVars>>
    \/ /\ part = "incidents"
       /\ IncidentsNext
       /\ UNCHANGED <<part, fileVars, reportVars, teamVars, pageVars, menuVars,
                      contactVars, searchVars, alertVars, profileVars>>
    \/ /\ part = "profiles"
       /\ ProfilesNext
       /\ UNCHANGED <<part, fileVars, reportVars, teamVars, pageVars, menuVars,
                      contactVars, searchVars, alertVars, incidentVars>>

Spec == Init /\ [][Next]_vars
=============================================================================
