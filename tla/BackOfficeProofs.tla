------------------------------ MODULE BackOfficeProofs ------------------------------
(***************************************************************************)
(* What BackOffice guarantees, part by part: a behaviour of the whole is a *)
(* behaviour of every part of it, so what a part guarantees by itself      *)
(* holds here.                                                             *)
(***************************************************************************)
EXTENDS BackOffice, StoredFilesProofs, ServicesProofs, ScreensProofs, TLAPS

LEMMA FilesRunAlone == Spec => FilesInit /\ [][FilesNext]_fileVars
<1>1. Init => FilesInit
  BY DEF Init
<1>2. [Next]_vars => [FilesNext]_fileVars
  BY DEF Next, vars
<1>3. QED
  BY <1>1, <1>2, PTL DEF Spec

LEMMA ReportsRunAlone == Spec => ReportsInit /\ [][ReportsNext]_reportVars
<1>1. Init => ReportsInit
  BY DEF Init
<1>2. [Next]_vars => [ReportsNext]_reportVars
  BY DEF Next, vars
<1>3. QED
  BY <1>1, <1>2, PTL DEF Spec

LEMMA TeamRunAlone == Spec => TeamInit /\ [][TeamNext]_teamVars
<1>1. Init => TeamInit
  BY DEF Init
<1>2. [Next]_vars => [TeamNext]_teamVars
  BY DEF Next, vars
<1>3. QED
  BY <1>1, <1>2, PTL DEF Spec

LEMMA PagesRunAlone == Spec => PagesInit /\ [][PagesNext]_pageVars
<1>1. Init => PagesInit
  BY DEF Init
<1>2. [Next]_vars => [PagesNext]_pageVars
  BY DEF Next, vars
<1>3. QED
  BY <1>1, <1>2, PTL DEF Spec

LEMMA MenusRunAlone == Spec => MenusInit /\ [][MenusNext]_menuVars
<1>1. Init => MenusInit
  BY DEF Init
<1>2. [Next]_vars => [MenusNext]_menuVars
  BY DEF Next, vars
<1>3. QED
  BY <1>1, <1>2, PTL DEF Spec

LEMMA ContactsRunAlone == Spec => ContactsInit /\ [][ContactsNext]_contactVars
<1>1. Init => ContactsInit
  BY DEF Init
<1>2. [Next]_vars => [ContactsNext]_contactVars
  BY DEF Next, vars
<1>3. QED
  BY <1>1, <1>2, PTL DEF Spec

LEMMA SearchRunAlone == Spec => SearchInit /\ [][SearchNext]_searchVars
<1>1. Init => SearchInit
  BY DEF Init
<1>2. [Next]_vars => [SearchNext]_searchVars
  BY DEF Next, vars
<1>3. QED
  BY <1>1, <1>2, PTL DEF Spec

LEMMA AlertsRunAlone == Spec => AlertsInit /\ [][AlertsNext]_alertVars
<1>1. Init => AlertsInit
  BY DEF Init
<1>2. [Next]_vars => [AlertsNext]_alertVars
  BY DEF Next, vars
<1>3. QED
  BY <1>1, <1>2, PTL DEF Spec

LEMMA IncidentsRunAlone == Spec => IncidentsInit /\ [][IncidentsNext]_incidentVars
<1>1. Init => IncidentsInit
  BY DEF Init
<1>2. [Next]_vars => [IncidentsNext]_incidentVars
  BY DEF Next, vars
<1>3. QED
  BY <1>1, <1>2, PTL DEF Spec

LEMMA ProfilesRunAlone == Spec => ProfilesInit /\ [][ProfilesNext]_profileVars
<1>1. Init => ProfilesInit
  BY DEF Init
<1>2. [Next]_vars => [ProfilesNext]_profileVars
  BY DEF Next, vars
<1>3. QED
  BY <1>1, <1>2, PTL DEF Spec

\* Of the rows that name a file that is gone, the operations that delete first are
\* the only cause: deleteFile before update in the services (RowsHaveTheirFiles).
THEOREM StoredFilesAreThere == Spec => []RowsHaveTheirFiles
  BY FilesRunAlone, FilesAreThere, PTL DEF FilesSpec

\* A report that is marked as sent has its communication, and unless two handlers
\* have overlapped only one, with the file and the photos that were sent: send in
\* donor-reports.service.ts (SentReportsAreCommunicated).
THEOREM SentReportsStay == Spec => []SentReportsAreCommunicated
  BY ReportsRunAlone, SentReportsAreKept, PTL

\* Whoever was entered on the page of the team is on one list only, wherever a chain
\* of calls dies, and an idle page shows the lists as they are: the moves between
\* the tables in TeamPage.tsx (EveryoneIsOnOneList).
THEOREM OneListForEveryone == Spec => []EveryoneIsOnOneList
  BY TeamRunAlone, PeopleAreListedOnce, PTL

\* Once nothing is in flight, a page shows the rows as they are, unless calls
\* crossed that do not bear it or the page took for failed what took effect: the
\* setters after the calls of the pages that show a list (PagesShowTheirRows).
THEOREM PagesShowWhatIsThere == Spec => []PagesShowTheirRows
  BY PagesRunAlone, PagesFollowTheServer, PTL

\* A form takes effect once, however often its button is clicked, unless the button
\* is not held, an answer was lost, or a file failed that fails the save: the flags
\* of the dialogs of those pages (FormsSaveOnce).
THEOREM FormsAreTakenOnce == Spec => []FormsSaveOnce
  BY PagesRunAlone, FormsTakeEffectOnce, PTL

\* What the menu of a valid session leads to is allowed to its role, and the late
\* answer to a session before it leaves it alone: navigation and RolesGuard
\* (MenuPagesLoad).
THEOREM MenusLoad == Spec => []MenuPagesLoad
  BY MenusRunAlone, MenusOfferWhatLoads, PTL

\* Of two similar active contacts one was entered by force, changed, re-activated or
\* written at once with the other; and an active contact has an active category,
\* with the like exceptions: create and update in contacts.service.ts
\* (ContactsAreSought).
THEOREM ContactsFound == Spec => []ContactsAreSought
  BY ContactsRunAlone, ContactsAreLookedFor, PTL

\* A form that was told that a contact is saved leaves it picked when it closes: the
\* form of a contact and the box it is opened from (SavedContactIsPicked).
THEOREM SavedContactsArePicked == Spec => []SavedContactIsPicked
  BY ContactsRunAlone, SavedContactsAreHandedOver, PTL

\* An open list that waits for nothing answers what is typed and chosen now, in
\* whatever order the requests were answered: useContactSearch.ts
\* (ListIsWhatIsAsked).
THEOREM BoxListsWhatIsAsked == Spec => []ListIsWhatIsAsked
  BY SearchRunAlone, ListsFollowTheBox, PTL

\* No director is told twice of one thing unless two readings overlapped, and none is
\* passed over by a reading unless his notification failed: the notifications of
\* what expires (AlertsComeOnce).
THEOREM AlertsOnceEach == Spec => []AlertsComeOnce
  BY AlertsRunAlone, AlertsAreSentOnce, PTL

\* A one-time donor has no recurring field, unless the last update of his profile had
\* read it before another wrote it: update in donor-profiles.service.ts
\* (RecurringFollowsType).
THEOREM ProfilesFollow == Spec => []RecurringFollowsType
  BY ProfilesRunAlone, RecurringFieldsFollow, PTL

\* Every change of an incident's status has its entry, and while changes do not
\* overlap each entry begins where the one before it ended, and the last ends at the
\* status: changeStatus in incidents.service.ts (HistoryTellsTheStatus).
THEOREM HistoryIsKept == Spec => []HistoryTellsTheStatus
  BY IncidentsRunAlone, HistoriesAreTold, PTL
=====================================================================================
