----------------------------- MODULE ListPageTable -----------------------------
(***************************************************************************)
(* The pages of hadoum_frontend, as ListPages sees them: their forms, how  *)
(* they remove rows, and whether a filter loads the list again while other *)
(* calls are in flight.  Forms that differ only in what they ask for are   *)
(* equal here, and so are the pages made of equal forms.                   *)
(***************************************************************************)
EXTENDS ListPages

Page(forms, removes, filters) ==
    [forms |-> forms, removes |-> removes, filters |-> filters]

(***************************************************************************)
(* Administration.  A request for a decision and a decision are refused    *)
(* the second time: one is pending by then, or none is any more.  What is  *)
(* done from a window by a button of its own, or after a mere question     *)
(* whether to, is held by nothing.                                         *)
(***************************************************************************)
ContractForm == Saves("never", "none", "patch")
ContractDecision == Twice(Form("act", "never", "none", "window"), "refused")
ContractRequest == Twice(Form("act", "never", "none", "window"), "refused")
ContractArchive == Form("act", "never", "none", "window")
ContractsPage ==
    Page(ContractForm \cup {ContractDecision, ContractRequest, ContractArchive}, "no", FALSE)

ProcedureForm == Saves("for-good", "none", "patch")
ProcedureDecision == Twice(Form("act", "never", "none", "window"), "refused")
ProcedureRequest == Twice(Form("act", "never", "none", "window"), "refused")
ProcedureArchive == Form("act", "never", "none", "window")
ProceduresPage ==
    Page(ProcedureForm \cup {ProcedureDecision, ProcedureRequest, ProcedureArchive},
         "no", FALSE)

TicketForm == Saves("never", "none", "patch")
TicketDecision == Twice(Form("act", "never", "none", "window"), "refused")
TicketWindow == Form("act", "never", "none", "window")
TicketsPage == Page(TicketForm \cup {TicketDecision, TicketWindow}, "no", FALSE)

\* Archived from its window, a space is patched.
SpaceForm == Saves("never", "none", "patch")
SpaceWindow == Form("act", "never", "none", "patch")
SpacesPage == Page(SpaceForm \cup {SpaceWindow}, "no", FALSE)

StockItemForm == Saves("for-good", "none", "patch")
MovementForm == Form("act", "meanwhile", "none", "window")
TransferForm == Form("act", "never", "none", "window")
CountForm == Form("act", "meanwhile", "none", "patch")
StockDecision == Twice(Form("act", "never", "none", "window"), "refused")
StockArchive == Form("act", "never", "none", "window")
StockPage ==
    Page(StockItemForm \cup {MovementForm, StockDecision, StockArchive}, "no", FALSE)
CountPage == Page(StockItemForm \cup {TransferForm, CountForm}, "no", FALSE)

AssetForm == Saves("for-good", "none", "patch")
AssetActionForm == Form("act", "meanwhile", "none", "window")
AssetsPage == Page(AssetForm \cup {AssetActionForm}, "no", FALSE)

EntryForm == Saves("for-good", "none", "patch")
EntryActionForm == Form("act", "meanwhile", "none", "window")
EntryDecision == Twice(Form("act", "never", "none", "window"), "refused")
EntryWindow == Form("act", "never", "none", "window")
EntriesPage ==
    Page(EntryForm \cup {EntryActionForm, EntryDecision, EntryWindow}, "no", FALSE)

MovementLogForm == Form("create", "for-good", "none", "patch")
MovementLogDecision == Twice(Form("act", "never", "none", "window"), "refused")
MovementLogWindow == Form("act", "never", "none", "window")
MovementLogsPage ==
    Page({MovementLogForm, MovementLogDecision, MovementLogWindow}, "no", FALSE)

\* A decision waits for the list with its button released.
ListedDecision == Twice(Form("act", "never", "none", "reload"), "refused")
PendingPage == Page({ListedDecision}, "no", FALSE)

(***************************************************************************)
(* Children, team, incidents, reports.                                     *)
(***************************************************************************)
\* What follows the creation, and fails it, is the school record; documents
\* that fail are told of, and left.
ChildForm == Form("create", "meanwhile", "with-the-save", "patch")
ExitForm == Form("act", "never", "none", "patch")
ChildFile == Form("edit", "never", "none", "patch")
ChildrenPage == Page({ChildForm, ExitForm, ChildFile}, "no", FALSE)

\* The documents of a child, and the attendance of a member: lists of windows,
\* with their form beside them.
ChildDocumentForm == Form("create", "never", "none", "captured")
ChildDocuments == Page({ChildDocumentForm}, "captured", FALSE)

AttendanceForm == Saves("meanwhile", "with-the-save", "captured")
AttendanceWindow == Page(AttendanceForm, "captured", FALSE)

\* The presence of a member on a day is written as often as one likes.
PresenceButtons == Twice(Form("act", "never", "none", "reload"), "same")
PresenceTab == Page({PresenceButtons}, "no", TRUE)

IncidentForm == Saves("never", "with-the-save", "patch")
IncidentStatusForm == Form("act", "never", "none", "patch")
IncidentsPage == Page(IncidentForm \cup {IncidentStatusForm}, "patch", FALSE)

ReportUploadForm == Form("create", "meanwhile", "none", "patch")
ReportsPage == Page({ReportUploadForm}, "patch", FALSE)

(***************************************************************************)
(* Finances and donors.                                                    *)
(***************************************************************************)
\* One file stands for the three documents of an expense.
ExpenseForm == Saves("meanwhile", "apart", "window")
IncomeForm == Saves("meanwhile", "told-of", "window")
BudgetForm == Twice(Form("edit", "never", "none", "reload"), "same")
ExpenseDecision == Twice(Form("act", "meanwhile", "none", "reload"), "refused")
FinancesPage == Page(ExpenseForm \cup IncomeForm, "reload", FALSE)
BudgetPage == Page({BudgetForm, ExpenseDecision}, "reload", FALSE)
PendingExpenses == Page({ExpenseDecision}, "no", FALSE)

CampaignForm == Saves("meanwhile", "none", "patch")
CampaignWindow == Form("act", "never", "none", "window")
CampaignsPage == Page(CampaignForm \cup {CampaignWindow}, "no", TRUE)

\* The key of a form makes of every call of it the same donation.
DonationForm == Twice(Form("create", "meanwhile", "none", "window"), "same")
DonationsPage == Page({DonationForm}, "no", TRUE)

CommunicationForm == Form("create", "meanwhile", "none", "patch")
CommunicationsPage == Page({CommunicationForm}, "no", TRUE)

DonorForm == Saves("meanwhile", "none", "patch")
DonorWindow == Form("act", "meanwhile", "none", "window")
DonorsPage == Page(DonorForm \cup {DonorWindow}, "no", TRUE)

\* A second report of a donor and a period is refused.
DonorReportForm == Twice(Form("create", "meanwhile", "none", "patch"), "refused")
DonorReportWindow == Form("act", "meanwhile", "none", "window")
DonorReportsPage == Page({DonorReportForm, DonorReportWindow}, "no", TRUE)

AllPages ==
    {ContractsPage, ProceduresPage, TicketsPage, SpacesPage, StockPage, CountPage,
     AssetsPage, EntriesPage, MovementLogsPage, PendingPage, ChildrenPage,
     ChildDocuments, AttendanceWindow, PresenceTab, IncidentsPage, ReportsPage,
     FinancesPage, BudgetPage, PendingExpenses, CampaignsPage, DonationsPage,
     CommunicationsPage, DonorsPage, DonorReportsPage}
=============================================================================
