------------------------------- MODULE ListPages -------------------------------
(***************************************************************************)
(* The pages of hadoum_frontend that show a list: they load it once, and   *)
(* from then on keep what they show up to date from the answers of the     *)
(* calls that their forms and their detail windows send, each page in its  *)
(* own way.  Handlers are async functions: several may be in flight, and   *)
(* every awaited call may fail, or take effect and be reported as failed.  *)
(*                                                                         *)
(* A behaviour is about one visit of one page, open in one browser.  A     *)
(* page is a record of the forms it has and of how it takes in the         *)
(* answers; ListPageTable gives the pages of the application.              *)
(***************************************************************************)
EXTENDS Naturals, FiniteSets

CONSTANTS
    PageRows,      \* rows the server may hold
    NoPageRow,
    PageCalls,     \* calls that may be in flight together
    Pages,         \* the pages a behaviour may be about
    MaxOpenings,   \* bound: forms opened
    MaxEdits       \* bound: changes of a row

ASSUME PageRowsAssumption == NoPageRow \notin PageRows /\ MaxOpenings \in Nat

(***************************************************************************)
(* Forms.  How the save button is held while a call is in flight:          *)
(*   never        there is no flag: it may be clicked again                *)
(*   meanwhile    disabled until the call ends                             *)
(*   for-good     disabled until the form is closed (nothing resets the    *)
(*                flag when the call fails)                                *)
(* What happens to a file, sent by a call of its own after the save:       *)
(*   with-the-save   its failure is reported as that of the save           *)
(*   told-of         the form goes on without it                           *)
(*   apart           the form stays, to send it alone again or to give it  *)
(*                   up                                                    *)
(* How the answer is taken in:                                             *)
(*   patch      the row is put in the list shown, and the form closes      *)
(*   captured   the same, in the list as it was when the call was sent     *)
(*   window     the form closes, and the list is loaded behind it          *)
(*   reload     the list is loaded, and then the form closes               *)
(* What the server makes of a second call of one opening:                  *)
(*   again      it takes effect again                                      *)
(*   same       it takes it for the first (the key of a donation)          *)
(*   refused    it refuses it (the request it decides is closed)           *)
(***************************************************************************)
Form(op, holds, file, then) ==
    [op |-> op, holds |-> holds, file |-> file, then |-> then, twice |-> "again"]

Twice(f, verdict) == [f EXCEPT !.twice = verdict]

Saves(holds, file, then) ==
    {Form("create", holds, file, then), Form("edit", holds, file, then)}

NoForm == Form("none", "never", "none", "patch")

FormKinds ==
    [op : {"create", "edit", "act"}, holds : {"never", "meanwhile", "for-good"},
     file : {"none", "with-the-save", "told-of", "apart"},
     then : {"patch", "captured", "window", "reload"},
     twice : {"again", "same", "refused"}]

\* A form that stays open until the list has been loaded is one that the server
\* takes once, and one taken for the same has the list loaded behind it.  One
\* that sends its file again is held meanwhile, and has the list loaded behind it.
FormsAssumption(forms) ==
    /\ forms \subseteq FormKinds
    /\ \A f \in forms :
          /\ f.then = "reload" => f.twice # "again"
          /\ f.twice = "same" => f.then \in {"reload", "window"}
          /\ f.file = "apart" => f.holds = "meanwhile" /\ f.then = "window"

ASSUME PagesAssumption ==
    \A p \in Pages :
       /\ FormsAssumption(p.forms)
       /\ p.removes \in {"no", "patch", "captured", "reload"}
       /\ p.removes = "captured" => \A f \in p.forms : f.file # "apart"

VARIABLES
    page,        \* the page: its forms, how it removes rows, its filters
    row,         \* changes of every row so far; 0: not there
    taken,       \* rows that have been there
    shown,       \* the list shown: the change shown of every row, or 0
    loaded,      \* whether the first load has answered
    form,        \* the form open, its opening and its row, the flag, and
                 \* whether it has come down to sending its file again
    openings,    \* history: what became of every opening of a form
    callStep,    \* the next step of every call
    calling,     \* what it holds in memory
    astray       \* history: calls overlapped that do not bear it, or the page
                 \* was not told of a change

pageVars ==
    <<page, row, taken, shown, loaded, form, openings, callStep, calling, astray>>

NoListShown == [r \in PageRows |-> 0]

NoPageCall ==
    [op |-> "none", form |-> NoForm, opening |-> 0, row |-> NoPageRow, seen |-> 0,
     list |-> NoListShown]

FormOpen(f, n, r) ==
    [form |-> f, opening |-> n, row |-> r, saving |-> FALSE, resend |-> FALSE]

NothingOpen == FormOpen(NoForm, 0, NoPageRow)

Openings == 1..MaxOpenings

NotOpened ==
    [form |-> NoForm, row |-> NoPageRow, effects |-> 0, again |-> FALSE, failed |-> {}]

(***************************************************************************)
(* Overlaps.  Patches of different rows do not disturb each other.  A list *)
(* that is being loaded, a list captured earlier, and two changes of one   *)
(* row do.                                                                 *)
(***************************************************************************)
InFlight == {c \in PageCalls : callStep[c] # "idle"}

ShowsAList(call) ==
    call.op = "load" \/ call.form.then \in {"reload", "window", "captured"}

Disturb(one, other) ==
    \/ ShowsAList(one)
    \/ ShowsAList(other)
    \/ one.row = other.row /\ one.row # NoPageRow

Start(c, step, call) ==
    /\ callStep[c] = "idle"
    /\ callStep' = [callStep EXCEPT ![c] = step]
    /\ calling' = [calling EXCEPT ![c] =
          [call EXCEPT !.list = IF call.form.then = "captured" THEN shown ELSE @]]
    /\ astray' = (astray \/ \E d \in InFlight : Disturb(call, calling[d]))

Step(c, step) ==
    /\ callStep' = [callStep EXCEPT ![c] = step]
    /\ UNCHANGED astray

\* Told of everything the call did, or not.
EndTold(c, told) ==
    /\ callStep' = [callStep EXCEPT ![c] = "idle"]
    /\ calling' = [calling EXCEPT ![c] = NoPageCall]
    /\ astray' = (astray \/ ~ told)

End(c) == EndTold(c, TRUE)

(***************************************************************************)
(* The page and its forms.                                                 *)
(***************************************************************************)
\* A form covers the page; the lists that are captured have it beside them.
AtHand == form = NothingOpen \/ page.removes = "captured"

\* Once when the page opens, and whenever a filter changes, whatever is in
\* flight.
LoadPage(c) ==
    /\ IF loaded THEN page.filters /\ AtHand ELSE InFlight = {}
    /\ Start(c, "read", [NoPageCall EXCEPT !.op = "load"])
    /\ UNCHANGED <<page, row, taken, shown, loaded, form, openings>>

NextOpening == Cardinality({n \in Openings : openings[n] # NotOpened}) + 1

OpenForm(f, r) ==
    /\ loaded
    /\ form = NothingOpen
    /\ f \in page.forms
    /\ NextOpening \in Openings
    /\ IF f.op = "create" THEN r = NoPageRow ELSE r \in PageRows /\ shown[r] # 0
    /\ form' = FormOpen(f, NextOpening, r)
    /\ openings' = [openings EXCEPT ![NextOpening].form = f]
    /\ UNCHANGED <<page, row, taken, shown, loaded, callStep, calling, astray>>

CloseForm ==
    /\ form # NothingOpen
    /\ ~ form.resend
    /\ form' = NothingOpen
    /\ UNCHANGED <<page, row, taken, shown, loaded, openings, callStep, calling, astray>>

SubmitForm(c) ==
    /\ form # NothingOpen
    /\ ~ form.resend
    /\ form.saving => form.form.holds = "never"
    /\ Start(c, "save", [NoPageCall EXCEPT !.op = form.form.op, !.form = form.form,
                            !.opening = form.opening, !.row = form.row])
    /\ form' = [form EXCEPT !.saving = TRUE]
    /\ openings' = [openings EXCEPT ![form.opening].again = @ \/
          \E d \in InFlight : calling[d].opening = form.opening]
    /\ UNCHANGED <<page, row, taken, shown, loaded>>

\* The file alone, for the row that was saved.
ResendFile(c) ==
    /\ form.resend
    /\ ~ form.saving
    /\ Start(c, "file", [NoPageCall EXCEPT !.op = form.form.op, !.form = form.form,
                            !.opening = form.opening, !.row = form.row])
    /\ form' = [form EXCEPT !.saving = TRUE]
    /\ UNCHANGED <<page, row, taken, shown, loaded, openings>>

\* Closed without its file, the form tells the page what was saved.
GiveFileUp(c) ==
    /\ form.resend
    /\ form' = NothingOpen
    /\ Start(c, "read", [NoPageCall EXCEPT !.op = "load"])
    /\ UNCHANGED <<page, row, taken, shown, loaded, openings>>

\* Without a form, but for the question whether to.
RemoveRow(c, r) ==
    /\ loaded
    /\ AtHand
    /\ page.removes # "no"
    /\ shown[r] # 0
    /\ Start(c, "remove", [NoPageCall EXCEPT !.op = "remove", !.row = r,
                              !.form = [NoForm EXCEPT !.then = page.removes]])
    /\ UNCHANGED <<page, row, taken, shown, loaded, form, openings>>

(***************************************************************************)
(* The effects of a call, at the server, and its answers.                  *)
(***************************************************************************)
\* The first step after the save, or after the file.
Then(f) == IF f.then \in {"reload", "window"} THEN "read" ELSE "show"

\* The call has ended, and its button is released.
FormReleased(call) ==
    IF form.opening = call.opening /\ call.form.holds # "for-good"
    THEN [form EXCEPT !.saving = FALSE]
    ELSE form

\* The form of a window closes at once; one that waits for the list stays open.
AnswerForm(call) ==
    CASE call.form.then = "window" ->
            IF form.form = call.form THEN NothingOpen ELSE form
      [] call.form.then = "reload" -> FormReleased(call)
      [] OTHER -> form

RowToSave(call, r) ==
    IF call.op = "create" THEN r \in PageRows \ taken ELSE r = call.row /\ row[r] # 0

\* A second call of an opening, where the server takes only one.
IsRepeat(call) == call.form.twice # "again" /\ openings[call.opening].effects > 0

Effect(n, r, failed) ==
    openings' = [openings EXCEPT ![n].row = r, ![n].effects = @ + 1,
                                 ![n].failed = @ \cup failed]

Save(c, r) ==
    LET call == calling[c]
    IN  /\ callStep[c] = "save"
        /\ ~ IsRepeat(call)
        /\ RowToSave(call, r)
        /\ row[r] < MaxEdits
        /\ row' = [row EXCEPT ![r] = @ + 1]
        /\ taken' = taken \cup {r}
        /\ \/ /\ call.form.file # "none"
              /\ Step(c, "file")
              /\ calling' = [calling EXCEPT ![c].row = r, ![c].seen = row[r] + 1]
              /\ Effect(call.opening, r, {})
              /\ UNCHANGED form
           \/ /\ Step(c, Then(call.form))
              /\ calling' = [calling EXCEPT ![c].row = r, ![c].seen = row[r] + 1]
              /\ form' = AnswerForm(call)
              /\ Effect(call.opening, r, {})
           \/ /\ EndTold(c, FALSE)                 \* the answer is lost
              /\ form' = FormReleased(call)
              /\ Effect(call.opening, r, {"answer"})
    /\ UNCHANGED <<page, shown, loaded>>

\* The server answers with the row as it is.
SaveTheSame(c) ==
    LET call == calling[c]
        r == openings[call.opening].row
    IN  /\ callStep[c] = "save"
        /\ IsRepeat(call)
        /\ call.form.twice = "same"
        /\ calling' = [calling EXCEPT ![c].row = r, ![c].seen = row[r]]
        /\ form' = AnswerForm(call)
        /\ Step(c, Then(call.form))
        /\ UNCHANGED <<page, row, taken, shown, loaded, openings>>

\* Refused, or not received.
SaveFails(c) ==
    /\ callStep[c] = "save"
    /\ form' = FormReleased(calling[c])
    /\ End(c)
    /\ UNCHANGED <<page, row, taken, shown, loaded, openings>>

SendFile(c) ==
    LET call == calling[c]
    IN  /\ callStep[c] = "file"
        /\ row[call.row] \in 1..(MaxEdits - 1)
        /\ row' = [row EXCEPT ![call.row] = @ + 1]
        /\ calling' = [calling EXCEPT ![c].seen = row[call.row] + 1]
        /\ form' = AnswerForm(call)
        /\ Step(c, Then(call.form))
        /\ UNCHANGED <<page, taken, shown, loaded, openings>>

\* Mutant: no form sends a file apart.
FileFailsTheSaveOfAnyForm(f) == f.file # "none"

FileFailsTheSave(f) == f.file = "with-the-save"

\* Sent apart, it may be sent again, if the form is still open.
FileFails(c) ==
    LET call == calling[c]
        isOpen == form.opening = call.opening
    IN  /\ callStep[c] = "file"
        /\ IF FileFailsTheSave(call.form)
           THEN /\ EndTold(c, FALSE)
                /\ form' = FormReleased(call)
                /\ openings' = [openings EXCEPT ![call.opening].failed = @ \cup {"file"}]
           ELSE IF call.form.file = "apart"
           THEN /\ EndTold(c, isOpen)
                /\ form' = IF isOpen
                           THEN [form EXCEPT !.row = call.row, !.saving = FALSE,
                                             !.resend = TRUE]
                           ELSE form
                /\ UNCHANGED openings
           ELSE /\ Step(c, Then(call.form))
                /\ form' = AnswerForm(call)
                /\ UNCHANGED <<calling, openings>>
        /\ UNCHANGED <<page, row, taken, shown, loaded>>

Remove(c) ==
    LET call == calling[c]
    IN  /\ callStep[c] = "remove"
        /\ row[call.row] # 0
        /\ row' = [row EXCEPT ![call.row] = 0]
        /\ calling' = [calling EXCEPT ![c].seen = 0]
        /\ Step(c, Then(call.form))
        /\ UNCHANGED <<page, taken, shown, loaded, form, openings>>

RemoveFails(c) ==
    /\ callStep[c] = "remove"
    /\ \/ End(c) /\ UNCHANGED row
       \/ EndTold(c, FALSE) /\ row' = [row EXCEPT ![calling[c].row] = 0]
    /\ UNCHANGED <<page, taken, shown, loaded, form, openings>>

(***************************************************************************)
(* What is shown.  An answer closes its form: whichever opening of it is   *)
(* open by now.                                                            *)
(***************************************************************************)
FormClosedBy(f) == IF form.form = f THEN NothingOpen ELSE form

\* Mutant: what is put in the list is the answer of the save, not of the file.
ShowAnswerOfTheSave(c) ==
    LET call == calling[c]
        list == IF call.form.then = "captured" THEN call.list ELSE shown
    IN  /\ callStep[c] = "show"
        /\ shown' = [list EXCEPT ![call.row] =
              IF call.op = "remove" THEN 0
              ELSE IF call.op = "create" THEN 1
              ELSE IF @ = 0 THEN 0 ELSE call.seen]
        /\ form' = FormClosedBy(call.form)
        /\ End(c)
        /\ UNCHANGED <<page, row, taken, loaded, openings>>

\* The row of a create is put first; that of an edit in its place, if it has
\* one; a removed row is taken out.
ShowAnswer(c) ==
    LET call == calling[c]
        list == IF call.form.then = "captured" THEN call.list ELSE shown
    IN  /\ callStep[c] = "show"
        /\ shown' = [list EXCEPT ![call.row] =
              IF call.op # "create" /\ @ = 0 THEN 0 ELSE call.seen]
        /\ form' = FormClosedBy(call.form)
        /\ End(c)
        /\ UNCHANGED <<page, row, taken, loaded, openings>>

ReadList(c) ==
    /\ callStep[c] = "read"
    /\ calling' = [calling EXCEPT ![c].list = row]
    /\ Step(c, "show-list")
    /\ UNCHANGED <<page, row, taken, shown, loaded, form, openings>>

ShowList(c) ==
    LET call == calling[c]
    IN  /\ callStep[c] = "show-list"
        /\ shown' = call.list
        /\ loaded' = TRUE
        /\ form' = IF call.form.then = "reload" THEN FormClosedBy(call.form) ELSE form
        /\ End(c)
        /\ UNCHANGED <<page, row, taken, openings>>

ListFails(c) ==
    /\ callStep[c] \in {"read", "show-list"}
    /\ loaded' = TRUE
    /\ EndTold(c, FALSE)
    /\ UNCHANGED <<page, row, taken, shown, form, openings>>

PagesInit ==
    /\ page \in Pages
    /\ taken \in SUBSET PageRows
    /\ row = [r \in PageRows |-> IF r \in taken THEN 1 ELSE 0]
    /\ shown = NoListShown
    /\ loaded = FALSE
    /\ form = NothingOpen
    /\ openings = [n \in Openings |-> NotOpened]
    /\ callStep = [c \in PageCalls |-> "idle"]
    /\ calling = [c \in PageCalls |-> NoPageCall]
    /\ astray = FALSE

PagesNext ==
    \/ CloseForm
    \/ \E f \in page.forms, r \in PageRows \cup {NoPageRow} : OpenForm(f, r)
    \/ \E c \in PageCalls :
          \/ LoadPage(c)
          \/ SubmitForm(c)
          \/ ResendFile(c)
          \/ GiveFileUp(c)
          \/ \E r \in PageRows : RemoveRow(c, r) \/ Save(c, r)
          \/ SaveTheSame(c)
          \/ SaveFails(c)
          \/ SendFile(c)
          \/ FileFails(c)
          \/ Remove(c)
          \/ RemoveFails(c)
          \/ ShowAnswer(c)
          \/ ReadList(c)
          \/ ShowList(c)
          \/ ListFails(c)

(***************************************************************************)
(* Properties.                                                             *)
(***************************************************************************)
\* Once nothing is in flight, and no form is left to send its file again, a page
\* shows the rows as they are: unless a load or a captured list crossed another
\* call, two calls changed one row at a time, or a call took effect that the page
\* took for failed, or that was reported to a form already left.
PagesShowTheirRows ==
    loaded /\ InFlight = {} /\ ~ form.resend /\ ~ astray => shown = row

\* A form takes effect once, however often it is saved: unless its button is
\* not held while a call is in flight, an answer was lost, or a file failed that
\* fails the save.  A button held for good takes effect once whatever happens,
\* and so does a form that the server takes once.
FormsSaveOnce ==
    \A n \in Openings :
       LET f == openings[n].form
       IN  openings[n].effects > 1 =>
              /\ f.twice = "again"
              /\ f.holds # "for-good"
              /\ \/ f.holds = "never" /\ openings[n].again
                 \/ "answer" \in openings[n].failed
                 \/ f.file = "with-the-save" /\ "file" \in openings[n].failed
=============================================================================
