------------------------------ MODULE ContactSearch ------------------------------
(***************************************************************************)
(* The box that looks for a contact (ContactAutocomplete) and its search   *)
(* (useContactSearch).  What is typed, the category chosen, and whether    *)
(* the list is open are asked for after a pause: every change starts the   *)
(* pause again, and nothing stops a request already sent.  Requests are    *)
(* answered in any order, or fail, also after the list was closed.         *)
(*                                                                         *)
(* A caller may restrict the box to categories it names by key: until the  *)
(* call that lists the categories is answered, the box cannot tell.        *)
(***************************************************************************)
EXTENDS Naturals, FiniteSets

CONSTANTS
    Texts,         \* what may be typed, the names of the contacts among them
    NoText,        \* of no request
    Categories,    \* of contacts
    NoCategory,    \* of a request for contacts of any
    MaxOvertaken   \* bound: requests in flight before the latest

ASSUME SearchAssumption ==
    /\ NoText \notin Texts
    /\ NoCategory \notin Categories
    /\ IsFiniteSet(Categories)

VARIABLES
    restriction,      \* the categories the caller wants, {} if any will do
    categoriesRead,   \* the categories were listed
    box,              \* the box
    waiting,          \* the requests in flight: the latest, and those before it
    listedFor         \* the request whose answer is listed

searchVars == <<restriction, categoriesRead, box, waiting, listedFor>>

Requests == [text : Texts, category : Categories \cup {NoCategory}]

NoRequest == [text |-> NoText, category |-> NoCategory]

\* pausing: the timer of the search runs.  form: the form of a new contact is open.
Boxes ==
    [open : BOOLEAN, pausing : BOOLEAN, form : BOOLEAN, text : Texts,
     filter : Categories \cup {NoCategory}]

\* allowedCategoryIds: not to be told from no restriction while nothing was read.
Wanted(read) == IF read THEN restriction ELSE {}

ChipCategories ==
    IF ~ categoriesRead THEN {} ELSE IF restriction = {} THEN Categories ELSE restriction

Request(b, read) ==
    [text |-> b.text,
     category |->
        IF b.filter # NoCategory THEN b.filter
        ELSE IF Cardinality(Wanted(read)) = 1 THEN CHOOSE c \in Wanted(read) : TRUE
        ELSE NoCategory]

\* The categories of the contacts listed.  Where several are wanted and none is
\* chosen, the box itself keeps the contacts of those.
ListedCategories ==
    {c \in Categories :
        /\ listedFor.category \in {NoCategory, c}
        /\ Cardinality(Wanted(categoriesRead)) > 1 /\ box.filter = NoCategory =>
              c \in Wanted(categoriesRead)}

\* The pause begins again when the request of an open list is another one.
RenderBox(b, read) ==
    box' = [b EXCEPT !.pausing =
        /\ b.open
        /\ \/ box.pausing
           \/ ~ box.open
           \/ Request(b, read) # Request(box, categoriesRead)]

(***************************************************************************)
(* The box.  Nothing of it can be reached behind the form.                 *)
(***************************************************************************)
Act(b) ==
    /\ ~ box.form
    /\ RenderBox(b, categoriesRead)
    /\ UNCHANGED <<restriction, categoriesRead, waiting, listedFor>>

Type(t) == Act([box EXCEPT !.open = TRUE, !.text = t])

OpenDropdown == ~ box.open /\ Act([box EXCEPT !.open = TRUE])

\* The name of the selected contact is put back.
CloseDropdown(t) == box.open /\ Act([box EXCEPT !.open = FALSE, !.text = t])

ChooseCategory(c) ==
    /\ box.open
    /\ Cardinality(ChipCategories) > 1
    /\ c \in ChipCategories \cup {NoCategory}
    /\ Act([box EXCEPT !.filter = c])

CommitSelection(t) ==
    /\ box.open
    /\ listedFor # NoRequest
    /\ Act([box EXCEPT !.open = FALSE, !.text = t])

\* The box may have lost the focus, which opens the list.
Clear(t, isOpen) == Act([box EXCEPT !.text = t, !.open = @ \/ isOpen])

OpenCreate(t) ==
    /\ box.open
    /\ Act([box EXCEPT !.open = FALSE, !.form = TRUE, !.text = t])

\* With or without a contact saved: the list is opened again.
CloseCreate(t) ==
    /\ box.form
    /\ RenderBox([box EXCEPT !.form = FALSE, !.open = TRUE, !.text = t], categoriesRead)
    /\ UNCHANGED <<restriction, categoriesRead, waiting, listedFor>>

ReadCategories ==
    /\ ~ categoriesRead
    /\ categoriesRead' = TRUE
    /\ RenderBox(box, TRUE)
    /\ UNCHANGED <<restriction, waiting, listedFor>>

(***************************************************************************)
(* The search.                                                             *)
(***************************************************************************)
Ask ==
    /\ box.pausing
    /\ waiting.latest # NoRequest => Cardinality(waiting.before) < MaxOvertaken
    /\ box' = [box EXCEPT !.pausing = FALSE]
    /\ waiting' = [latest |-> Request(box, categoriesRead),
                   before |-> waiting.before \cup ({waiting.latest} \ {NoRequest})]
    /\ UNCHANGED <<restriction, categoriesRead, listedFor>>

\* Nothing is listed after a failure.
AnswerLatest ==
    /\ waiting.latest # NoRequest
    /\ listedFor' \in {waiting.latest, NoRequest}
    /\ waiting' = [waiting EXCEPT !.latest = NoRequest]
    /\ UNCHANGED <<restriction, categoriesRead, box>>

Overtaken(q) ==
    /\ q \in waiting.before
    /\ waiting' = [waiting EXCEPT !.before = @ \ {q}]
    /\ UNCHANGED <<restriction, categoriesRead, box>>

\* Mutant: whatever arrives is listed.
AnswerListedAnyway(q) == Overtaken(q) /\ listedFor' = q

\* An answer is listed if no request was sent after its own.
AnswerOvertaken(q) == Overtaken(q) /\ UNCHANGED listedFor

SearchInit ==
    /\ restriction \in SUBSET Categories
    /\ categoriesRead = FALSE
    /\ \E t \in Texts :
          box = [open |-> FALSE, pausing |-> FALSE, form |-> FALSE, text |-> t,
                 filter |-> NoCategory]
    /\ waiting = [latest |-> NoRequest, before |-> {}]
    /\ listedFor = NoRequest

SearchNext ==
    \/ \E t \in Texts :
          \/ Type(t)
          \/ CloseDropdown(t)
          \/ CommitSelection(t)
          \/ \E isOpen \in BOOLEAN : Clear(t, isOpen)
          \/ OpenCreate(t)
          \/ CloseCreate(t)
    \/ OpenDropdown
    \/ \E c \in Categories \cup {NoCategory} : ChooseCategory(c)
    \/ ReadCategories
    \/ Ask
    \/ AnswerLatest
    \/ \E q \in Requests : AnswerOvertaken(q)

(***************************************************************************)
(* An open list that waits for nothing lists the answer to what is typed   *)
(* and chosen now, or a failure, in whatever order requests were answered; *)
(* and once the categories were listed, nobody outside the categories that *)
(* the caller wants.                                                       *)
(***************************************************************************)
ListIsWhatIsAsked ==
    box.open /\ ~ box.pausing /\ waiting.latest = NoRequest /\ listedFor # NoRequest =>
       /\ listedFor = Request(box, categoriesRead)
       /\ categoriesRead /\ restriction # {} => ListedCategories \subseteq restriction
=============================================================================
