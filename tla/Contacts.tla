-------------------------------- MODULE Contacts --------------------------------
(***************************************************************************)
(* The contacts and their categories (ContactsService,                     *)
(* ContactCategoriesService), and the form a contact is entered with       *)
(* (ContactFormModal), which one browser has before it.                    *)
(*                                                                         *)
(* Two contacts are similar if they share a mark: a phone number, an       *)
(* e-mail address, or a name within an organisation.  No key of the        *)
(* database tells them apart: a contact is looked for, then inserted.  A   *)
(* handler refused by the checks that follow its first read is not a step. *)
(***************************************************************************)
EXTENDS Naturals, FiniteSets

CONSTANTS
    MaxContacts,     \* bound: contacts entered
    Marks,           \* what makes contacts similar
    CategoryNames,   \* categories of contacts
    NoName,          \* of no category
    ContactWorkers   \* handlers that may overlap

ASSUME ContactsAssumption == MaxContacts \in Nat /\ NoName \notin CategoryNames

VARIABLES
    contacts,       \* the rows of contacts
    categoryState,  \* the rows of categories
    unsought,       \* history: contacts not looked for, or too early, while active
    unchecked,      \* history: contacts whose category was not, or too early
    working,        \* what every handler does, and holds in memory
    contactForm,    \* the form, and the contacts it was told are saved
    picked,         \* the contact it has picked, if any, since it was opened
    left            \* history: the form was left while a call of it was in flight

contactVars ==
    <<contacts, categoryState, unsought, unchecked, working, contactForm, picked, left>>

Directory == <<contacts, categoryState, unsought, unchecked>>
Browser == <<contactForm, picked, left>>

ContactIds == 1..MaxContacts
NoContact == 0

ContactRows ==
    [state : {"absent", "active", "inactive"}, marks : SUBSET Marks,
     category : CategoryNames \cup {NoName}]

IsActive(c) == contacts[c].state = "active"
IsThere(c) == contacts[c].state # "absent"
IsNextContact(c) == ~ IsThere(c) /\ \A d \in ContactIds : d < c => IsThere(d)

Similar(m, n) == m \cap n # {}

(***************************************************************************)
(* step: the next statement of a handler, or the answer on its way to the  *)
(* form.  contact: the row it is about.  heard: the form waits for it.     *)
(* forced: similar contacts are not looked for.  stale: what it has read   *)
(* of the contacts and the categories, if others have written since.  What *)
(* a request holds besides is chosen where it is first used.               *)
(***************************************************************************)
Idle ==
    [step |-> "idle", contact |-> NoContact, marks |-> {}, category |-> NoName,
     heard |-> FALSE, forced |-> FALSE, stale |-> {}]

Reads(step) ==
    CASE step = "find-duplicate" -> {"category"}
      [] step = "insert" -> {"category", "similar"}
      [] step = "update" -> {"category"}
      [] step = "close-category" -> {"users"}
      [] OTHER -> {}

StartStep(w, step, call) ==
    /\ working[w] = Idle
    /\ working' = [working EXCEPT ![w] = [call EXCEPT !.step = step]]

\* What the others have read is stale after a write.
Written(workers) ==
    [v \in ContactWorkers |->
        IF v \in workers THEN working[v]
        ELSE [working[v] EXCEPT !.stale = @ \cup Reads(working[v].step)]]

\* A handler ends, with an answer if the form waits for it.
Answer(w, step, c) ==
    IF working[w].heard
    THEN [Idle EXCEPT !.step = step, !.contact = c, !.heard = TRUE,
                      !.forced = working[w].forced]
    ELSE Idle

(***************************************************************************)
(* ContactsService.                                                        *)
(***************************************************************************)
StartCreateContact(w, k, call) ==
    /\ categoryState[k] = "active"
    /\ StartStep(w, IF call.forced THEN "insert" ELSE "find-duplicate",
             [call EXCEPT !.category = k])
    /\ UNCHANGED Directory

CreateElsewhere(w, m, k, forced) ==
    /\ StartCreateContact(w, k, [Idle EXCEPT !.marks = m, !.forced = forced])
    /\ UNCHANGED Browser

SimilarContacts(w) ==
    {c \in ContactIds : IsActive(c) /\ Similar(contacts[c].marks, working[w].marks)}

FindDuplicate(w) ==
    /\ working[w].step = "find-duplicate"
    /\ \/ /\ SimilarContacts(w) = {}
          /\ working' = [working EXCEPT ![w].step = "insert"]
       \/ \E c \in SimilarContacts(w) :
             working' = [working EXCEPT ![w] = Answer(w, "possible-duplicate", c)]
    /\ UNCHANGED <<Directory, Browser>>

InsertContact(w, c) ==
    LET h == working[w]
    IN  /\ h.step = "insert"
        /\ IsNextContact(c)
        /\ contacts' = [contacts EXCEPT
              ![c] = [state |-> "active", marks |-> h.marks, category |-> h.category]]
        /\ unsought' = unsought \cup {d \in {c} : h.forced \/ "similar" \in h.stale}
        /\ unchecked' = unchecked \cup {d \in {c} : "category" \in h.stale}
        /\ working' = [Written({w}) EXCEPT ![w] = Answer(w, "created", c)]
        /\ UNCHANGED <<categoryState, Browser>>

\* A dto may name no category: then none is looked at.
StartUpdate(w, c, k) ==
    /\ IsThere(c)
    /\ k # NoName => categoryState[k] = "active"
    /\ StartStep(w, "update", [Idle EXCEPT !.contact = c, !.category = k])
    /\ UNCHANGED <<Directory, Browser>>

UpdateContact(w, m) ==
    LET h == working[w]
    IN  /\ h.step = "update"
        /\ contacts' = [contacts EXCEPT ![h.contact].marks = m,
              ![h.contact].category = IF h.category = NoName THEN @ ELSE h.category]
        /\ unsought' = unsought \cup {d \in {h.contact} : IsActive(d)}
        /\ unchecked' = unchecked \cup
              {d \in {h.contact} :
                 IsActive(d) /\ h.category # NoName /\ "category" \in h.stale}
        /\ working' = [Written({w}) EXCEPT ![w] = Idle]
        /\ UNCHANGED <<categoryState, Browser>>

Deactivate(c) ==
    /\ IsThere(c)
    /\ contacts' = [contacts EXCEPT ![c].state = "inactive"]
    /\ unsought' = unsought \ {c}
    /\ unchecked' = unchecked \ {c}
    /\ UNCHANGED <<categoryState, working, Browser>>

\* Nothing is looked for, and no category looked at.
Reactivate(c) ==
    /\ IsThere(c)
    /\ contacts' = [contacts EXCEPT ![c].state = "active"]
    /\ unsought' = unsought \cup {c}
    /\ unchecked' = unchecked \cup {c}
    /\ working' = Written({})
    /\ UNCHANGED <<categoryState, Browser>>

(***************************************************************************)
(* ContactCategoriesService.                                               *)
(***************************************************************************)
CreateCategory(k) ==
    /\ categoryState[k] = "absent"
    /\ categoryState' = [categoryState EXCEPT ![k] = "active"]
    /\ UNCHANGED <<contacts, unsought, unchecked, working, Browser>>

ContactsOf(k) == {c \in ContactIds : IsActive(c) /\ contacts[c].category = k}

\* Mutant: its contacts are not counted.
StartCloseCategoryInUse(w, k) ==
    /\ categoryState[k] # "absent"
    /\ StartStep(w, "close-category", [Idle EXCEPT !.category = k])
    /\ UNCHANGED <<Directory, Browser>>

StartCloseCategory(w, k) ==
    /\ ContactsOf(k) = {}
    /\ categoryState[k] # "absent"
    /\ StartStep(w, "close-category", [Idle EXCEPT !.category = k])
    /\ UNCHANGED <<Directory, Browser>>

CloseCategory(w) ==
    LET h == working[w]
    IN  /\ h.step = "close-category"
        /\ categoryState' = [categoryState EXCEPT ![h.category] = "inactive"]
        /\ unchecked' = unchecked \cup {c \in ContactsOf(h.category) : "users" \in h.stale}
        /\ working' = [Written({w}) EXCEPT ![w] = Idle]
        /\ UNCHANGED <<contacts, unsought, Browser>>

(***************************************************************************)
(* ContactFormModal.  duplicate: the contact it proposes instead.  saved:  *)
(* a contact saved whose photo failed.  held: the buttons that are         *)
(* disabled.  told: contacts it was told are saved.                        *)
(***************************************************************************)
NewForm ==
    [shown |-> TRUE, duplicate |-> NoContact, saved |-> NoContact, held |-> {}, told |-> {}]

Forms ==
    [shown : BOOLEAN, duplicate : ContactIds \cup {NoContact},
     saved : ContactIds \cup {NoContact}, told : SUBSET ContactIds,
     held : SUBSET {"saving", "resolving", "retrying"}]

Panel ==
    IF ~ contactForm.shown THEN "none"
    ELSE IF contactForm.duplicate # NoContact THEN "duplicate"
    ELSE IF contactForm.saved # NoContact THEN "photo"
    ELSE "fields"

HeardCalls == {w \in ContactWorkers : working[w].heard}

OpenContactForm ==
    /\ ~ contactForm.shown
    /\ contactForm' = NewForm
    /\ picked' = NoContact
    /\ UNCHANGED <<Directory, working, left>>

Hide(f, calls) ==
    /\ contactForm' = [NewForm EXCEPT !.shown = FALSE, !.told = f.told]
    /\ left' = (left \/ calls # {})

\* onSaved, then onClose.
SavedAndClosed(c, calls) ==
    /\ picked' = c
    /\ Hide([contactForm EXCEPT !.told = @ \cup {c}], calls)

\* Mutant: the contact saved is not handed over.
RequestCloseAndForget ==
    /\ contactForm.shown
    /\ Hide(contactForm, HeardCalls)
    /\ UNCHANGED <<Directory, working, picked>>

\* Also "Continuer sans la photo".
RequestClose ==
    /\ contactForm.shown
    /\ IF contactForm.saved # NoContact
       THEN SavedAndClosed(contactForm.saved, HeardCalls)
       ELSE Hide(contactForm, HeardCalls) /\ UNCHANGED picked
    /\ UNCHANGED <<Directory, working>>

Press(panel, button) ==
    /\ Panel = panel
    /\ button \notin contactForm.held
    /\ contactForm' = [contactForm EXCEPT !.held = @ \cup {button}]
    /\ UNCHANGED <<picked, left>>

HandleSubmit(w, m, k) ==
    /\ Press("fields", "saving")
    /\ StartCreateContact(w, k, [Idle EXCEPT !.marks = m, !.heard = TRUE])

HandleForceCreate(w, m, k) ==
    /\ Press("duplicate", "resolving")
    /\ StartCreateContact(w, k, [Idle EXCEPT !.marks = m, !.heard = TRUE, !.forced = TRUE])

HandleUseDuplicate(w) ==
    /\ Press("duplicate", "resolving")
    /\ StartStep(w, "got", [Idle EXCEPT !.contact = contactForm.duplicate, !.heard = TRUE])
    /\ UNCHANGED Directory

HandleRetryPhoto(w) ==
    /\ Press("photo", "retrying")
    /\ StartStep(w, "photo-again",
                 [Idle EXCEPT !.contact = contactForm.saved, !.heard = TRUE])
    /\ UNCHANGED Directory

CancelDuplicate ==
    /\ Panel = "duplicate"
    /\ "resolving" \notin contactForm.held
    /\ contactForm' = [contactForm EXCEPT !.duplicate = NoContact]
    /\ UNCHANGED <<Directory, working, picked, left>>

\* The button a call has held.
ButtonOf(w) ==
    IF working[w].step = "photo-again" THEN "retrying"
    ELSE IF working[w].forced \/ working[w].step = "got" THEN "resolving"
    ELSE "saving"

Released(w) == [contactForm EXCEPT !.held = @ \ {ButtonOf(w)}]

AnswerDuplicate(w) ==
    /\ working[w].step = "possible-duplicate"
    /\ contactForm' = [Released(w) EXCEPT !.duplicate = working[w].contact]
    /\ working' = [working EXCEPT ![w] = Idle]
    /\ UNCHANGED <<Directory, picked, left>>

\* A forced creation leaves its panel for the fields before the photo is sent.
CreatedWithPhoto(w) ==
    LET h == working[w]
    IN  /\ h.step = "created"
        /\ contactForm' = [contactForm EXCEPT !.told = @ \cup {h.contact},
                                !.duplicate = IF h.forced THEN NoContact ELSE @]
        /\ working' = [working EXCEPT ![w].step = "photo"]
        /\ UNCHANGED <<Directory, picked, left>>

Finished(w) ==
    LET h == working[w]
    IN  /\ h.step \in {"created", "got", "photo", "photo-again"}
        /\ SavedAndClosed(h.contact, HeardCalls \ {w})
        /\ working' = [working EXCEPT ![w] = Idle]
        /\ UNCHANGED Directory

PhotoFails(w) ==
    LET h == working[w]
    IN  /\ h.step \in {"photo", "photo-again"}
        /\ contactForm' = IF h.step = "photo"
                   THEN [Released(w) EXCEPT !.saved = h.contact]
                   ELSE Released(w)
        /\ working' = [working EXCEPT ![w] = Idle]
        /\ UNCHANGED <<Directory, picked, left>>

\* The form is told of a failure.  The handler may go on without it.
CallFails(w) ==
    LET h == working[w]
    IN  /\ h.heard
        /\ h.step \notin {"photo", "photo-again"}
        /\ contactForm' = Released(w)
        /\ \/ working' = [working EXCEPT ![w] = Idle]
           \/ Reads(h.step) # {} /\ working' = [working EXCEPT ![w].heard = FALSE]
        /\ UNCHANGED <<Directory, picked, left>>

ContactHandlerDies(w) ==
    /\ working[w] # Idle
    /\ ~ working[w].heard
    /\ working' = [working EXCEPT ![w] = Idle]
    /\ UNCHANGED <<Directory, Browser>>

ContactsInit ==
    /\ contacts = [c \in ContactIds |->
          [state |-> "absent", marks |-> {}, category |-> NoName]]
    /\ categoryState = [k \in CategoryNames |-> "absent"]
    /\ unsought = {}
    /\ unchecked = {}
    /\ working = [w \in ContactWorkers |-> Idle]
    /\ contactForm = [NewForm EXCEPT !.shown = FALSE]
    /\ picked = NoContact
    /\ left = FALSE

DirectoryNext ==
    \/ \E c \in ContactIds : Deactivate(c) \/ Reactivate(c)
    \/ \E k \in CategoryNames : CreateCategory(k)
    \/ \E w \in ContactWorkers :
          \/ \E k \in CategoryNames :
                \/ \E m \in SUBSET Marks, forced \in BOOLEAN :
                      CreateElsewhere(w, m, k, forced)
                \/ StartCloseCategory(w, k)
          \/ \E c \in ContactIds, k \in CategoryNames \cup {NoName} : StartUpdate(w, c, k)
          \/ FindDuplicate(w)
          \/ \E c \in ContactIds : InsertContact(w, c)
          \/ \E m \in SUBSET Marks : UpdateContact(w, m)
          \/ CloseCategory(w)
          \/ ContactHandlerDies(w)

FormNext ==
    \/ OpenContactForm
    \/ RequestClose
    \/ CancelDuplicate
    \/ \E w \in ContactWorkers :
          \/ \E m \in SUBSET Marks, k \in CategoryNames :
                HandleSubmit(w, m, k) \/ HandleForceCreate(w, m, k)
          \/ HandleUseDuplicate(w)
          \/ HandleRetryPhoto(w)
          \/ AnswerDuplicate(w)
          \/ CreatedWithPhoto(w)
          \/ Finished(w)
          \/ PhotoFails(w)
          \/ CallFails(w)

\* Bound: what a call does for a form that was left meanwhile is not followed.
ContactsNext == ~ left /\ (DirectoryNext \/ FormNext)

(***************************************************************************)
(* Of two active contacts that are similar one was entered by force,       *)
(* changed or re-activated, or entered while the other was written; and an *)
(* active contact is in an active category, unless it was re-activated, or *)
(* written while the category was being closed.                            *)
(***************************************************************************)
ContactsAreSought ==
    /\ \A c, d \in ContactIds :
          /\ c # d /\ IsActive(c) /\ IsActive(d)
          /\ Similar(contacts[c].marks, contacts[d].marks)
          => c \in unsought \/ d \in unsought
    /\ \A c \in ContactIds :
          IsActive(c) /\ categoryState[contacts[c].category] # "active" => c \in unchecked

(***************************************************************************)
(* A form that was told that a contact is saved leaves it picked when it   *)
(* closes, through a similar contact used instead, a forced creation, and  *)
(* photos that fail and are sent again, unless the user left it while it   *)
(* waited.                                                                 *)
(***************************************************************************)
SavedContactIsPicked ==
    ~ contactForm.shown /\ ~ left /\ contactForm.told # {} => picked \in contactForm.told
=============================================================================
