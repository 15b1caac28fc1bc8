------------------------------ MODULE Donations ------------------------------
(***************************************************************************)
(* The donations of hadoum_api: the handlers of DonationsService, of the   *)
(* transitions of CampaignsService, and of FinancesService as far as they  *)
(* touch the transactions that donations make.                             *)
(*                                                                         *)
(* A handler is a process, and every awaited statement is a step.  The     *)
(* database runs READ COMMITTED: what the transaction of create inserts is *)
(* seen by others from its commit on, except that an insert with the same  *)
(* unique key waits for that commit.                                       *)
(*                                                                         *)
(* Identifiers are fresh: a row bears the name of the call that makes it.  *)
(* So a donation and its transaction (Donation.transactionId) have the     *)
(* same name.  A handler refused by the checks that follow its first read  *)
(* is not a step.  An operator whose comment begins with "Mutant" is no    *)
(* part of the model: it is the operator below it with a plausible         *)
(* mistake, which a property of this module must catch.                    *)
(***************************************************************************)
EXTENDS Naturals, FiniteSets

CONSTANTS
    Requests,     \* the HTTP calls of a behaviour, each made once
    NoRequest,    \* the row of a handler that has none
    Keys,         \* idempotency keys: a retry bears the key of the first try
    EmptyKey,     \* the empty string, which the DTO lets through as a key
    NoKey,        \* the key of a call that gives none
    Donors,       \* donor profiles, each with its contact
    Campaigns,    \* fundraising campaigns
    NoCampaign,   \* the campaign of a donation to none
    Amounts,      \* amounts of donations and transactions
    NoAmount,     \* the amount a PATCH leaves out
    MaxInFlight,  \* bound: handlers that may overlap
    MaxFaults     \* bound: handlers that may die between two steps

ASSUME NullsAssumption ==
    /\ NoRequest \notin Requests
    /\ EmptyKey \notin Keys
    /\ NoKey \notin Keys \cup {EmptyKey}
    /\ NoCampaign \notin Campaigns
    /\ NoAmount \notin Amounts
ASSUME FaultsAssumption == MaxFaults \in Nat

VARIABLES
    donations,     \* the Donation rows
    transactions,  \* the Transaction rows
    campaigns,     \* the status of every campaign
    activeDonors,  \* donors whose profile and contact are active
    answers,       \* history: the donations given in answer to create, with the key
    pc,            \* the next step of every handler
    local,         \* what every handler holds in memory
    faults         \* handlers that died so far

rows == <<donations, transactions, campaigns, activeDonors>>

vars == <<donations, transactions, campaigns, activeDonors, answers, pc, local, faults>>

(***************************************************************************)
(* Rows.                                                                   *)
(***************************************************************************)
CampaignStatuses == {"BROUILLON", "ACTIVE", "TERMINEE", "ANNULEE"}

AllKeys == Keys \cup {EmptyKey, NoKey}

DonationRows ==
    [id : Requests,
     key : AllKeys,
     campaign : Campaigns \cup {NoCampaign},
     amountXof : Amounts]

\* A transaction is the income of a donation (type RECETTE, category DON) or not.
Kinds == {"DON", "OTHER"}

\* The service that made a row, which no column keeps, is history.
TransactionRows ==
    [id : Requests, madeBy : {"donations", "finances"}, kind : Kinds, amountXof : Amounts]

\* The body of a PATCH: NoAmount and "keep" stand for what it leaves out.
Patches == [kind : Kinds \cup {"keep"}, amountXof : Amounts \cup {NoAmount}]

NoPatch == [kind |-> "keep", amountXof |-> NoAmount]

(***************************************************************************)
(* The state machine of CampaignsService.                                  *)
(***************************************************************************)
AllowedTransitions ==
    [BROUILLON |-> {"ACTIVE", "ANNULEE"},
     ACTIVE |-> {"TERMINEE", "ANNULEE"},
     TERMINEE |-> {},
     ANNULEE |-> {}]

\* Mutant: a campaign that is not closed accepts donations.
AcceptsDonationsUnlessClosed(c) ==
    c = NoCampaign \/ campaigns[c] \notin {"TERMINEE", "ANNULEE"}

AcceptsDonations(c) == c = NoCampaign \/ campaigns[c] = "ACTIVE"

(***************************************************************************)
(* Handlers.  Steps after the first read:                                  *)
(*   donor, campaign      the checks of create                             *)
(*   ledger, insert, commit      its transaction                           *)
(*   reread, answer       its answer, after a unique violation or not      *)
(*   link, write          the second read and the write of Finance         *)
(*   move                 the write of a campaign's status                 *)
(***************************************************************************)
Steps == {"donor", "campaign", "ledger", "insert", "commit", "reread", "answer",
          "link", "write", "move"}

Calls == {"create", "patch", "delete", "transition"}

\* The row create will insert, the row Finance read, the donation to answer.
Locals ==
    [call : Calls \cup {"none"},
     dto : DonationRows \cup {NoRequest},
     donor : Donors \cup {NoRequest},
     target : TransactionRows \cup {NoRequest},
     patch : Patches,
     campaign : Campaigns \cup {NoCampaign},
     to : CampaignStatuses,
     found : Requests \cup {NoRequest}]

NoCall ==
    [call |-> "none", dto |-> NoRequest, donor |-> NoRequest, target |-> NoRequest,
     patch |-> NoPatch, campaign |-> NoCampaign, to |-> "BROUILLON", found |-> NoRequest]

InFlight == {r \in Requests : pc[r] \in Steps}

MayStart(r) == pc[r] = "idle" /\ Cardinality(InFlight) < MaxInFlight

Begin(r, step, handler) ==
    /\ MayStart(r)
    /\ pc' = [pc EXCEPT ![r] = step]
    /\ local' = [local EXCEPT ![r] = handler]
    /\ UNCHANGED <<rows, answers, faults>>

\* A handler served by one statement.
AtOnce(r) ==
    /\ MayStart(r)
    /\ pc' = [pc EXCEPT ![r] = "done"]
    /\ UNCHANGED <<local, answers, faults>>

Goto(r, step) == pc' = [pc EXCEPT ![r] = step]

Finish(r) ==
    /\ pc' = [pc EXCEPT ![r] = "done"]
    /\ local' = [local EXCEPT ![r] = NoCall]

\* It ends with an error, and nothing it wrote remains.
Refuse(r) == Finish(r) /\ UNCHANGED <<rows, answers, faults>>

(***************************************************************************)
(* DonationsService.create, up to its transaction.                         *)
(***************************************************************************)
\* Under the unique index, where NULL equals nothing.
WithKey(key) == {d \in donations : key # NoKey /\ d.key = key}

\* The handler takes the empty key for none, and does not look it up.
FindByKey(key) == IF key = EmptyKey THEN {} ELSE WithKey(key)

StartCreate(r, dto, donor) ==
    LET handler == [NoCall EXCEPT !.call = "create", !.dto = dto, !.donor = donor]
    IN  /\ dto.id = r
        /\ \/ FindByKey(dto.key) = {} /\ Begin(r, "donor", handler)
           \/ \E d \in FindByKey(dto.key) :
                 Begin(r, "answer", [handler EXCEPT !.found = d.id])

CheckDonor(r) ==
    /\ pc[r] = "donor"
    /\ IF local[r].donor \in activeDonors
       THEN Goto(r, "campaign") /\ UNCHANGED <<rows, answers, local, faults>>
       ELSE Refuse(r)

CheckCampaign(r) ==
    /\ pc[r] = "campaign"
    /\ IF AcceptsDonations(local[r].dto.campaign)
       THEN Goto(r, "ledger") /\ UNCHANGED <<rows, answers, local, faults>>
       ELSE Refuse(r)

(***************************************************************************)
(* Its transaction: createTransaction, the donation, the commit.           *)
(***************************************************************************)
\* What createTransaction is called with.
Income(dto) ==
    [id |-> dto.id, madeBy |-> "donations", kind |-> "DON", amountXof |-> dto.amountXof]

\* Mutant: createTransaction does not run in the transaction of the donation.
InsertTransactionApart(r) ==
    /\ pc[r] = "ledger"
    /\ transactions' = transactions \cup {Income(local[r].dto)}
    /\ Goto(r, "insert")
    /\ UNCHANGED <<donations, campaigns, activeDonors, answers, local, faults>>

\* Others see the row from the commit on.
InsertTransaction(r) ==
    /\ pc[r] = "ledger"
    /\ Goto(r, "insert")
    /\ UNCHANGED <<rows, answers, local, faults>>

\* Inserted by a transaction that has not ended.
KeyInFlight(key) ==
    key # NoKey /\ \E q \in Requests : pc[q] = "commit" /\ local[q].dto.key = key

\* Mutant: the column has no unique index.
KeyTakenNever(key) == FALSE

KeyTaken(key) == WithKey(key) # {}

\* The unique index makes the insert wait, and then fail (P2002) or not.
InsertDonation(r) ==
    LET key == local[r].dto.key
    IN  /\ pc[r] = "insert"
        /\ ~KeyInFlight(key)
        /\ IF KeyTaken(key) THEN Goto(r, "reread") ELSE Goto(r, "commit")
        /\ UNCHANGED <<rows, answers, local, faults>>

Commit(r) ==
    LET dto == local[r].dto
    IN  /\ pc[r] = "commit"
        /\ donations' = donations \cup {dto}
        /\ transactions' = transactions \cup {Income(dto)}
        /\ Goto(r, "answer")
        /\ local' = [local EXCEPT ![r].found = r]
        /\ UNCHANGED <<campaigns, activeDonors, answers, faults>>

(***************************************************************************)
(* Its answer.                                                             *)
(***************************************************************************)
Reread(r) ==
    /\ pc[r] = "reread"
    /\ \/ FindByKey(local[r].dto.key) = {} /\ Refuse(r)
       \/ \E d \in FindByKey(local[r].dto.key) :
             /\ Goto(r, "answer")
             /\ local' = [local EXCEPT ![r].found = d.id]
             /\ UNCHANGED <<rows, answers, faults>>

AnswerDonation(r) ==
    /\ pc[r] = "answer"
    /\ answers' = answers \cup {[key |-> local[r].dto.key, id |-> local[r].found]}
    /\ Finish(r)
    /\ UNCHANGED <<rows, faults>>

(***************************************************************************)
(* FinancesService.                                                        *)
(***************************************************************************)
CreateTransaction(r, kind, amount) ==
    /\ AtOnce(r)
    /\ transactions' = transactions \cup
          {[id |-> r, madeBy |-> "finances", kind |-> kind, amountXof |-> amount]}
    /\ UNCHANGED <<donations, campaigns, activeDonors>>

StartFinance(r, call, row, patch) ==
    Begin(r, "link", [NoCall EXCEPT !.call = call, !.target = row, !.patch = patch])

\* findLinkedDonation.
IsLinked(id) == \E d \in donations : d.id = id

\* Mutant: the kind of the transaction of a donation is not protected.
TouchesAmount(patch, row) == patch.amountXof \notin {NoAmount, row.amountXof}

TouchesProtectedField(patch, row) ==
    \/ patch.amountXof \notin {NoAmount, row.amountXof}
    \/ patch.kind \notin {"keep", row.kind}

CheckLink(r) ==
    LET h == local[r]
    IN  /\ pc[r] = "link"
        /\ IF /\ IsLinked(h.target.id)
              /\ h.call = "patch" => TouchesProtectedField(h.patch, h.target)
           THEN Refuse(r)
           ELSE Goto(r, "write") /\ UNCHANGED <<rows, answers, local, faults>>

\* Mutant: an amount the body leaves out is written too.
PatchedWhole(row, patch) ==
    [row EXCEPT !.amountXof = patch.amountXof,
                !.kind = IF patch.kind = "keep" THEN @ ELSE patch.kind]

Patched(row, patch) ==
    [row EXCEPT !.amountXof = IF patch.amountXof = NoAmount THEN @ ELSE patch.amountXof,
                !.kind = IF patch.kind = "keep" THEN @ ELSE patch.kind]

\* By id: fails when the row is gone.
WithId(id) == {t \in transactions : t.id = id}

WriteTransaction(r) ==
    LET h == local[r]
        old == WithId(h.target.id)
        new == IF h.call = "patch" THEN {Patched(t, h.patch) : t \in old} ELSE {}
    IN  /\ pc[r] = "write"
        /\ transactions' = (transactions \ old) \cup new
        /\ Finish(r)
        /\ UNCHANGED <<donations, campaigns, activeDonors, answers, faults>>

(***************************************************************************)
(* Campaigns and donors.                                                   *)
(***************************************************************************)
StartTransition(r, c, to) ==
    /\ to \in AllowedTransitions[campaigns[c]]
    /\ Begin(r, "move", [NoCall EXCEPT !.call = "transition", !.campaign = c, !.to = to])

\* By id, whatever the status has become.
MoveCampaign(r) ==
    /\ pc[r] = "move"
    /\ campaigns' = [campaigns EXCEPT ![local[r].campaign] = local[r].to]
    /\ Finish(r)
    /\ UNCHANGED <<donations, transactions, activeDonors, answers, faults>>

\* Activation of the profile or of its contact, and the reverse.
SetActive(r, donor) ==
    /\ AtOnce(r)
    /\ \/ activeDonors' = activeDonors \cup {donor}
       \/ activeDonors' = activeDonors \ {donor}
    /\ UNCHANGED <<donations, transactions, campaigns>>

(***************************************************************************)
(* A statement fails, or the process dies: the transaction rolls back, and *)
(* the client has no answer.                                               *)
(***************************************************************************)
Fail(r) ==
    /\ pc[r] \in Steps
    /\ faults < MaxFaults
    /\ faults' = faults + 1
    /\ Finish(r)
    /\ UNCHANGED <<rows, answers>>

\* Campaigns before their first donation.
Init ==
    /\ donations = {}
    /\ transactions = {}
    /\ campaigns \in [Campaigns -> {"BROUILLON", "ACTIVE"}]
    /\ activeDonors = Donors
    /\ answers = {}
    /\ pc = [r \in Requests |-> "idle"]
    /\ local = [r \in Requests |-> NoCall]
    /\ faults = 0

Start(r) ==
    \/ \E dto \in DonationRows, donor \in Donors : StartCreate(r, dto, donor)
    \/ \E kind \in Kinds, amount \in Amounts : CreateTransaction(r, kind, amount)
    \/ \E row \in transactions :
          \/ \E patch \in Patches : StartFinance(r, "patch", row, patch)
          \/ StartFinance(r, "delete", row, NoPatch)
    \/ \E c \in Campaigns, to \in CampaignStatuses : StartTransition(r, c, to)
    \/ \E donor \in Donors : SetActive(r, donor)

Step(r) ==
    \/ CheckDonor(r)
    \/ CheckCampaign(r)
    \/ InsertTransaction(r)
    \/ InsertDonation(r)
    \/ Commit(r)
    \/ Reread(r)
    \/ AnswerDonation(r)
    \/ CheckLink(r)
    \/ WriteTransaction(r)
    \/ MoveCampaign(r)

Next == \E r \in Requests : Start(r) \/ Step(r) \/ Fail(r)

Spec == Init /\ [][Next]_vars

-----------------------------------------------------------------------------
(***************************************************************************)
(* Properties.                                                             *)
(***************************************************************************)

\* Every variable keeps the shape of the rows, or of the handlers, it stands for.
TypeOK ==
    /\ donations \subseteq DonationRows
    /\ transactions \subseteq TransactionRows
    /\ campaigns \in [Campaigns -> CampaignStatuses]
    /\ activeDonors \subseteq Donors
    /\ answers \subseteq [key : AllKeys, id : Requests]
    /\ pc \in [Requests -> Steps \cup {"idle", "done"}]
    /\ local \in [Requests -> Locals]
    /\ faults \in 0..MaxFaults

\* A donation and the entry that create made for it are there together, with the
\* same amount, whatever Finance does to transactions and whenever a call dies.
LedgerMatchesDonations ==
    {t \in transactions : t.madeBy = "donations"} = {Income(d) : d \in donations}

\* Two calls with one key are answered by one donation, also when they overlap,
\* when the first had no answer, or when the second carries another body.
RetriesAgree ==
    /\ \A a, b \in answers : a.key = b.key /\ a.key # NoKey => a.id = b.id
    /\ \A a \in answers : \E d \in donations : d.id = a.id /\ d.key = a.key

\* A campaign has no donation before it is activated, whatever overlaps.
DraftsHaveNoDonations ==
    \A d \in donations : d.campaign # NoCampaign => campaigns[d.campaign] # "BROUILLON"

\* A campaign moves along the table of transitions, and never leaves a final status.
OnlyAllowedTransitions ==
    [][ \A c \in Campaigns :
            campaigns'[c] # campaigns[c] =>
                campaigns'[c] \in AllowedTransitions[campaigns[c]] ]_vars

(***************************************************************************)
(* The donations, and the entries made for them, implement DonationLedger. *)
(***************************************************************************)
Gifts ==
    {[id |-> d.id, key |-> d.key, amountXof |-> d.amountXof] : d \in donations}

Credits ==
    {[id |-> t.id, amountXof |-> t.amountXof] :
        t \in {u \in transactions : u.madeBy = "donations" /\ u.kind = "DON"}}

Ledger == INSTANCE DonationLedger WITH
    Ids <- Requests, Keys <- Keys \cup {EmptyKey}, gifts <- Gifts, credits <- Credits

\* Every behaviour records each donation and its entry in one step, keeps both
\* for good, and answers a call with the donation that bears its key.
ImplementsLedger == Ledger!Spec
=============================================================================
