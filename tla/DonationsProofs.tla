--------------------------- MODULE DonationsProofs ---------------------------
(***************************************************************************)
(* What Donations guarantees whatever calls overlap and whenever one dies: *)
(* a donation and its entry agree, retries are answered by one donation,   *)
(* and the whole implements DonationLedger.                                *)
(***************************************************************************)
EXTENDS Donations, TLAPS

(***************************************************************************)
(* The inductive invariant.  PATCH and delete write without a guard: it is *)
(* enough that the row they found linked is still as it was, and that a    *)
(* row they found free can get no donation any more.                       *)
(***************************************************************************)

\* A row gets its donation, if any, from the commit of the call it is named for.
Past(id) == pc[id] \in {"answer", "done"}

\* The primary key and the unique index of the keys.
OneDonationEach ==
    \A a, b \in donations :
        a.id = b.id \/ (a.key = b.key /\ a.key # NoKey) => a = b

DonationsArePast == \A d \in donations : Past(d.id)

\* A transaction that Finance made never gets a donation.
FinanceRowsAreFree ==
    \A t \in transactions :
        t.madeBy = "finances" => pc[t.id] = "done" /\ ~IsLinked(t.id)

\* Inserts with one key do not run side by side.
OneInsertPerKey ==
    \A q, r \in Requests :
        /\ pc[q] = "commit" /\ pc[r] = "commit"
        /\ local[q].dto.key = local[r].dto.key /\ local[q].dto.key # NoKey
        => q = r

InCreate == {"donor", "campaign", "ledger", "insert", "commit", "reread"}

\* create will insert its own row, for an activated campaign.
SoundCreate(r) ==
    /\ pc[r] \in InCreate => local[r].dto \in DonationRows /\ local[r].dto.id = r
    /\ pc[r] \in {"ledger", "insert", "commit"} =>
          (local[r].dto.campaign # NoCampaign =>
              campaigns[local[r].dto.campaign] # "BROUILLON")
    /\ pc[r] = "commit" => WithKey(local[r].dto.key) = {}

\* It answers with a donation that bears its key.
SoundAnswer(r) ==
    pc[r] = "answer" =>
        /\ local[r].dto \in DonationRows
        /\ \E d \in donations : d.id = local[r].found /\ d.key = local[r].dto.key

\* PATCH and delete leave what belongs to a donation as it is.
SoundFinance(r) ==
    /\ pc[r] \in {"link", "write"} =>
          /\ local[r].target \in TransactionRows
          /\ Past(local[r].target.id)
          /\ IsLinked(local[r].target.id) =>
                \E d \in donations : local[r].target = Income(d)
    /\ pc[r] = "write" /\ IsLinked(local[r].target.id) =>
          local[r].call = "patch" /\ ~TouchesProtectedField(local[r].patch, local[r].target)

\* No transition leads back to a draft.
SoundMove(r) ==
    pc[r] = "move" => local[r].campaign \in Campaigns /\ local[r].to # "BROUILLON"

SoundHandler(r) == SoundCreate(r) /\ SoundAnswer(r) /\ SoundFinance(r) /\ SoundMove(r)

IInv ==
    /\ TypeOK
    /\ LedgerMatchesDonations
    /\ RetriesAgree
    /\ DraftsHaveNoDonations
    /\ OneDonationEach
    /\ DonationsArePast
    /\ FinanceRowsAreFree
    /\ OneInsertPerKey
    /\ \A r \in Requests : SoundHandler(r)

USE NullsAssumption, FaultsAssumption

-----------------------------------------------------------------------------
(***************************************************************************)
(* The invariant, cut by what its parts are about: the rows and answers,   *)
(* and the handlers.                                                       *)
(***************************************************************************)

\* What it says of the rows, and of what clients were told about them.
RowsOK ==
    /\ donations \subseteq DonationRows
    /\ transactions \subseteq TransactionRows
    /\ campaigns \in [Campaigns -> CampaignStatuses]
    /\ activeDonors \subseteq Donors
    /\ answers \subseteq [key : AllKeys, id : Requests]
    /\ LedgerMatchesDonations
    /\ RetriesAgree
    /\ DraftsHaveNoDonations
    /\ OneDonationEach

\* What it says of the calls, and of the rows they will still touch.
CallsOK ==
    /\ pc \in [Requests -> Steps \cup {"idle", "done"}]
    /\ local \in [Requests -> Locals]
    /\ faults \in 0..MaxFaults
    /\ DonationsArePast
    /\ FinanceRowsAreFree
    /\ OneInsertPerKey
    /\ \A r \in Requests : SoundHandler(r)

\* The invariant is the conjunction of its two parts.
LEMMA IInvParts == IInv <=> RowsOK /\ CallsOK
  BY DEF IInv, RowsOK, CallsOK, TypeOK

\* And so it is after a step.
LEMMA IInvPartsNext == RowsOK' /\ CallsOK' => IInv'
  BY DEF IInv, RowsOK, CallsOK, TypeOK

\* No row to begin with.
LEMMA InitOK == Init => IInv
<1> SUFFICES ASSUME Init PROVE IInv
  OBVIOUS
<1>1. RowsOK
  BY DEF Init, RowsOK, LedgerMatchesDonations, RetriesAgree, DraftsHaveNoDonations,
         OneDonationEach, CampaignStatuses
<1>2. NoCall \in Locals
  BY DEF NoCall, Locals, NoPatch, Patches, CampaignStatuses
<1>3. CallsOK
  BY <1>2 DEF Init, CallsOK, DonationsArePast, FinanceRowsAreFree, OneInsertPerKey,
              SoundHandler, SoundCreate, SoundAnswer, SoundFinance, SoundMove, InCreate
<1>4. QED  BY <1>1, <1>3, IInvParts

-----------------------------------------------------------------------------
(***************************************************************************)
(* A step of one call leaves the others sound.                             *)
(***************************************************************************)

\* The call r takes its next step: it does not begin again, and does not take
\* back that it is past its commit.
Advances(r, step, h) ==
    /\ pc[r] # "done"
    /\ pc[r] = "answer" => step = "done"
    /\ pc' = [pc EXCEPT ![r] = step]
    /\ local' = [local EXCEPT ![r] = h]

\* The donations stay, or gain the one that r was about to commit.
DonationsGrowBy(r) ==
    \/ donations' = donations
    \/ pc[r] = "commit" /\ donations' = donations \cup {local[r].dto}

\* No campaign becomes a draft.
NoNewDraft ==
    \A c \in Campaigns : campaigns'[c] = "BROUILLON" => campaigns[c] = "BROUILLON"

\* What is past stays so.
LEMMA PastStays ==
    ASSUME CallsOK, NEW r \in Requests, NEW step, NEW h, Advances(r, step, h)
    PROVE  \A id \in Requests : Past(id) => pc'[id] \in {"answer", "done"}
  BY DEF CallsOK, Advances, Past

\* A row that is past gets no donation any more.
LEMMA LinksStay ==
    ASSUME CallsOK, NEW r \in Requests, DonationsGrowBy(r)
    PROVE  \A id \in Requests :
               Past(id) => ((\E d \in donations' : d.id = id) <=> IsLinked(id))
<1>1. pc[r] = "commit" => local[r].dto.id = r
  BY DEF CallsOK, SoundHandler, SoundCreate, InCreate
<1>2. QED
  BY <1>1 DEF IsLinked, DonationsGrowBy, Past

\* The calls that do not move stay sound.
LEMMA OthersStaySound ==
    ASSUME CallsOK, RowsOK, NEW r \in Requests, NEW step, NEW h, Advances(r, step, h),
           DonationsGrowBy(r), NoNewDraft, NEW q \in Requests, q # r
    PROVE  SoundHandler(q)'
<1>1. pc'[q] = pc[q] /\ local'[q] = local[q]
  BY DEF Advances, CallsOK
<1>2. SoundCreate(q) /\ SoundAnswer(q) /\ SoundFinance(q) /\ SoundMove(q)
  BY DEF CallsOK, SoundHandler
<1>3. SoundCreate(q)'
  <2>1. local[q].dto \in DonationRows /\ local[q].dto.campaign # NoCampaign
            => local[q].dto.campaign \in Campaigns
    BY DEF DonationRows
  <2>2. pc[q] \in {"ledger", "insert", "commit"} => pc[q] \in InCreate
    BY DEF InCreate
  <2>3. pc[q] = "commit" => WithKey(local[q].dto.key)' = {}
    <3> SUFFICES ASSUME pc[q] = "commit" PROVE WithKey(local[q].dto.key)' = {}
      OBVIOUS
    <3>1. WithKey(local[q].dto.key) = {}
      BY <1>2 DEF SoundCreate
    <3>2. pc[r] = "commit" =>
              local[q].dto.key # local[r].dto.key \/ local[q].dto.key = NoKey
      BY DEF CallsOK, OneInsertPerKey
    <3>3. QED  BY <1>1, <3>1, <3>2 DEF WithKey, DonationsGrowBy
  <2>4. QED  BY <1>1, <1>2, <2>1, <2>2, <2>3 DEF SoundCreate, NoNewDraft
<1>4. SoundAnswer(q)'
  BY <1>1, <1>2 DEF SoundAnswer, DonationsGrowBy
<1>5. SoundFinance(q)'
  <2> SUFFICES ASSUME pc[q] \in {"link", "write"} PROVE SoundFinance(q)'
    BY <1>1 DEF SoundFinance
  <2>1. local[q].target \in TransactionRows /\ Past(local[q].target.id)
    BY <1>2 DEF SoundFinance
  <2>2. local[q].target.id \in Requests
    BY <2>1 DEF TransactionRows
  <2>3. Past(local[q].target.id)'
    BY <1>1, <2>1, <2>2, PastStays DEF Past
  <2>4. IsLinked(local[q].target.id)' <=> IsLinked(local[q].target.id)
    BY <1>1, <2>1, <2>2, LinksStay DEF IsLinked
  <2>5. donations \subseteq donations'
    BY DEF DonationsGrowBy
  <2>6. QED
    BY <1>1, <1>2, <2>1, <2>3, <2>4, <2>5 DEF SoundFinance, Income, TouchesProtectedField
<1>6. SoundMove(q)'
  BY <1>1, <1>2 DEF SoundMove
<1>7. QED  BY <1>3, <1>4, <1>5, <1>6 DEF SoundHandler

\* The transactions of Finance stay, or gain the one that r makes at once.
FinanceRowsGrowBy(r, step) ==
    \A t \in transactions' :
        t.madeBy = "finances" =>
            \/ \E u \in transactions : u.madeBy = "finances" /\ u.id = t.id
            \/ t.id = r /\ pc[r] = "idle" /\ step = "done" /\ donations' = donations

\* What is left to show of a step of r: that r itself stays sound.
LEMMA CallAdvances ==
    ASSUME RowsOK, CallsOK,
           NEW r \in Requests, NEW step \in Steps \cup {"done"}, NEW h \in Locals,
           Advances(r, step, h), faults' \in 0..MaxFaults,
           DonationsGrowBy(r), donations' # donations => step = "answer",
           FinanceRowsGrowBy(r, step), NoNewDraft, SoundHandler(r)',
           step = "commit" => ~KeyInFlight(h.dto.key)
    PROVE  CallsOK'
<1>1. pc' \in [Requests -> Steps \cup {"idle", "done"}] /\ local' \in [Requests -> Locals]
      /\ pc'[r] = step /\ local'[r] = h
  BY DEF CallsOK, Advances
<1>2. \A q \in Requests : q # r => pc'[q] = pc[q] /\ local'[q] = local[q]
  BY DEF CallsOK, Advances
<1>3. DonationsArePast'
  <2>1. \A d \in donations : d.id \in Requests
    BY DEF RowsOK, DonationRows
  <2>2. pc[r] = "commit" => local[r].dto.id = r
    BY DEF CallsOK, SoundHandler, SoundCreate, InCreate
  <2>3. \A d \in donations : pc'[d.id] \in {"answer", "done"}
    BY <2>1, PastStays DEF CallsOK, DonationsArePast
  <2>4. QED  BY <1>1, <2>2, <2>3 DEF DonationsArePast, DonationsGrowBy, Past
<1>4. FinanceRowsAreFree'
  <2> SUFFICES ASSUME NEW t \in transactions', t.madeBy = "finances"
               PROVE  pc'[t.id] = "done" /\ ~\E d \in donations' : d.id = t.id
    BY DEF FinanceRowsAreFree, IsLinked
  <2>1. CASE \E u \in transactions : u.madeBy = "finances" /\ u.id = t.id
    <3>1. t.id \in Requests /\ pc[t.id] = "done" /\ ~IsLinked(t.id)
      BY <2>1 DEF RowsOK, CallsOK, TransactionRows, FinanceRowsAreFree
    <3>2. pc'[t.id] = "done"
      BY <1>2, <3>1 DEF Advances
    <3>3. QED  BY <3>1, <3>2, LinksStay DEF Past
  <2>2. CASE t.id = r /\ pc[r] = "idle" /\ step = "done" /\ donations' = donations
    <3>1. \A d \in donations : pc[d.id] \in {"answer", "done"}
      BY DEF CallsOK, DonationsArePast, Past
    <3>2. QED  BY <1>1, <2>2, <3>1
  <2>3. QED  BY <2>1, <2>2 DEF FinanceRowsGrowBy
<1>5. OneInsertPerKey'
  BY <1>1, <1>2 DEF CallsOK, OneInsertPerKey, KeyInFlight
<1>6. \A q \in Requests : SoundHandler(q)'
  BY OthersStaySound
<1>7. QED  BY <1>1, <1>3, <1>4, <1>5, <1>6 DEF CallsOK

\* A step that leaves the rows alone.
LEMMA PlainStep ==
    ASSUME RowsOK, CallsOK,
           NEW r \in Requests, NEW step \in Steps \cup {"done"}, NEW h \in Locals,
           Advances(r, step, h), faults' \in 0..MaxFaults, UNCHANGED <<rows, answers>>,
           SoundHandler(r)', step = "commit" => ~KeyInFlight(h.dto.key)
    PROVE  RowsOK' /\ CallsOK'
<1>1. RowsOK'
  BY DEF RowsOK, rows, LedgerMatchesDonations, RetriesAgree, DraftsHaveNoDonations,
         OneDonationEach
<1>2. DonationsGrowBy(r) /\ FinanceRowsGrowBy(r, step) /\ NoNewDraft /\ donations' = donations
  BY DEF rows, DonationsGrowBy, FinanceRowsGrowBy, NoNewDraft
<1>3. QED  BY <1>1, <1>2, CallAdvances

\* A call that has ended has nothing more to respect.
LEMMA DoneIsSound ==
    ASSUME NEW r \in Requests, pc'[r] = "done"
    PROVE  SoundHandler(r)'
  BY DEF SoundHandler, SoundCreate, SoundAnswer, SoundFinance, SoundMove, InCreate

\* A call that holds nothing is well formed.
LEMMA NoCallFits == NoCall \in Locals
  BY DEF NoCall, Locals, NoPatch, Patches, CampaignStatuses

\* A call that ends without a write.
LEMMA QuietEnd ==
    ASSUME RowsOK, CallsOK, NEW r \in Requests, pc[r] \in Steps, Finish(r),
           UNCHANGED <<rows, answers>>, faults' \in 0..MaxFaults
    PROVE  RowsOK' /\ CallsOK'
<1>1. Advances(r, "done", NoCall)
  BY DEF Advances, Finish, Steps
<1>2. pc'[r] = "done"
  BY DEF Finish, CallsOK
<1>3. QED  BY <1>1, <1>2, DoneIsSound, NoCallFits, PlainStep

-----------------------------------------------------------------------------
(***************************************************************************)
(* Calls that begin.                                                       *)
(***************************************************************************)

\* A call that begins, and has checks and writes before it.
LEMMA BeginKeeps ==
    ASSUME RowsOK, CallsOK, NEW r \in Requests, NEW step \in Steps, NEW h \in Locals,
           Begin(r, step, h), step # "commit", SoundHandler(r)'
    PROVE  RowsOK' /\ CallsOK'
<1>1. Advances(r, step, h)
  BY DEF Begin, MayStart, Advances
<1>2. UNCHANGED <<rows, answers>> /\ faults' \in 0..MaxFaults
  BY DEF Begin, CallsOK
<1>3. QED  BY <1>1, <1>2, PlainStep

\* What Begin leaves behind.
LEMMA Begun ==
    ASSUME CallsOK, NEW r \in Requests, NEW step, NEW h, Begin(r, step, h)
    PROVE  pc'[r] = step /\ local'[r] = h /\ donations' = donations /\ pc[r] = "idle"
  BY DEF Begin, MayStart, CallsOK, rows

\* create inserts its own row, or answers with the donation found by its key.
LEMMA StartCreateKeeps ==
    ASSUME RowsOK, CallsOK, NEW r \in Requests, NEW dto \in DonationRows,
           NEW donor \in Donors, StartCreate(r, dto, donor)
    PROVE  RowsOK' /\ CallsOK'
<1> DEFINE handler == [NoCall EXCEPT !.call = "create", !.dto = dto, !.donor = donor]
<1>1. handler \in Locals /\ handler.dto = dto
  BY NoCallFits DEF NoCall, Locals, Calls
<1>2. CASE Begin(r, "donor", handler)
  <2> HIDE DEF handler
  <2>1. pc'[r] = "donor" /\ local'[r] = handler
    BY <1>2, Begun
  <2>2. SoundHandler(r)'
    BY <1>1, <2>1 DEF StartCreate, SoundHandler, SoundCreate, SoundAnswer, SoundFinance,
                      SoundMove, InCreate
  <2>3. QED  BY <1>1, <1>2, <2>2, BeginKeeps DEF Steps
<1>3. ASSUME NEW d \in FindByKey(dto.key),
             Begin(r, "answer", [handler EXCEPT !.found = d.id])
      PROVE  RowsOK' /\ CallsOK'
  <2> DEFINE h == [handler EXCEPT !.found = d.id]
  <2>1. d \in donations /\ d.key = dto.key /\ d.id \in Requests
    BY DEF FindByKey, WithKey, RowsOK, DonationRows
  <2>2. h \in Locals /\ h.dto = dto /\ h.found = d.id
    <3> HIDE DEF handler
    <3>1. QED  BY <1>1, <2>1 DEF Locals
  <2> HIDE DEF h
  <2>3. pc'[r] = "answer" /\ local'[r] = h /\ donations' = donations
    BY <1>3, Begun DEF h
  <2>4. SoundHandler(r)'
    BY <2>1, <2>2, <2>3 DEF SoundHandler, SoundCreate, SoundAnswer, SoundFinance,
                            SoundMove, InCreate
  <2>5. QED  BY <1>3, <2>2, <2>4, BeginKeeps DEF Steps, h
<1>4. QED  BY <1>2, <1>3 DEF StartCreate

\* A row that Finance reads is its own, or belongs to a donation for good.
LEMMA StartFinanceKeeps ==
    ASSUME RowsOK, CallsOK, NEW r \in Requests, NEW call \in {"patch", "delete"},
           NEW row \in transactions, NEW patch \in Patches,
           StartFinance(r, call, row, patch)
    PROVE  RowsOK' /\ CallsOK'
<1> DEFINE h == [NoCall EXCEPT !.call = call, !.target = row, !.patch = patch]
<1>1. row \in TransactionRows
  BY DEF RowsOK
<1>2. h \in Locals /\ h.target = row
  BY <1>1, NoCallFits DEF NoCall, Locals, Calls
<1> HIDE DEF h
<1>3. pc'[r] = "link" /\ local'[r] = h /\ donations' = donations /\ pc[r] = "idle"
  BY Begun DEF StartFinance, h
<1>4. row.madeBy = "donations" => \E d \in donations : row = Income(d)
  BY DEF RowsOK, LedgerMatchesDonations
<1>5. Past(row.id)
  BY <1>1, <1>4 DEF CallsOK, FinanceRowsAreFree, DonationsArePast, Past, TransactionRows,
                    Income
<1>6. Past(row.id)'
  BY <1>1, <1>3, <1>5 DEF Past, StartFinance, Begin, CallsOK, TransactionRows
<1>7. IsLinked(row.id) => \E d \in donations : row = Income(d)
  BY <1>1, <1>4 DEF CallsOK, FinanceRowsAreFree, TransactionRows
<1>8. SoundFinance(r)'
  BY <1>1, <1>2, <1>3, <1>6, <1>7 DEF SoundFinance, IsLinked, Past, Income
<1>9. SoundHandler(r)'
  BY <1>3, <1>8 DEF SoundHandler, SoundCreate, SoundAnswer, SoundMove, InCreate
<1>10. QED  BY <1>2, <1>9, BeginKeeps DEF StartFinance, Steps, h

\* No transition of the table leads back to a draft.
LEMMA StartTransitionKeeps ==
    ASSUME RowsOK, CallsOK, NEW r \in Requests, NEW c \in Campaigns,
           NEW to \in CampaignStatuses, StartTransition(r, c, to)
    PROVE  RowsOK' /\ CallsOK'
<1> DEFINE h == [NoCall EXCEPT !.call = "transition", !.campaign = c, !.to = to]
<1>1. h \in Locals /\ h.campaign = c /\ h.to = to
  BY NoCallFits DEF NoCall, Locals, Calls
<1> HIDE DEF h
<1>2. pc'[r] = "move" /\ local'[r] = h
  BY Begun DEF StartTransition, h
<1>3. to # "BROUILLON"
  <2>1. campaigns[c] \in {"BROUILLON", "ACTIVE", "TERMINEE", "ANNULEE"}
    BY DEF RowsOK, CampaignStatuses
  <2>2. QED  BY <2>1 DEF StartTransition, AllowedTransitions
<1>4. SoundHandler(r)'
  BY <1>1, <1>2, <1>3 DEF SoundHandler, SoundCreate, SoundAnswer, SoundFinance,
                          SoundMove, InCreate
<1>5. QED  BY <1>1, <1>4, BeginKeeps DEF StartTransition, Steps, h

\* What a handler served by one statement leaves behind.
LEMMA ServedAtOnce ==
    ASSUME CallsOK, NEW r \in Requests, AtOnce(r)
    PROVE  /\ Advances(r, "done", local[r]) /\ pc[r] = "idle" /\ SoundHandler(r)'
           /\ local[r] \in Locals /\ faults' \in 0..MaxFaults /\ answers' = answers
<1>1. local' = [local EXCEPT ![r] = local[r]]
  BY DEF AtOnce, CallsOK
<1>2. pc'[r] = "done"
  BY DEF AtOnce, CallsOK
<1>3. SoundHandler(r)'
  BY <1>2, DoneIsSound
<1>4. QED  BY <1>1, <1>3 DEF AtOnce, MayStart, Advances, CallsOK

\* Finance makes a row that belongs to no donation.
LEMMA CreateTransactionKeeps ==
    ASSUME RowsOK, CallsOK, NEW r \in Requests, NEW kind \in Kinds, NEW amount \in Amounts,
           CreateTransaction(r, kind, amount)
    PROVE  RowsOK' /\ CallsOK'
<1> DEFINE row == [id |-> r, madeBy |-> "finances", kind |-> kind, amountXof |-> amount]
<1>1. row \in TransactionRows /\ row.id = r /\ row.madeBy = "finances"
  BY DEF TransactionRows
<1> HIDE DEF row
<1>2. transactions' = transactions \cup {row} /\ donations' = donations
      /\ campaigns' = campaigns /\ activeDonors' = activeDonors
  BY DEF CreateTransaction, row
<1>3. Advances(r, "done", local[r]) /\ pc[r] = "idle" /\ SoundHandler(r)'
      /\ local[r] \in Locals /\ faults' \in 0..MaxFaults /\ answers' = answers
  BY ServedAtOnce DEF CreateTransaction
<1>4. {t \in transactions' : t.madeBy = "donations"}
          = {t \in transactions : t.madeBy = "donations"}
  BY <1>1, <1>2
<1>5. RowsOK'
  BY <1>1, <1>2, <1>3, <1>4 DEF RowsOK, LedgerMatchesDonations, RetriesAgree,
                               DraftsHaveNoDonations, OneDonationEach
<1>6. DonationsGrowBy(r) /\ FinanceRowsGrowBy(r, "done") /\ NoNewDraft
  BY <1>1, <1>2, <1>3 DEF DonationsGrowBy, FinanceRowsGrowBy, NoNewDraft
<1>7. QED  BY <1>2, <1>3, <1>5, <1>6, CallAdvances

\* Activation touches nothing else.
LEMMA SetActiveKeeps ==
    ASSUME RowsOK, CallsOK, NEW r \in Requests, NEW donor \in Donors, SetActive(r, donor)
    PROVE  RowsOK' /\ CallsOK'
<1>1. donations' = donations /\ transactions' = transactions /\ campaigns' = campaigns
      /\ activeDonors' \subseteq Donors
  BY DEF SetActive, RowsOK
<1>2. Advances(r, "done", local[r]) /\ SoundHandler(r)'
      /\ local[r] \in Locals /\ faults' \in 0..MaxFaults /\ answers' = answers
  BY ServedAtOnce DEF SetActive
<1>3. RowsOK'
  BY <1>1, <1>2 DEF RowsOK, LedgerMatchesDonations, RetriesAgree, DraftsHaveNoDonations,
                    OneDonationEach
<1>4. DonationsGrowBy(r) /\ FinanceRowsGrowBy(r, "done") /\ NoNewDraft
  BY <1>1 DEF DonationsGrowBy, FinanceRowsGrowBy, NoNewDraft
<1>5. QED  BY <1>1, <1>2, <1>3, <1>4, CallAdvances

-----------------------------------------------------------------------------
(***************************************************************************)
(* Calls under way: the steps that leave the rows alone.                   *)
(***************************************************************************)

\* A step of create before its commit keeps what the call holds.
LEMMA CreateGoesOn ==
    ASSUME RowsOK, CallsOK, NEW r \in Requests, NEW step \in InCreate, pc[r] \in InCreate,
           Goto(r, step), UNCHANGED <<rows, answers, local, faults>>,
           step \in {"ledger", "insert", "commit"} =>
               (local[r].dto.campaign # NoCampaign =>
                    campaigns[local[r].dto.campaign] # "BROUILLON"),
           step = "commit" => WithKey(local[r].dto.key) = {} /\ ~KeyInFlight(local[r].dto.key)
    PROVE  RowsOK' /\ CallsOK'
<1>1. local' = [local EXCEPT ![r] = local[r]] /\ local[r] \in Locals
  BY DEF CallsOK
<1>2. Advances(r, step, local[r])
  BY <1>1 DEF Advances, Goto, InCreate
<1>3. pc'[r] = step /\ faults' \in 0..MaxFaults /\ step \in Steps
  BY DEF Goto, CallsOK, InCreate, Steps
<1>4. SoundHandler(r)'
  BY <1>3 DEF CallsOK, SoundHandler, SoundCreate, SoundAnswer, SoundFinance, SoundMove,
              InCreate, WithKey, rows
<1>5. QED  BY <1>1, <1>2, <1>3, <1>4, PlainStep

\* A refusal leaves the rows alone.
LEMMA RefuseKeeps ==
    ASSUME RowsOK, CallsOK, NEW r \in Requests, pc[r] \in Steps, Refuse(r)
    PROVE  RowsOK' /\ CallsOK'
<1>1. Finish(r) /\ UNCHANGED <<rows, answers>> /\ faults' \in 0..MaxFaults
  BY DEF Refuse, CallsOK
<1>2. QED  BY <1>1, QuietEnd

\* The checks of create.
LEMMA ChecksKeep ==
    ASSUME RowsOK, CallsOK, NEW r \in Requests, CheckDonor(r) \/ CheckCampaign(r)
    PROVE  RowsOK' /\ CallsOK'
<1>1. pc[r] \in InCreate /\ pc[r] \in Steps
  BY DEF CheckDonor, CheckCampaign, InCreate, Steps
<1>2. CASE Refuse(r)
  BY <1>1, <1>2, RefuseKeeps
<1>3. CASE CheckDonor(r) /\ ~Refuse(r)
  <2>1. Goto(r, "campaign") /\ UNCHANGED <<rows, answers, local, faults>>
    BY <1>3 DEF CheckDonor
  <2>2. QED  BY <1>1, <2>1, CreateGoesOn DEF InCreate
<1>4. CASE CheckCampaign(r) /\ ~Refuse(r)
  <2>1. Goto(r, "ledger") /\ UNCHANGED <<rows, answers, local, faults>>
        /\ AcceptsDonations(local[r].dto.campaign)
    BY <1>4 DEF CheckCampaign
  <2>2. local[r].dto.campaign # NoCampaign => campaigns[local[r].dto.campaign] # "BROUILLON"
    BY <2>1 DEF AcceptsDonations
  <2>3. QED  BY <1>1, <2>1, <2>2, CreateGoesOn DEF InCreate
<1>5. QED  BY <1>2, <1>3, <1>4

\* The inserts that others do not see yet.
LEMMA InsertsKeep ==
    ASSUME RowsOK, CallsOK, NEW r \in Requests, InsertTransaction(r) \/ InsertDonation(r)
    PROVE  RowsOK' /\ CallsOK'
<1>1. pc[r] \in InCreate /\ pc[r] \in {"ledger", "insert", "commit"}
  BY DEF InsertTransaction, InsertDonation, InCreate
<1>2. local[r].dto.campaign # NoCampaign => campaigns[local[r].dto.campaign] # "BROUILLON"
  BY <1>1 DEF CallsOK, SoundHandler, SoundCreate
<1>3. CASE InsertTransaction(r)
  BY <1>1, <1>2, <1>3, CreateGoesOn DEF InsertTransaction, InCreate
<1>4. CASE InsertDonation(r)
  <2>1. UNCHANGED <<rows, answers, local, faults>> /\ ~KeyInFlight(local[r].dto.key)
    BY <1>4 DEF InsertDonation
  <2>2. CASE KeyTaken(local[r].dto.key)
    <3>1. Goto(r, "reread")
      BY <1>4, <2>2 DEF InsertDonation
    <3>2. QED  BY <1>1, <2>1, <3>1, CreateGoesOn DEF InCreate
  <2>3. CASE ~KeyTaken(local[r].dto.key)
    <3>1. Goto(r, "commit") /\ WithKey(local[r].dto.key) = {}
      BY <1>4, <2>3 DEF InsertDonation, KeyTaken
    <3>2. QED  BY <1>1, <1>2, <2>1, <3>1, CreateGoesOn DEF InCreate
  <2>4. QED  BY <2>2, <2>3
<1>5. QED  BY <1>3, <1>4

\* The donation found after a unique violation bears the key of the call.
LEMMA RereadKeeps ==
    ASSUME RowsOK, CallsOK, NEW r \in Requests, Reread(r)
    PROVE  RowsOK' /\ CallsOK'
<1>1. pc[r] = "reread" /\ pc[r] \in Steps /\ local[r].dto \in DonationRows
  BY DEF Reread, CallsOK, SoundHandler, SoundCreate, InCreate, Steps
<1>2. CASE Refuse(r)
  BY <1>1, <1>2, RefuseKeeps
<1>3. ASSUME NEW d \in FindByKey(local[r].dto.key), Goto(r, "answer"),
             local' = [local EXCEPT ![r].found = d.id],
             UNCHANGED <<rows, answers, faults>>
      PROVE  RowsOK' /\ CallsOK'
  <2> DEFINE h == [local[r] EXCEPT !.found = d.id]
  <2>1. d \in donations /\ d.key = local[r].dto.key /\ d.id \in Requests
    BY DEF FindByKey, WithKey, RowsOK, DonationRows
  <2>2. local[r] \in Locals
    BY DEF CallsOK
  <2>3. h \in Locals /\ h.dto = local[r].dto /\ h.found = d.id
    BY <2>1, <2>2 DEF Locals
  <2>4. local' = [local EXCEPT ![r] = h]
    BY <1>3
  <2> HIDE DEF h
  <2>5. Advances(r, "answer", h) /\ pc'[r] = "answer" /\ local'[r] = h
    BY <1>1, <1>3, <2>4 DEF Advances, Goto, CallsOK
  <2>6. donations' = donations
    BY <1>3 DEF rows
  <2>7. SoundHandler(r)'
    BY <1>1, <2>1, <2>3, <2>5, <2>6 DEF SoundHandler, SoundCreate, SoundAnswer,
                                        SoundFinance, SoundMove, InCreate
  <2>8. faults' \in 0..MaxFaults /\ UNCHANGED <<rows, answers>>
    BY <1>3 DEF CallsOK
  <2>9. QED  BY <2>3, <2>5, <2>7, <2>8, PlainStep DEF Steps
<1>4. QED  BY <1>2, <1>3 DEF Reread

\* PATCH and delete go on when the row has no donation, or when nothing the
\* donation needs will change.
LEMMA CheckLinkKeeps ==
    ASSUME RowsOK, CallsOK, NEW r \in Requests, CheckLink(r)
    PROVE  RowsOK' /\ CallsOK'
<1>1. pc[r] = "link" /\ pc[r] \in Steps /\ local[r] \in Locals
  BY DEF CheckLink, Steps, CallsOK
<1>2. CASE Refuse(r)
  BY <1>1, <1>2, RefuseKeeps
<1>3. CASE ~Refuse(r)
  <2>1. Goto(r, "write") /\ UNCHANGED <<rows, answers, local, faults>>
        /\ (IsLinked(local[r].target.id) =>
              local[r].call = "patch" /\ ~TouchesProtectedField(local[r].patch, local[r].target))
    BY <1>3 DEF CheckLink
  <2>2. Advances(r, "write", local[r]) /\ pc'[r] = "write"
    BY <1>1, <2>1 DEF Advances, Goto, CallsOK
  <2>3. SoundFinance(r)
    BY DEF CallsOK, SoundHandler
  <2>4. local' = local /\ donations' = donations
    BY <2>1 DEF rows
  <2>5. \A id \in Requests : Past(id) => pc'[id] \in {"answer", "done"}
    BY <2>2, PastStays
  <2>6. local[r].target.id \in Requests
    BY <1>1, <2>3 DEF SoundFinance, TransactionRows
  <2>7. SoundFinance(r)'
    BY <1>1, <2>1, <2>2, <2>3, <2>4, <2>5, <2>6
       DEF SoundFinance, Past, IsLinked, Income, TouchesProtectedField
  <2>8. SoundHandler(r)'
    BY <2>2, <2>7 DEF SoundHandler, SoundCreate, SoundAnswer, SoundMove, InCreate
  <2>9. faults' \in 0..MaxFaults /\ UNCHANGED <<rows, answers>>
    BY <2>1 DEF CallsOK
  <2>10. QED  BY <1>1, <2>2, <2>8, <2>9, PlainStep DEF Steps
<1>4. QED  BY <1>2, <1>3

\* A call that dies takes what it had not committed with it.
LEMMA FailKeeps ==
    ASSUME RowsOK, CallsOK, NEW r \in Requests, Fail(r)
    PROVE  RowsOK' /\ CallsOK'
<1>1. faults' \in 0..MaxFaults
  BY DEF Fail, CallsOK
<1>2. QED  BY <1>1, QuietEnd DEF Fail

-----------------------------------------------------------------------------
(***************************************************************************)
(* Calls under way: the steps that write.                                  *)
(***************************************************************************)

\* The commit adds one donation, with an id and a key of its own, and its entry.
LEMMA CommitKeeps ==
    ASSUME RowsOK, CallsOK, NEW r \in Requests, Commit(r)
    PROVE  RowsOK' /\ CallsOK'
<1> DEFINE dto == local[r].dto
<1> DEFINE h == [local[r] EXCEPT !.found = r]
<1>1. pc[r] = "commit" /\ SoundCreate(r)
  BY DEF Commit, CallsOK, SoundHandler
<1>2. dto \in DonationRows /\ dto.id = r /\ WithKey(dto.key) = {}
      /\ (dto.campaign # NoCampaign => campaigns[dto.campaign] # "BROUILLON")
  BY <1>1 DEF SoundCreate, InCreate
<1>3. local[r] \in Locals
  BY DEF CallsOK
<1>4. h \in Locals /\ h.dto = dto /\ h.found = r
  BY <1>3 DEF Locals
<1>5. donations' = donations \cup {dto} /\ transactions' = transactions \cup {Income(dto)}
      /\ campaigns' = campaigns /\ activeDonors' = activeDonors /\ answers' = answers
      /\ faults' = faults /\ local' = [local EXCEPT ![r] = h] /\ Goto(r, "answer")
  BY DEF Commit
<1> HIDE DEF dto, h
<1>6. Income(dto) \in TransactionRows /\ Income(dto).madeBy = "donations"
  BY <1>2 DEF Income, TransactionRows, DonationRows, Kinds
<1>7. \A d \in donations : d.id # r /\ ~(d.key = dto.key /\ d.key # NoKey)
  BY <1>1, <1>2 DEF CallsOK, DonationsArePast, Past, WithKey
<1>8. RowsOK'
  <2>1. LedgerMatchesDonations'
    <3>1. {t \in transactions' : t.madeBy = "donations"}
              = {t \in transactions : t.madeBy = "donations"} \cup {Income(dto)}
      BY <1>5, <1>6
    <3>2. {Income(d) : d \in donations'} = {Income(d) : d \in donations} \cup {Income(dto)}
      BY <1>5
    <3>3. {t \in transactions : t.madeBy = "donations"} = {Income(d) : d \in donations}
      BY DEF RowsOK, LedgerMatchesDonations
    <3>4. {t \in transactions' : t.madeBy = "donations"} = {Income(d) : d \in donations'}
      BY <3>1, <3>2, <3>3
    <3>5. QED  BY <3>4 DEF LedgerMatchesDonations, Income
  <2>2. OneDonationEach'
    BY <1>2, <1>5, <1>7 DEF RowsOK, OneDonationEach
  <2>3. RetriesAgree' /\ DraftsHaveNoDonations'
    BY <1>2, <1>5 DEF RowsOK, RetriesAgree, DraftsHaveNoDonations
  <2>4. QED  BY <1>2, <1>5, <1>6, <2>1, <2>2, <2>3 DEF RowsOK
<1>9. Advances(r, "answer", h) /\ pc'[r] = "answer" /\ local'[r] = h
  BY <1>1, <1>5 DEF Advances, Goto, CallsOK
<1>10. SoundHandler(r)'
  BY <1>2, <1>4, <1>5, <1>9 DEF SoundHandler, SoundCreate, SoundAnswer, SoundFinance,
                                SoundMove, InCreate
<1>11. DonationsGrowBy(r) /\ FinanceRowsGrowBy(r, "answer") /\ NoNewDraft
  BY <1>1, <1>5, <1>6 DEF DonationsGrowBy, FinanceRowsGrowBy, NoNewDraft, dto
<1>12. faults' \in 0..MaxFaults
  BY <1>5 DEF CallsOK
<1>13. QED
  BY <1>4, <1>8, <1>9, <1>10, <1>11, <1>12, CallAdvances DEF Steps

\* An answer agrees with all that were given for its key.
LEMMA AnswerKeeps ==
    ASSUME RowsOK, CallsOK, NEW r \in Requests, AnswerDonation(r)
    PROVE  RowsOK' /\ CallsOK'
<1> DEFINE answer == [key |-> local[r].dto.key, id |-> local[r].found]
<1>1. answers' = answers \cup {answer} /\ pc[r] = "answer" /\ Finish(r)
      /\ UNCHANGED rows /\ faults' \in 0..MaxFaults
  BY DEF AnswerDonation, CallsOK
<1>2. PICK d \in donations : d.id = local[r].found /\ d.key = local[r].dto.key
  BY <1>1 DEF CallsOK, SoundHandler, SoundAnswer
<1>3. answer.id = d.id /\ answer.key = d.key
  BY <1>2
<1>4. answer \in [key : AllKeys, id : Requests]
  BY <1>2 DEF RowsOK, DonationRows
<1> HIDE DEF answer
<1>5. donations' = donations /\ transactions' = transactions /\ campaigns' = campaigns
      /\ activeDonors' = activeDonors
  BY <1>1 DEF rows
<1>6. RetriesAgree'
  <2>1. \A a \in answers' : \E e \in donations : e.id = a.id /\ e.key = a.key
    BY <1>1, <1>3 DEF RowsOK, RetriesAgree
  <2>2. \A a, b \in answers' : a.key = b.key /\ a.key # NoKey => a.id = b.id
    BY <2>1 DEF RowsOK, OneDonationEach
  <2>3. QED  BY <1>5, <2>1, <2>2 DEF RetriesAgree
<1>7. RowsOK'
  BY <1>1, <1>4, <1>5, <1>6 DEF RowsOK, LedgerMatchesDonations, DraftsHaveNoDonations,
                                OneDonationEach
<1>8. Advances(r, "done", NoCall) /\ pc'[r] = "done"
  BY <1>1 DEF Advances, Finish, CallsOK
<1>9. DonationsGrowBy(r) /\ FinanceRowsGrowBy(r, "done") /\ NoNewDraft
  BY <1>5 DEF DonationsGrowBy, FinanceRowsGrowBy, NoNewDraft
<1>10. QED
  BY <1>1, <1>5, <1>7, <1>8, <1>9, DoneIsSound, NoCallFits, CallAdvances

\* PATCH and DELETE write a row of Finance, or leave the row of a donation as it is.
LEMMA WriteKeeps ==
    ASSUME RowsOK, CallsOK, NEW r \in Requests, WriteTransaction(r)
    PROVE  RowsOK' /\ CallsOK'
<1> DEFINE h == local[r]
           old == WithId(h.target.id)
           new == IF h.call = "patch" THEN {Patched(t, h.patch) : t \in old} ELSE {}
<1>1. pc[r] = "write" /\ transactions' = (transactions \ old) \cup new /\ Finish(r)
      /\ donations' = donations /\ campaigns' = campaigns /\ activeDonors' = activeDonors
      /\ answers' = answers /\ faults' = faults
  BY DEF WriteTransaction
<1>2. h \in Locals /\ SoundFinance(r) /\ h.patch \in Patches
  BY DEF CallsOK, SoundHandler, Locals
<1>3. h.target \in TransactionRows
  BY <1>1, <1>2 DEF SoundFinance
<1>4. old \subseteq transactions /\ \A t \in old : t.id = h.target.id
  BY DEF WithId
<1>5. \A t \in TransactionRows :
          /\ Patched(t, h.patch) \in TransactionRows
          /\ Patched(t, h.patch).id = t.id /\ Patched(t, h.patch).madeBy = t.madeBy
  BY <1>2 DEF Patched, Patches, TransactionRows
<1>6. CASE IsLinked(h.target.id)
  <2>1. h.call = "patch" /\ ~TouchesProtectedField(h.patch, h.target)
    BY <1>1, <1>2, <1>6 DEF SoundFinance
  <2>2. PICK d \in donations : h.target = Income(d)
    BY <1>1, <1>2, <1>6 DEF SoundFinance
  <2>3. \A t \in old : t = h.target
    <3> SUFFICES ASSUME NEW t \in old PROVE t = h.target
      OBVIOUS
    <3>1. t \in TransactionRows /\ t.madeBy = "donations"
      BY <1>4, <1>6 DEF RowsOK, CallsOK, FinanceRowsAreFree, TransactionRows
    <3>2. PICK e \in donations : t = Income(e)
      BY <1>4, <3>1 DEF RowsOK, LedgerMatchesDonations
    <3>3. e.id = d.id
      BY <1>4, <2>2, <3>2 DEF Income
    <3>4. QED  BY <2>2, <3>2, <3>3 DEF RowsOK, OneDonationEach
  <2>4. Patched(h.target, h.patch) = h.target
    <3>1. h.patch.amountXof \in {NoAmount, h.target.amountXof}
          /\ h.patch.kind \in {"keep", h.target.kind}
      BY <2>1 DEF TouchesProtectedField
    <3> HIDE DEF h
    <3>2. QED  BY <1>3, <3>1 DEF Patched, TransactionRows
  <2>5. new = old
    <3>1. \A t \in old : Patched(t, h.patch) = t
      BY <2>3, <2>4
    <3>2. QED  BY <2>1, <3>1
  <2>6. transactions' = transactions
    <3> HIDE DEF old, new
    <3>1. QED  BY <1>1, <1>4, <2>5
  <2>7. QED
    <3>1. UNCHANGED <<rows, answers>> /\ pc[r] \in Steps /\ faults' \in 0..MaxFaults
      BY <1>1, <2>6 DEF rows, Steps, CallsOK
    <3>2. QED  BY <1>1, <3>1, QuietEnd
<1>7. CASE ~IsLinked(h.target.id)
  <2>1. \A t \in old : t.madeBy = "finances" /\ t \in TransactionRows
    <3> SUFFICES ASSUME NEW t \in old PROVE t.madeBy = "finances" /\ t \in TransactionRows
      OBVIOUS
    <3>1. t \in transactions /\ t.id = h.target.id /\ t \in TransactionRows
      BY <1>4 DEF RowsOK
    <3>2. t.madeBy # "donations"
      BY <1>7, <3>1 DEF RowsOK, LedgerMatchesDonations, IsLinked, Income
    <3>3. QED  BY <3>1, <3>2 DEF TransactionRows
  <2>2. new \subseteq TransactionRows
        /\ \A n \in new : n.madeBy = "finances" /\ \E t \in old : t.id = n.id
    <3> HIDE DEF h, old
    <3>1. QED  BY <1>5, <2>1
  <2> HIDE DEF h, old, new
  <2>3. {t \in transactions' : t.madeBy = "donations"}
            = {t \in transactions : t.madeBy = "donations"}
    BY <1>1, <1>4, <2>1, <2>2
  <2>4. RowsOK'
    BY <1>1, <2>2, <2>3 DEF RowsOK, LedgerMatchesDonations, RetriesAgree,
                            DraftsHaveNoDonations, OneDonationEach
  <2>5. FinanceRowsGrowBy(r, "done") /\ DonationsGrowBy(r) /\ NoNewDraft
    BY <1>1, <1>4, <2>1, <2>2 DEF FinanceRowsGrowBy, DonationsGrowBy, NoNewDraft
  <2>6. Advances(r, "done", NoCall) /\ pc'[r] = "done" /\ faults' \in 0..MaxFaults
    BY <1>1 DEF Advances, Finish, CallsOK
  <2>7. QED
    BY <1>1, <2>4, <2>5, <2>6, DoneIsSound, NoCallFits, CallAdvances
<1>8. QED  BY <1>6, <1>7

\* A campaign that moves is a draft no more.
LEMMA MoveKeeps ==
    ASSUME RowsOK, CallsOK, NEW r \in Requests, MoveCampaign(r)
    PROVE  RowsOK' /\ CallsOK'
<1>1. pc[r] = "move" /\ Finish(r) /\ donations' = donations /\ answers' = answers
      /\ transactions' = transactions /\ activeDonors' = activeDonors /\ faults' = faults
      /\ campaigns' = [campaigns EXCEPT ![local[r].campaign] = local[r].to]
  BY DEF MoveCampaign
<1>2. local[r].campaign \in Campaigns /\ local[r].to # "BROUILLON"
      /\ local[r].to \in CampaignStatuses
  BY <1>1 DEF CallsOK, SoundHandler, SoundMove, Locals
<1>3. campaigns' \in [Campaigns -> CampaignStatuses] /\ NoNewDraft
  BY <1>1, <1>2 DEF RowsOK, NoNewDraft
<1>4. DraftsHaveNoDonations'
  <2>1. \A d \in donations : d.campaign # NoCampaign => d.campaign \in Campaigns
    BY DEF RowsOK, DonationRows
  <2>2. QED  BY <1>1, <1>3, <2>1 DEF RowsOK, DraftsHaveNoDonations, NoNewDraft
<1>5. RowsOK'
  BY <1>1, <1>3, <1>4 DEF RowsOK, LedgerMatchesDonations, RetriesAgree, OneDonationEach
<1>6. FinanceRowsGrowBy(r, "done") /\ DonationsGrowBy(r)
  BY <1>1 DEF FinanceRowsGrowBy, DonationsGrowBy
<1>7. Advances(r, "done", NoCall) /\ pc'[r] = "done" /\ faults' \in 0..MaxFaults
  BY <1>1 DEF Advances, Finish, CallsOK
<1>8. QED
  BY <1>1, <1>3, <1>5, <1>6, <1>7, DoneIsSound, NoCallFits, CallAdvances

-----------------------------------------------------------------------------
(***************************************************************************)
(* The invariant, and what follows from it.                                *)
(***************************************************************************)

\* Every step keeps the invariant.
LEMMA NextKeeps == IInv /\ [Next]_vars => IInv'
<1> SUFFICES ASSUME IInv, [Next]_vars PROVE RowsOK' /\ CallsOK'
  BY IInvPartsNext
<1>0. RowsOK /\ CallsOK
  BY IInvParts
<1>1. CASE UNCHANGED vars
  <2>1. RowsOK'
    BY <1>0, <1>1 DEF vars, RowsOK, LedgerMatchesDonations, RetriesAgree,
                      DraftsHaveNoDonations, OneDonationEach
  <2>2. CallsOK'
    BY <1>0, <1>1 DEF vars, CallsOK, DonationsArePast, FinanceRowsAreFree, OneInsertPerKey,
                      SoundHandler, SoundCreate, SoundAnswer, SoundFinance, SoundMove,
                      WithKey, IsLinked, Past
  <2>3. QED  BY <2>1, <2>2
<1>2. ASSUME NEW r \in Requests, Start(r) PROVE RowsOK' /\ CallsOK'
  <2>1. ASSUME NEW dto \in DonationRows, NEW donor \in Donors, StartCreate(r, dto, donor)
        PROVE  RowsOK' /\ CallsOK'
    BY <1>0, <2>1, StartCreateKeeps
  <2>2. ASSUME NEW kind \in Kinds, NEW amount \in Amounts, CreateTransaction(r, kind, amount)
        PROVE  RowsOK' /\ CallsOK'
    BY <1>0, <2>2, CreateTransactionKeeps
  <2>3. ASSUME NEW row \in transactions, NEW patch \in Patches,
               StartFinance(r, "patch", row, patch)
        PROVE  RowsOK' /\ CallsOK'
    BY <1>0, <2>3, StartFinanceKeeps
  <2>4. ASSUME NEW row \in transactions, StartFinance(r, "delete", row, NoPatch)
        PROVE  RowsOK' /\ CallsOK'
    <3>1. NoPatch \in Patches
      BY DEF NoPatch, Patches
    <3>2. QED  BY <1>0, <2>4, <3>1, StartFinanceKeeps
  <2>5. ASSUME NEW c \in Campaigns, NEW to \in CampaignStatuses, StartTransition(r, c, to)
        PROVE  RowsOK' /\ CallsOK'
    BY <1>0, <2>5, StartTransitionKeeps
  <2>6. ASSUME NEW donor \in Donors, SetActive(r, donor) PROVE RowsOK' /\ CallsOK'
    BY <1>0, <2>6, SetActiveKeeps
  <2>7. QED  BY <1>2, <2>1, <2>2, <2>3, <2>4, <2>5, <2>6 DEF Start
<1>3. ASSUME NEW r \in Requests, Step(r) PROVE RowsOK' /\ CallsOK'
  BY <1>0, <1>3, ChecksKeep, InsertsKeep, CommitKeeps, RereadKeeps, AnswerKeeps,
     CheckLinkKeeps, WriteKeeps, MoveKeeps DEF Step
<1>4. ASSUME NEW r \in Requests, Fail(r) PROVE RowsOK' /\ CallsOK'
  BY <1>0, <1>4, FailKeeps
<1>5. QED  BY <1>1, <1>2, <1>3, <1>4 DEF Next

\* The invariant holds in every behaviour.
LEMMA Invariance == Spec => []IInv
  BY InitOK, NextKeeps, PTL DEF Spec

\* The rows and the handlers keep their shape.
THEOREM TypeCorrect == Spec => []TypeOK
<1>1. IInv => TypeOK
  BY DEF IInv
<1>2. QED  BY <1>1, Invariance, PTL

\* Finance and the donations agree at every moment: neither a PATCH nor a
\* deletion that overlaps a donation, nor a crash, can part a donation and its entry.
THEOREM LedgerAgrees == Spec => []LedgerMatchesDonations
<1>1. IInv => LedgerMatchesDonations
  BY DEF IInv
<1>2. QED  BY <1>1, Invariance, PTL

\* All answers to the calls with one key name one donation.
THEOREM RetriesAreSafe == Spec => []RetriesAgree
<1>1. IInv => RetriesAgree
  BY DEF IInv
<1>2. QED  BY <1>1, Invariance, PTL

\* No donation reaches a campaign before its activation.
THEOREM DraftsAreEmpty == Spec => []DraftsHaveNoDonations
<1>1. IInv => DraftsHaveNoDonations
  BY DEF IInv
<1>2. QED  BY <1>1, Invariance, PTL

-----------------------------------------------------------------------------
(***************************************************************************)
(* Donations implements DonationLedger: a commit is a Record, an answer is *)
(* an Answer, and every other step is a stutter.                           *)
(***************************************************************************)

\* What DonationLedger shows of a donation.
Gift(d) == [id |-> d.id, key |-> d.key, amountXof |-> d.amountXof]

\* Credits holds the credit of every gift, and nothing else.
CreditsMatch == Credits = {Ledger!Credit(Gift(d)) : d \in donations}

\* So it does when the entries and the donations agree.
LEMMA CreditsOfGifts == LedgerMatchesDonations => CreditsMatch
<1> SUFFICES ASSUME LedgerMatchesDonations PROVE CreditsMatch
  OBVIOUS
<1>1. \A t \in transactions : t.madeBy = "donations" => \E d \in donations : t = Income(d)
  BY DEF LedgerMatchesDonations
<1>2. \A d \in donations : Income(d) \in transactions /\ Income(d).madeBy = "donations"
  BY DEF LedgerMatchesDonations, Income
<1>3. \A d \in donations :
          /\ Income(d).kind = "DON"
          /\ [id |-> Income(d).id, amountXof |-> Income(d).amountXof]
                 = Ledger!Credit(Gift(d))
  BY DEF Income, Gift, Ledger!Credit
<1>4. ASSUME NEW c \in Credits PROVE \E d \in donations : c = Ledger!Credit(Gift(d))
  <2>1. PICK t \in transactions :
            t.madeBy = "donations" /\ c = [id |-> t.id, amountXof |-> t.amountXof]
    BY <1>4 DEF Credits
  <2>2. QED  BY <1>1, <1>3, <2>1
<1>5. ASSUME NEW d \in donations PROVE Ledger!Credit(Gift(d)) \in Credits
  BY <1>2, <1>3 DEF Credits
<1>6. QED  BY <1>4, <1>5 DEF CreditsMatch

\* And so it does after a step.
LEMMA CreditsOfGiftsNext == LedgerMatchesDonations' => CreditsMatch'
  BY CreditsOfGifts, PTL

\* The step of the implementation that r takes is a step of DonationLedger.
LEMMA CommitRecords ==
    ASSUME IInv, LedgerMatchesDonations', NEW r \in Requests, Commit(r)
    PROVE  Ledger!Next
<1> DEFINE dto == local[r].dto
<1>1. pc[r] = "commit" /\ SoundCreate(r)
  BY DEF Commit, IInv, SoundHandler
<1>2. dto \in DonationRows /\ dto.id = r /\ WithKey(dto.key) = {}
  BY <1>1 DEF SoundCreate, InCreate
<1>3. donations' = donations \cup {dto} /\ answers' = answers
  BY DEF Commit
<1>4. \A d \in donations : d.id # r /\ (d.key = dto.key => dto.key = NoKey)
  BY <1>1, <1>2 DEF IInv, DonationsArePast, Past, WithKey
<1> HIDE DEF dto
<1>5. Gift(dto) \in Ledger!Gifts
  BY <1>2 DEF Gift, Ledger!Gifts, DonationRows, AllKeys
<1>6. Gifts' = Gifts \cup {Gift(dto)}
  BY <1>3 DEF Gifts, Gift
<1>7. Credits' = Credits \cup {Ledger!Credit(Gift(dto))}
  <2>1. Credits = {Ledger!Credit(Gift(d)) : d \in donations}
    BY CreditsOfGifts DEF IInv, CreditsMatch
  <2>2. Credits' = {Ledger!Credit(Gift(d)) : d \in donations'}
    BY CreditsOfGiftsNext DEF CreditsMatch, Gift, Ledger!Credit
  <2>3. QED  BY <1>3, <2>1, <2>2
<1>8. \A other \in Gifts :
          other.id # Gift(dto).id /\ (other.key = Gift(dto).key => Gift(dto).key = NoKey)
  BY <1>2, <1>4 DEF Gifts, Gift
<1>9. Ledger!Record(Gift(dto))
  BY <1>3, <1>6, <1>7, <1>8 DEF Ledger!Record
<1>10. QED  BY <1>5, <1>9 DEF Ledger!Next

\* An answer names a gift with the key of the call.
LEMMA AnswerAnswers ==
    ASSUME IInv, NEW r \in Requests, AnswerDonation(r)
    PROVE  Ledger!Next
<1>1. PICK d \in donations : d.id = local[r].found /\ d.key = local[r].dto.key
  BY DEF AnswerDonation, IInv, SoundHandler, SoundAnswer
<1>2. Gift(d) \in Gifts /\ Gift(d) \in Ledger!Gifts
  BY DEF Gifts, Gift, Ledger!Gifts, IInv, TypeOK, DonationRows, AllKeys
<1>3. answers' = answers \cup {[key |-> Gift(d).key, id |-> Gift(d).id]}
  BY <1>1 DEF AnswerDonation, Gift
<1>4. Gifts' = Gifts /\ Credits' = Credits
  BY DEF AnswerDonation, rows, Gifts, Credits
<1>5. Ledger!Answer(Gift(d))
  BY <1>2, <1>3, <1>4 DEF Ledger!Answer
<1>6. QED  BY <1>2, <1>5 DEF Ledger!Next

\* A step that records and answers nothing is a stutter of DonationLedger.
LEMMA SameDonations ==
    ASSUME IInv, LedgerMatchesDonations', donations' = donations, answers' = answers
    PROVE  UNCHANGED Ledger!vars
<1>1. Gifts' = Gifts
  BY DEF Gifts
<1>2. Credits' = Credits
  BY CreditsOfGifts, CreditsOfGiftsNext DEF IInv, CreditsMatch, Gift, Ledger!Credit
<1>3. QED  BY <1>1, <1>2 DEF Ledger!vars

\* A call that begins records and answers nothing.
LEMMA StartRecordsNothing ==
    ASSUME NEW r \in Requests, Start(r)
    PROVE  donations' = donations /\ answers' = answers
  BY DEF Start, StartCreate, CreateTransaction, StartFinance, StartTransition, SetActive,
         Begin, AtOnce, rows

\* The initial states are initial states of DonationLedger.
LEMMA InitImplements == Init => Ledger!Init
  BY DEF Init, Ledger!Init, Gifts, Credits

\* Every step is a step of DonationLedger, or a stutter.
LEMMA NextImplements == IInv /\ IInv' /\ [Next]_vars => [Ledger!Next]_(Ledger!vars)
<1> SUFFICES ASSUME IInv, LedgerMatchesDonations', [Next]_vars
             PROVE  Ledger!Next \/ UNCHANGED Ledger!vars
  BY DEF IInv
<1>1. CASE UNCHANGED vars
  BY <1>1, SameDonations DEF vars
<1>2. ASSUME NEW r \in Requests, Start(r) PROVE UNCHANGED Ledger!vars
  BY <1>2, StartRecordsNothing, SameDonations
<1>3. ASSUME NEW r \in Requests, Step(r) PROVE Ledger!Next \/ UNCHANGED Ledger!vars
  <2>1. CASE Commit(r)
    BY <2>1, CommitRecords
  <2>2. CASE AnswerDonation(r)
    BY <2>2, AnswerAnswers
  <2>3. CASE ~Commit(r) /\ ~AnswerDonation(r)
    <3>1. donations' = donations /\ answers' = answers
      BY <1>3, <2>3 DEF Step, CheckDonor, CheckCampaign, InsertTransaction, InsertDonation,
                        Reread, CheckLink, WriteTransaction, MoveCampaign, Refuse, rows
    <3>2. QED  BY <3>1, SameDonations
  <2>4. QED  BY <2>1, <2>2, <2>3
<1>4. ASSUME NEW r \in Requests, Fail(r) PROVE UNCHANGED Ledger!vars
  BY <1>4, SameDonations DEF Fail, rows
<1>5. QED  BY <1>1, <1>2, <1>3, <1>4 DEF Next

\* The handlers, with their overlaps and failures, keep the promise of DonationLedger.
THEOREM LedgerImplemented == Spec => ImplementsLedger
<1>1. Spec => []IInv
  BY Invariance
<1>2. QED
  BY <1>1, InitImplements, NextImplements, PTL DEF Spec, ImplementsLedger, Ledger!Spec
=============================================================================
