------------------------ MODULE AdminResourcesProofs ------------------------
(***************************************************************************)
(* Proofs about AdminResources: what holds of the rows and of the          *)
(* requests of every register, whatever the number of rows and of handlers *)
(* and whatever the populations.                                           *)
(*                                                                         *)
(* Half of it needs no clean behaviour.  Whatever overlaps and whatever    *)
(* dies, a row exists when a handler writes it, what a handler is about to *)
(* write is a status of that register, it is none of those that are kept   *)
(* for a decision unless the handler reviews, and a handler that has found *)
(* a request to close found that of its row and of somebody else           *)
(* (HandlersInv).  SensitiveChangesAreDecided rests on it.                 *)
(*                                                                         *)
(* The other properties are of clean behaviours, in which at most one      *)
(* handler is at work.  They hold between two handlers because every step  *)
(* of one keeps what the rest of it relies on (Fits): the row is still as  *)
(* it was read, so the checks that the handler made at first still hold    *)
(* when it writes, and the two tables disagree by what it has not written  *)
(* yet and no more (SerialInv).                                            *)
(*                                                                         *)
(* What the windows of ResourceScreens show is proved from the same        *)
(* invariant, and from who submitted the open requests (SubmittersInv):    *)
(* a button that reads the row asks for what the service's own checks find *)
(* in the row and in the requests.                                         *)
(***************************************************************************)
EXTENDS AdminResources, TLAPS

(***************************************************************************)
(* The rows, by register.                                                  *)
(***************************************************************************)
Awaits(row) == row.validation = "PENDING_VALIDATION"

\* The registers whose approval refuses a row that names no operation.
Named(kind, action) ==
    kind \in {"INVENTORY_ASSET", "ENTRY_LOG", "GOODS_MOVEMENT_LOG"} => action # "none"

RowOK(row) ==
    /\ row \in Rows
    /\ row.status \in Statuses[row.kind] \cup {"absent"}
    /\ row.action \in Actions[row.kind] \cup {"none"}
    /\ row.kind = "INVENTORY_ASSET" /\ row.action = "ASSET_DISPOSAL" =>
          row.payload \in DOMAIN DISPOSAL_STATUS_MAP
    /\ row.status = "absent" => row.validation = "none"
    /\ Awaits(row) => Named(row.kind, row.action)

Sensible(row) ==
    /\ StillMakesSense(row)
    /\ row.kind = "ENTRY_LOG" => row.action \in Actions["ENTRY_LOG"]

\* What the two tables say of a row that no handler is at work on.
Settles(row, open) ==
    /\ Awaits(row) <=> open # {}
    /\ \A p, q \in open : p = q
    /\ Awaits(row) => Sensible(row)

(***************************************************************************)
(* What the steps of a handler make of a row.                              *)
(***************************************************************************)
Recorded(row, h) ==
    [Patched(row, h.patch) EXCEPT !.validation = "PENDING_VALIDATION", !.action = h.action]

Marked(row, h) ==
    [row EXCEPT !.validation = "PENDING_VALIDATION", !.action = h.action, !.payload = h.payload]

\* A change that needs no decision and leaves the archive alone.
Keeps(old, new) ==
    /\ ~NeedsADecisionWhenRead(old, new)
    /\ old.status \in {"ARCHIVE", "ARCHIVEE"} /\ old.kind # "SUPPLIER_CONTRACT" =>
          new.status = old.status

Reviews(step) == step \in {"look", "close", "apply"}

Approves(step, h) == Reviews(step) /\ h.verdict = "APPROVED"

\* Whoever submits is not among those who decide.
Submitters == Directors \cup Educators

(***************************************************************************)
(* A handler at a step, whatever the others do.                            *)
(***************************************************************************)
HandlerOK(step, h, row) ==
    /\ h.item \in Items
    /\ h.patch.status \in Statuses[row.kind] \cup {"keep"}
    /\ h.action \in Actions[row.kind] \cup {"none"}
    /\ row.kind = "INVENTORY_ASSET" /\ h.action = "ASSET_DISPOSAL" =>
          h.payload \in DOMAIN DISPOSAL_STATUS_MAP
    /\ step = "record" => h.patch.status # "keep" /\ h.action # "ASSET_DISPOSAL"
    /\ step \in {"record", "find", "insert"} => h.user \in Submitters
    /\ step \in {"record", "find", "insert", "mark"} => Named(row.kind, h.action)
    /\ step # "record" => row.status # "absent"
    /\ \/ Approves(step, h)
       \/ row.kind \in DOMAIN DecidedStatuses =>
             h.patch.status \notin DecidedStatuses[row.kind]
    /\ Reviews(step) => h.verdict \in Verdicts
    /\ step \in {"close", "apply"} => h.request.of = h.item /\ h.request.by # h.user

(***************************************************************************)
(* A handler at a step, alone.                                             *)
(***************************************************************************)
Outcome(row, h) == h.verdict = "APPROVED" \/ Keeps(row, Patched(row, h.patch))

Fits(step, h, row, open) ==
    /\ step = "write" =>
          /\ Settles(row, open)
          /\ Keeps(row, Patched(row, h.patch))
          /\ Awaits(row) => Sensible(Patched(row, h.patch))
    /\ step = "record" =>
          /\ Settles(row, open)
          /\ row.status = "absent"
          /\ Sensible(Recorded(row, h))
          /\ Keeps(row, Recorded(row, h))
          /\ ~h.marks
    /\ step = "find" /\ h.marks => Settles(row, open) /\ Sensible(Marked(row, h))
    /\ step = "insert" /\ h.marks => open = {} /\ Sensible(Marked(row, h))
    /\ step \in {"find", "insert"} /\ ~h.marks => Awaits(row) /\ Sensible(row) /\ open = {}
    /\ step = "mark" =>
          /\ open # {}
          /\ \A p, q \in open : p = q
          /\ Sensible(Marked(row, h))
    /\ step = "look" => Settles(row, open) /\ Outcome(row, h)
    /\ step = "close" =>
          Awaits(row) /\ Sensible(row) /\ open = {h.request} /\ Outcome(row, h)
    /\ step = "apply" =>
          Awaits(row) /\ Sensible(row) /\ open = {} /\ Outcome(row, h)

AdminTypeOK ==
    /\ rows \in [Items -> Rows]
    /\ \A x \in Items : RowOK(rows[x])
    /\ pending \subseteq ValidationRequests
    /\ clean \in BOOLEAN
    /\ pc \in [Workers -> Steps \cup {"idle"}]
    /\ local \in [Workers -> Locals]
    /\ faults \in Nat

HandlersInv ==
    \A w \in Workers : ~Idle(w) => HandlerOK(pc[w], local[w], rows[local[w].item])

Alone == \A v, w \in Workers : ~Idle(v) /\ ~Idle(w) => v = w

Untouched(x) == \A w \in Workers : ~Idle(w) => local[w].item # x

SerialInv ==
    clean =>
       /\ Alone
       /\ \A w \in Workers :
             ~Idle(w) => Fits(pc[w], local[w], rows[local[w].item], OpenOf(local[w].item))
       /\ \A x \in Items : Untouched(x) => Settles(rows[x], OpenOf(x))

AdminInv == AdminTypeOK /\ HandlersInv /\ SerialInv

-----------------------------------------------------------------------------
(***************************************************************************)
(* Rows and patches.                                                       *)
(***************************************************************************)

\* What an update leaves of a row, column by column.
LEMMA PatchedFields ==
    ASSUME NEW row \in Rows, NEW patch \in Patches
    PROVE  /\ Patched(row, patch) \in
                 [kind : {row.kind},
                  status : {IF patch.status = "keep" THEN row.status ELSE patch.status},
                  class : {IF patch.class = "keep" THEN row.class ELSE patch.class},
                  departed : {row.departed \/ patch.departs},
                  validation : {row.validation},
                  action : {row.action},
                  payload : {row.payload}]
           /\ Patched(row, patch) \in Rows
<1>1. /\ row = [kind |-> row.kind, status |-> row.status, class |-> row.class,
                departed |-> row.departed, validation |-> row.validation,
                action |-> row.action, payload |-> row.payload]
      /\ row.kind \in Kinds
      /\ row.status \in AllStatuses \cup {"absent"}
      /\ row.class \in Classes
      /\ row.departed \in BOOLEAN
      /\ row.validation \in Verdicts \cup {"none", "PENDING_VALIDATION"}
      /\ row.action \in AllActions
      /\ row.payload \in Payloads
  BY DEF Rows
<1>2. /\ patch.status \in AllStatuses \cup {"keep"}
      /\ patch.class \in Classes \cup {"keep"}
      /\ patch.departs \in BOOLEAN
  BY DEF Patches
<1> DEFINE s == IF patch.status = "keep" THEN row.status ELSE patch.status
           c == IF patch.class = "keep" THEN row.class ELSE patch.class
           d == row.departed \/ patch.departs
<1>3. Patched(row, patch) = [row EXCEPT !.status = s, !.class = c, !.departed = d]
  <2>1. /\ row.status = [row EXCEPT !.class = c].status
        /\ row.class = [row EXCEPT !.status = s].class
    BY <1>1
  <2> QED BY <1>1, <2>1 DEF Patched
<1>4. /\ s \in AllStatuses \cup {"absent"}
      /\ c \in Classes
      /\ d \in BOOLEAN
  BY <1>1, <1>2
<1>5. /\ s = IF patch.status = "keep" THEN row.status ELSE patch.status
      /\ c = IF patch.class = "keep" THEN row.class ELSE patch.class
      /\ d = (row.departed \/ patch.departs)
  OBVIOUS
<1> HIDE DEF s, c, d
<1>6. Patched(row, patch) =
         [kind |-> row.kind, status |-> s, class |-> c,
          departed |-> d, validation |-> row.validation,
          action |-> row.action, payload |-> row.payload]
  BY <1>1, <1>3
<1>7. Patched(row, patch) \in Rows
  BY <1>1, <1>4, <1>6 DEF Rows
<1> QED BY <1>5, <1>6, <1>7

\* The mark of a submission, the insert of a row to be validated and the
\* outcome of a review, column by column.
LEMMA MarkedFields ==
    ASSUME NEW row \in Rows, NEW h \in Locals
    PROVE  /\ Marked(row, h) \in Rows
           /\ Marked(row, h).kind = row.kind
           /\ Marked(row, h).status = row.status
           /\ Marked(row, h).class = row.class
           /\ Marked(row, h).departed = row.departed
           /\ Marked(row, h).validation = "PENDING_VALIDATION"
           /\ Marked(row, h).action = h.action
           /\ Marked(row, h).payload = h.payload
<1>1. /\ row = [kind |-> row.kind, status |-> row.status, class |-> row.class,
                departed |-> row.departed, validation |-> row.validation,
                action |-> row.action, payload |-> row.payload]
      /\ row.kind \in Kinds
      /\ row.status \in AllStatuses \cup {"absent"}
      /\ row.class \in Classes
      /\ row.departed \in BOOLEAN
  BY DEF Rows
<1>2. h.action \in AllActions /\ h.payload \in Payloads
  BY DEF Locals
<1>3. Marked(row, h) =
         [kind |-> row.kind, status |-> row.status, class |-> row.class,
          departed |-> row.departed, validation |-> "PENDING_VALIDATION",
          action |-> h.action, payload |-> h.payload]
  <2>1. Marked(row, h) =
           [row EXCEPT !.validation = "PENDING_VALIDATION", !.action = h.action,
                       !.payload = h.payload]
    BY DEF Marked
  <2> QED BY <1>1, <2>1
<1> QED BY <1>1, <1>2, <1>3 DEF Rows

LEMMA RecordedFields ==
    ASSUME NEW row \in Rows, NEW h \in Locals
    PROVE  /\ Recorded(row, h) \in Rows
           /\ Recorded(row, h).kind = row.kind
           /\ Recorded(row, h).status =
                 IF h.patch.status = "keep" THEN row.status ELSE h.patch.status
           /\ Recorded(row, h).validation = "PENDING_VALIDATION"
           /\ Recorded(row, h).action = h.action
           /\ Recorded(row, h).payload = row.payload
<1>1. h.patch \in Patches /\ h.action \in AllActions
  BY DEF Locals
<1> DEFINE new == Patched(row, h.patch)
<1>2. /\ new \in Rows
      /\ new.kind = row.kind
      /\ new.status = IF h.patch.status = "keep" THEN row.status ELSE h.patch.status
      /\ new.payload = row.payload
  BY <1>1, PatchedFields
<1>3. Recorded(row, h) = [new EXCEPT !.validation = "PENDING_VALIDATION", !.action = h.action]
  BY DEF Recorded
<1> HIDE DEF new
<1>4. /\ new = [kind |-> new.kind, status |-> new.status, class |-> new.class,
                departed |-> new.departed, validation |-> new.validation,
                action |-> new.action, payload |-> new.payload]
      /\ new.kind \in Kinds
      /\ new.status \in AllStatuses \cup {"absent"}
      /\ new.class \in Classes
      /\ new.departed \in BOOLEAN
      /\ new.payload \in Payloads
  BY <1>2 DEF Rows
<1>5. Recorded(row, h) =
         [kind |-> new.kind, status |-> new.status, class |-> new.class,
          departed |-> new.departed, validation |-> "PENDING_VALIDATION",
          action |-> h.action, payload |-> new.payload]
  BY <1>3, <1>4
<1>6. Recorded(row, h) \in Rows
  BY <1>1, <1>4, <1>5 DEF Rows
<1> QED BY <1>2, <1>5, <1>6

LEMMA AppliedFields ==
    ASSUME NEW row \in Rows, NEW h \in Locals, h.verdict \in Verdicts
    PROVE  /\ Applied(row, h) \in Rows
           /\ Applied(row, h).kind = row.kind
           /\ Applied(row, h).status =
                 IF h.patch.status = "keep" THEN row.status ELSE h.patch.status
           /\ Applied(row, h).validation = h.verdict
           /\ Applied(row, h).action = IF h.clears THEN "none" ELSE row.action
           /\ Applied(row, h).payload = IF h.clears THEN "none" ELSE row.payload
<1>1. h.patch \in Patches /\ h.clears \in BOOLEAN
  BY DEF Locals
<1> DEFINE new == Patched(row, h.patch)
           a == IF h.clears THEN "none" ELSE row.action
           p == IF h.clears THEN "none" ELSE row.payload
<1>2. /\ new \in Rows
      /\ new.kind = row.kind
      /\ new.status = IF h.patch.status = "keep" THEN row.status ELSE h.patch.status
      /\ new.action = row.action
      /\ new.payload = row.payload
  BY <1>1, PatchedFields
<1>3. /\ Applied(row, h) =
            [new EXCEPT !.validation = h.verdict,
                        !.action = IF h.clears THEN "none" ELSE @,
                        !.payload = IF h.clears THEN "none" ELSE @]
      /\ a = IF h.clears THEN "none" ELSE row.action
      /\ p = IF h.clears THEN "none" ELSE row.payload
  BY DEF Applied
<1> HIDE DEF new
<1>4. /\ new = [kind |-> new.kind, status |-> new.status, class |-> new.class,
                departed |-> new.departed, validation |-> new.validation,
                action |-> new.action, payload |-> new.payload]
      /\ new.kind \in Kinds
      /\ new.status \in AllStatuses \cup {"absent"}
      /\ new.class \in Classes
      /\ new.departed \in BOOLEAN
      /\ row.payload \in Payloads
      /\ row.action \in AllActions
  BY <1>2 DEF Rows
<1>5. a \in AllActions /\ p \in Payloads
  <2>1. "none" \in AllActions
    BY DEF AllActions
  <2>2. "none" \in Payloads
    BY DEF Payloads
  <2> QED BY <1>4, <2>1, <2>2
<1>6. Applied(row, h) = [new EXCEPT !.validation = h.verdict, !.action = a, !.payload = p]
  BY <1>2, <1>3, <1>4
<1> HIDE DEF a, p
<1>7. Applied(row, h) =
         [kind |-> new.kind, status |-> new.status, class |-> new.class,
          departed |-> new.departed, validation |-> h.verdict,
          action |-> a, payload |-> p]
  BY <1>4, <1>6
<1>8. Applied(row, h) \in Rows
  BY <1>4, <1>5, <1>7 DEF Rows
<1> QED BY <1>2, <1>3, <1>7, <1>8

-----------------------------------------------------------------------------
(***************************************************************************)
(* Which columns the judgements on a row and on a change depend on.        *)
(***************************************************************************)

LEMMA SensibleByColumns ==
    ASSUME NEW a, NEW b,
           b.kind = a.kind, b.status = a.status,
           b.departed = a.departed, b.action = a.action,
           Sensible(a)
    PROVE  Sensible(b)
  BY DEF Sensible, StillMakesSense, ContractAllows, ProcedureAllows

LEMMA KeepsByColumns ==
    ASSUME NEW old, NEW a, NEW b,
           b.kind = a.kind, b.status = a.status, Keeps(old, a)
    PROVE  Keeps(old, b)
  BY DEF Keeps, NeedsADecisionWhenRead

LEMMA SameStatusKeeps ==
    ASSUME NEW old, NEW new, new.status = old.status
    PROVE  Keeps(old, new)
  BY DEF Keeps, NeedsADecisionWhenRead

\* A row that makes sense to decide about is not archived, but for contracts.
LEMMA SensibleIsNotArchived ==
    ASSUME NEW row, RowOK(row), Sensible(row), row.kind # "SUPPLIER_CONTRACT"
    PROVE  row.status \notin {"ARCHIVE", "ARCHIVEE"}
<1>1. row.kind \in Kinds /\ row.status \in Statuses[row.kind] \cup {"absent"}
  BY DEF RowOK, Rows
<1>2. row.kind \in {"ADMINISTRATIVE_PROCEDURE", "MAINTENANCE_TICKET", "INVENTORY_ASSET",
                    "ENTRY_LOG", "GOODS_MOVEMENT_LOG", "ACTIVITY", "FUND_REQUEST"}
  BY <1>1 DEF Kinds, Statuses
<1>3. CASE row.kind \in {"MAINTENANCE_TICKET", "ACTIVITY", "FUND_REQUEST"}
  BY <1>1, <1>3 DEF Statuses
<1>4. CASE row.kind = "ADMINISTRATIVE_PROCEDURE"
  <2>1. row.status # "ARCHIVEE"
    BY <1>1, <1>4 DEF Statuses
  <2>2. row.status # "ARCHIVE"
    BY <1>4 DEF Sensible, StillMakesSense, ProcedureAllows, MANUALLY_SETTABLE_STATUSES
  <2> QED BY <2>1, <2>2
<1>5. CASE row.kind = "INVENTORY_ASSET"
  <2>1. row.status # "ARCHIVEE"
    BY <1>1, <1>5 DEF Statuses
  <2>2. row.status # "ARCHIVE"
    BY <1>5 DEF Sensible, StillMakesSense
  <2> QED BY <2>1, <2>2
<1>6. CASE row.kind = "ENTRY_LOG"
  <2>1. row.status # "ARCHIVE"
    BY <1>1, <1>6 DEF Statuses
  <2>2. row.status # "ARCHIVEE"
    BY <1>6 DEF Sensible, StillMakesSense, Actions
  <2> QED BY <2>1, <2>2
<1>7. CASE row.kind = "GOODS_MOVEMENT_LOG"
  <2>1. row.status # "ARCHIVEE"
    BY <1>1, <1>7 DEF Statuses
  <2>2. row.status # "ARCHIVE"
    BY <1>7 DEF Sensible, StillMakesSense
  <2> QED BY <2>1, <2>2
<1> QED BY <1>2, <1>3, <1>4, <1>5, <1>6, <1>7

(***************************************************************************)
(* What a handler makes of a row is a row of the same register.            *)
(***************************************************************************)
LEMMA StatusOfRegister ==
    ASSUME NEW kind \in Kinds, NEW s \in Statuses[kind]
    PROVE  s # "absent" /\ s \in AllStatuses
<1>1. s \in AllStatuses
  BY DEF AllStatuses
<1>2. s # "absent"
  BY DEF Kinds, Statuses
<1> QED BY <1>1, <1>2

LEMMA PatchedRows ==
    ASSUME NEW row, RowOK(row), NEW patch \in Patches,
           patch.status \in Statuses[row.kind] \cup {"keep"},
           row.status # "absent" \/ patch.status # "keep"
    PROVE  /\ RowOK(Patched(row, patch))
           /\ Patched(row, patch).kind = row.kind
           /\ Patched(row, patch).status # "absent"
<1>1. /\ row \in Rows
      /\ row.kind \in Kinds
      /\ row.status \in Statuses[row.kind] \cup {"absent"}
  BY DEF RowOK, Rows
<1> DEFINE new == Patched(row, patch)
<1>2. /\ new \in Rows
      /\ new.kind = row.kind
      /\ new.status = IF patch.status = "keep" THEN row.status ELSE patch.status
      /\ new.validation = row.validation
      /\ new.action = row.action
      /\ new.payload = row.payload
  BY <1>1, PatchedFields
<1> HIDE DEF new
<1>3. new.status \in Statuses[row.kind]
  BY <1>1, <1>2
<1>4. new.status # "absent"
  BY <1>1, <1>3, StatusOfRegister
<1>5. RowOK(new)
  BY <1>2, <1>3, <1>4 DEF RowOK, Awaits
<1> QED BY <1>2, <1>4, <1>5 DEF new

LEMMA RecordedRows ==
    ASSUME NEW row, RowOK(row), NEW h \in Locals, HandlerOK("record", h, row)
    PROVE  /\ RowOK(Recorded(row, h))
           /\ Recorded(row, h).kind = row.kind
           /\ Recorded(row, h).status # "absent"
<1>1. /\ row \in Rows
      /\ row.kind \in Kinds
  BY DEF RowOK, Rows
<1>2. /\ h.patch.status \in Statuses[row.kind]
      /\ h.action \in Actions[row.kind] \cup {"none"}
      /\ h.action # "ASSET_DISPOSAL"
      /\ Named(row.kind, h.action)
  BY DEF HandlerOK
<1>3. h.patch.status # "keep" /\ h.patch.status # "absent"
  BY <1>1, <1>2, StatusOfRegister DEF HandlerOK
<1> DEFINE new == Recorded(row, h)
<1>4. /\ new \in Rows
      /\ new.kind = row.kind
      /\ new.status = h.patch.status
      /\ new.action = h.action
  BY <1>1, <1>3, RecordedFields
<1> HIDE DEF new
<1>5. RowOK(new)
  BY <1>2, <1>3, <1>4 DEF RowOK
<1> QED BY <1>3, <1>4, <1>5 DEF new

LEMMA MarkedRows ==
    ASSUME NEW row, RowOK(row), NEW h \in Locals, HandlerOK("mark", h, row)
    PROVE  /\ RowOK(Marked(row, h))
           /\ Marked(row, h).kind = row.kind
           /\ Marked(row, h).status = row.status
           /\ Marked(row, h).status # "absent"
<1>1. /\ row \in Rows
      /\ row.status \in Statuses[row.kind] \cup {"absent"}
  BY DEF RowOK
<1>2. /\ row.status # "absent"
      /\ h.action \in Actions[row.kind] \cup {"none"}
      /\ row.kind = "INVENTORY_ASSET" /\ h.action = "ASSET_DISPOSAL" =>
            h.payload \in DOMAIN DISPOSAL_STATUS_MAP
      /\ Named(row.kind, h.action)
  BY DEF HandlerOK
<1> DEFINE new == Marked(row, h)
<1>3. /\ new \in Rows
      /\ new.kind = row.kind
      /\ new.status = row.status
      /\ new.action = h.action
      /\ new.payload = h.payload
  BY <1>1, MarkedFields
<1> HIDE DEF new
<1>4. RowOK(new)
  BY <1>1, <1>2, <1>3 DEF RowOK
<1> QED BY <1>2, <1>3, <1>4 DEF new

LEMMA AppliedRows ==
    ASSUME NEW row, RowOK(row), NEW h \in Locals, HandlerOK("apply", h, row)
    PROVE  /\ RowOK(Applied(row, h))
           /\ Applied(row, h).kind = row.kind
           /\ Applied(row, h).status # "absent"
           /\ Applied(row, h).status = Patched(row, h.patch).status
           /\ Applied(row, h).validation = h.verdict
           /\ h.verdict \in Verdicts
<1>1. /\ row \in Rows
      /\ row.kind \in Kinds
      /\ row.status \in Statuses[row.kind] \cup {"absent"}
      /\ row.action \in Actions[row.kind] \cup {"none"}
      /\ row.kind = "INVENTORY_ASSET" /\ row.action = "ASSET_DISPOSAL" =>
            row.payload \in DOMAIN DISPOSAL_STATUS_MAP
  BY DEF RowOK, Rows
<1>2. /\ row.status # "absent"
      /\ h.patch.status \in Statuses[row.kind] \cup {"keep"}
      /\ h.verdict \in Verdicts
  BY DEF HandlerOK, Reviews
<1>3. h.patch \in Patches
  BY DEF Locals
<1> DEFINE new == Applied(row, h)
<1>4. /\ new \in Rows
      /\ new.kind = row.kind
      /\ new.status = IF h.patch.status = "keep" THEN row.status ELSE h.patch.status
      /\ new.validation = h.verdict
      /\ new.action = IF h.clears THEN "none" ELSE row.action
      /\ new.payload = IF h.clears THEN "none" ELSE row.payload
  BY <1>1, <1>2, AppliedFields
<1> HIDE DEF new
<1>5. new.status \in Statuses[row.kind]
  BY <1>1, <1>2, <1>4
<1>6. new.status # "absent"
  BY <1>1, <1>5, StatusOfRegister
<1>7. new.action \in Actions[row.kind] \cup {"none"}
  BY <1>1, <1>4
<1>8. row.kind = "INVENTORY_ASSET" /\ new.action = "ASSET_DISPOSAL" =>
         new.payload \in DOMAIN DISPOSAL_STATUS_MAP
  BY <1>1, <1>4
<1>9. RowOK(new)
  <2>1. ~Awaits(new)
    BY <1>2, <1>4 DEF Awaits, Verdicts
  <2> QED BY <1>4, <1>5, <1>6, <1>7, <1>8, <2>1 DEF RowOK
<1>10. new.status = Patched(row, h.patch).status
  BY <1>1, <1>3, <1>4, PatchedFields
<1> QED BY <1>2, <1>4, <1>6, <1>9, <1>10 DEF new

\* What is known of a handler survives what the others make of its row.
LEMMA HandlerStays ==
    ASSUME NEW step, NEW h, NEW row, NEW new,
           HandlerOK(step, h, row),
           new.kind = row.kind, new.status # "absent" \/ new = row
    PROVE  HandlerOK(step, h, new)
  BY DEF HandlerOK

-----------------------------------------------------------------------------
(***************************************************************************)
(* The four ways in which a handler begins.  What its checks have to       *)
(* establish of the row it read is stated here once; the operations are    *)
(* shown to establish it further down.                                     *)
(***************************************************************************)
Fit(step, h, row) ==
    /\ HandlerOK(step, h, row)
    /\ \A open \in SUBSET ValidationRequests :
          Settles(row, open) => Fits(step, h, row, open)

Fitting(w) ==
    \E step \in Steps : \E h \in Locals :
       Begin(w, step, h) /\ Fit(step, h, rows[h.item])

\* An update of row that no decision is kept for.
MayWrite(row, patch) ==
    /\ patch \in Patches
    /\ row.status # "absent"
    /\ patch.status \in Statuses[row.kind] \cup {"keep"}
    /\ row.kind \in DOMAIN DecidedStatuses => patch.status \notin DecidedStatuses[row.kind]
    /\ Keeps(row, Patched(row, patch))
    /\ Awaits(row) /\ Sensible(row) => Sensible(Patched(row, patch))

\* An operation on row that can be submitted.
MaySubmit(row, action, payload) ==
    /\ row.status # "absent"
    /\ action \in Actions[row.kind] \cup {"none"}
    /\ action \in AllActions /\ payload \in Payloads
    /\ row.kind = "INVENTORY_ASSET" /\ action = "ASSET_DISPOSAL" =>
          payload \in DOMAIN DISPOSAL_STATUS_MAP
    /\ row.kind = "ENTRY_LOG" => action \in Actions["ENTRY_LOG"]
    /\ Named(row.kind, action)
    /\ \A new : /\ new.kind = row.kind
                /\ new.status = row.status
                /\ new.departed = row.departed
                /\ new.action = action
                => StillMakesSense(new)

\* A decision about row that can be made.
MayDecide(row, verdict, patch) ==
    /\ patch \in Patches
    /\ row.status # "absent"
    /\ verdict \in Verdicts
    /\ patch.status \in Statuses[row.kind] \cup {"keep"}
    /\ verdict # "APPROVED" =>
          /\ row.kind \in DOMAIN DecidedStatuses =>
                patch.status \notin DecidedStatuses[row.kind]
          /\ Keeps(row, Patched(row, patch))

\* A row that can be created with an operation submitted.
MayRecord(row, patch, action) ==
    /\ patch \in Patches
    /\ row.status = "absent"
    /\ patch.status \in Statuses[row.kind]
    /\ patch.status # "keep"
    /\ action \in Actions[row.kind] \cup {"none"}
    /\ action \in AllActions
    /\ action # "ASSET_DISPOSAL"
    /\ Named(row.kind, action)
    /\ row.kind # "ENTRY_LOG"
    /\ row.kind \notin DOMAIN DecidedStatuses
    /\ \A new : /\ new.kind = row.kind
                /\ new.status = patch.status
                /\ new.action = action
                => /\ StillMakesSense(new)
                   /\ ~NeedsADecisionWhenRead(row, new)

LEMMA NoCallFields ==
    /\ NoCall = [item |-> NoItem, user |-> NoUser, patch |-> NoPatch, action |-> "none",
                 payload |-> "none", marks |-> FALSE, clears |-> FALSE,
                 verdict |-> "none", request |-> NoValidation]
    /\ NoPatch \in Patches
    /\ "none" \in AllActions
    /\ "none" \in Payloads
    /\ NoCall \in Locals
<1>1. NoPatch \in Patches
  BY DEF NoPatch, Patches
<1>2. "none" \in AllActions
  BY DEF AllActions
<1>3. "none" \in Payloads
  BY DEF Payloads
<1>4. NoCall \in Locals
  BY <1>1, <1>2, <1>3 DEF NoCall, Locals
<1> QED BY <1>1, <1>2, <1>3, <1>4 DEF NoCall

\* What a handler holds when it begins.
LEMMA BeginFields ==
    ASSUME NEW h \in Locals, NEW x \in Items
    PROVE  /\ \A patch \in Patches :
                 [h EXCEPT !.item = x, !.patch = patch] \in
                    [item : {x}, user : {h.user}, patch : {patch}, action : {h.action},
                     payload : {h.payload}, marks : {h.marks}, clears : {h.clears},
                     verdict : {h.verdict}, request : {h.request}]
           /\ \A user \in Users, patch \in Patches, clears \in BOOLEAN, verdict \in Verdicts :
                 [h EXCEPT !.item = x, !.user = user, !.patch = patch,
                           !.clears = clears, !.verdict = verdict] \in
                    [item : {x}, user : {user}, patch : {patch}, action : {h.action},
                     payload : {h.payload}, marks : {h.marks}, clears : {clears},
                     verdict : {verdict}, request : {h.request}]
           /\ \A user \in Users, patch \in Patches, action \in AllActions :
                 [h EXCEPT !.item = x, !.user = user, !.patch = patch, !.action = action] \in
                    [item : {x}, user : {user}, patch : {patch}, action : {action},
                     payload : {h.payload}, marks : {h.marks}, clears : {h.clears},
                     verdict : {h.verdict}, request : {h.request}]
  BY DEF Locals

LEMMA SubmitFields ==
    ASSUME NEW h \in Locals, NEW x \in Items, NEW user \in Users,
           NEW action \in AllActions, NEW payload \in Payloads
    PROVE  [h EXCEPT !.item = x, !.user = user, !.action = action, !.payload = payload,
                     !.marks = TRUE] \in
              [item : {x}, user : {user}, patch : {h.patch}, action : {action},
               payload : {payload}, marks : {TRUE}, clears : {h.clears},
               verdict : {h.verdict}, request : {h.request}]
  BY DEF Locals

LEMMA UsersByRole ==
    /\ Submitters \subseteq Users /\ Supervisors \subseteq Users
    /\ Directors \subseteq Submitters
    /\ Submitters \cap Supervisors = {}
  BY RolesAssumption DEF Users, Submitters

LEMMA WriteStarts ==
    ASSUME AdminTypeOK, NEW w \in Workers, NEW x \in Items, NEW patch,
           MayWrite(rows[x], patch), StartWrite(w, x, patch)
    PROVE  Fitting(w)
<1> DEFINE h == [NoCall EXCEPT !.item = x, !.patch = patch]
           row == rows[x]
<1>1. Begin(w, "write", h)
  BY DEF StartWrite
<1>2. patch \in Patches
  BY DEF MayWrite
<1>3. h \in [item : {x}, user : {NoUser}, patch : {patch}, action : {"none"},
            payload : {"none"}, marks : {FALSE}, clears : {FALSE}, verdict : {"none"},
            request : {NoValidation}]
  BY <1>2, NoCallFields, BeginFields
<1> HIDE DEF h
<1>4. h \in Locals
  BY <1>2, <1>3, NoCallFields DEF Locals
<1>5. /\ h.item = x /\ h.patch = patch /\ h.action = "none" /\ h.verdict = "none"
  BY <1>3
<1>6. HandlerOK("write", h, row)
  BY <1>5 DEF HandlerOK, MayWrite, Reviews, Approves
<1>7. ASSUME NEW open \in SUBSET ValidationRequests, Settles(row, open)
      PROVE  Fits("write", h, row, open)
  BY <1>5, <1>7 DEF Fits, MayWrite, Settles
<1>8. Fit("write", h, rows[h.item])
  BY <1>5, <1>6, <1>7 DEF Fit
<1>9. "write" \in Steps
  BY DEF Steps
<1> QED BY <1>1, <1>4, <1>8, <1>9 DEF Fitting

LEMMA SubmitStarts ==
    ASSUME AdminTypeOK, NEW w \in Workers, NEW x \in Items, NEW user \in Submitters,
           NEW action, NEW payload,
           MaySubmit(rows[x], action, payload), StartSubmit(w, x, user, action, payload)
    PROVE  Fitting(w)
<1> DEFINE h == [NoCall EXCEPT !.item = x, !.user = user, !.action = action,
                               !.payload = payload, !.marks = TRUE]
           row == rows[x]
<1>1. Begin(w, "find", h)
  BY DEF StartSubmit
<1>2. action \in AllActions /\ payload \in Payloads
  BY DEF MaySubmit
<1>3. h \in [item : {x}, user : {user}, patch : {NoPatch}, action : {action},
            payload : {payload}, marks : {TRUE}, clears : {FALSE}, verdict : {"none"},
            request : {NoValidation}]
  <2>1. [NoCall EXCEPT !.item = x, !.user = user, !.action = action, !.payload = payload,
                       !.marks = TRUE] \in
           [item : {x}, user : {user}, patch : {NoCall.patch}, action : {action},
            payload : {payload}, marks : {TRUE}, clears : {NoCall.clears},
            verdict : {NoCall.verdict}, request : {NoCall.request}]
    BY <1>2, NoCallFields, SubmitFields, ZenonT(40)
  <2>2. h \in [item : {x}, user : {user}, patch : {NoCall.patch}, action : {action},
              payload : {payload}, marks : {TRUE}, clears : {NoCall.clears},
              verdict : {NoCall.verdict}, request : {NoCall.request}]
    BY <2>1
  <2> QED BY <2>2, NoCallFields
<1> HIDE DEF h
<1>4. h \in Locals
  BY <1>2, <1>3, NoCallFields, UsersByRole DEF Locals
<1>5. /\ h.item = x /\ h.patch = NoPatch /\ h.action = action
      /\ h.payload = payload /\ h.verdict = "none" /\ h.marks = TRUE /\ h.user = user
  BY <1>3
<1>6. NoPatch.status = "keep"
  BY DEF NoPatch
<1>7. row.kind \in DOMAIN DecidedStatuses => "keep" \notin DecidedStatuses[row.kind]
  BY DEF DecidedStatuses
<1>8. HandlerOK("find", h, row)
  BY <1>5, <1>6, <1>7 DEF HandlerOK, MaySubmit, Reviews, Approves
<1>9. Sensible(Marked(row, h))
  <2>1. row \in Rows
    BY DEF AdminTypeOK
  <2> DEFINE new == Marked(row, h)
  <2>2. /\ new.kind = row.kind /\ new.status = row.status
        /\ new.departed = row.departed /\ new.action = action
    BY <1>4, <1>5, <2>1, MarkedFields
  <2> HIDE DEF new
  <2>3. StillMakesSense(new)
    BY <2>2 DEF MaySubmit
  <2>4. new.kind = "ENTRY_LOG" => new.action \in Actions["ENTRY_LOG"]
    BY <2>2 DEF MaySubmit
  <2> QED BY <2>3, <2>4 DEF Sensible, new
<1>10. ASSUME NEW open \in SUBSET ValidationRequests, Settles(row, open)
       PROVE  Fits("find", h, row, open)
  BY <1>5, <1>9, <1>10 DEF Fits
<1>11. Fit("find", h, rows[h.item])
  BY <1>5, <1>8, <1>10 DEF Fit
<1>12. "find" \in Steps
  BY DEF Steps
<1> QED BY <1>1, <1>4, <1>11, <1>12 DEF Fitting

LEMMA ReviewStarts ==
    ASSUME AdminTypeOK, NEW w \in Workers, NEW x \in Items, NEW user \in Users,
           NEW verdict, NEW patch, NEW clears \in BOOLEAN,
           MayDecide(rows[x], verdict, patch),
           StartReview(w, x, user, verdict, patch, clears)
    PROVE  Fitting(w)
<1> DEFINE h == [NoCall EXCEPT !.item = x, !.user = user, !.patch = patch,
                               !.clears = clears, !.verdict = verdict]
           row == rows[x]
<1>1. Begin(w, "look", h)
  BY DEF StartReview
<1>2. patch \in Patches /\ verdict \in Verdicts
  BY DEF MayDecide
<1>3. h \in [item : {x}, user : {user}, patch : {patch}, action : {"none"},
            payload : {"none"}, marks : {FALSE}, clears : {clears}, verdict : {verdict},
            request : {NoValidation}]
  BY <1>2, NoCallFields, BeginFields
<1> HIDE DEF h
<1>4. h \in Locals
  BY <1>2, <1>3, NoCallFields DEF Locals
<1>5. /\ h.item = x /\ h.patch = patch /\ h.action = "none" /\ h.verdict = verdict
  BY <1>3
<1>6. HandlerOK("look", h, row)
  BY <1>5 DEF HandlerOK, MayDecide, Reviews, Approves
<1>7. ASSUME NEW open \in SUBSET ValidationRequests, Settles(row, open)
      PROVE  Fits("look", h, row, open)
  BY <1>5, <1>7 DEF Fits, MayDecide, Outcome
<1>8. Fit("look", h, rows[h.item])
  BY <1>5, <1>6, <1>7 DEF Fit
<1>9. "look" \in Steps
  BY DEF Steps
<1> QED BY <1>1, <1>4, <1>8, <1>9 DEF Fitting

LEMMA RecordStarts ==
    ASSUME AdminTypeOK, NEW w \in Workers, NEW x \in Items, NEW user \in Submitters,
           NEW patch, NEW action,
           MayRecord(rows[x], patch, action), StartRecord(w, x, user, patch, action)
    PROVE  Fitting(w)
<1> DEFINE h == [NoCall EXCEPT !.item = x, !.user = user, !.patch = patch,
                               !.action = action]
           row == rows[x]
<1>1. Begin(w, "record", h)
  BY DEF StartRecord
<1>2. patch \in Patches /\ action \in AllActions
  BY DEF MayRecord
<1>3. h \in [item : {x}, user : {user}, patch : {patch}, action : {action},
            payload : {"none"}, marks : {FALSE}, clears : {FALSE}, verdict : {"none"},
            request : {NoValidation}]
  BY <1>2, NoCallFields, BeginFields
<1> HIDE DEF h
<1>4. h \in Locals
  BY <1>2, <1>3, NoCallFields, UsersByRole DEF Locals
<1>5. /\ h.item = x /\ h.patch = patch /\ h.action = action
      /\ h.verdict = "none" /\ h.marks = FALSE /\ h.user = user
  BY <1>3
<1>6. HandlerOK("record", h, row)
  BY <1>5 DEF HandlerOK, MayRecord, Reviews, Approves
<1> DEFINE new == Recorded(row, h)
<1>7. /\ new.kind = row.kind /\ new.status = patch.status /\ new.action = action
  <2>1. row \in Rows
    BY DEF AdminTypeOK
  <2> QED BY <1>4, <1>5, <2>1, RecordedFields DEF MayRecord
<1> HIDE DEF new
<1>8. StillMakesSense(new) /\ ~NeedsADecisionWhenRead(row, new)
  BY <1>7 DEF MayRecord
<1>9. Sensible(new)
  BY <1>7, <1>8 DEF Sensible, MayRecord
<1>10. Keeps(row, new)
  BY <1>8 DEF Keeps, MayRecord
<1>11. ASSUME NEW open \in SUBSET ValidationRequests, Settles(row, open)
       PROVE  Fits("record", h, row, open)
  BY <1>5, <1>9, <1>10, <1>11 DEF Fits, MayRecord, new
<1>12. Fit("record", h, rows[h.item])
  BY <1>5, <1>6, <1>11 DEF Fit
<1>13. "record" \in Steps
  BY DEF Steps
<1> QED BY <1>1, <1>4, <1>12, <1>13 DEF Fitting

-----------------------------------------------------------------------------
(***************************************************************************)
(* Patches, and what may be written, submitted and decided by them.        *)
(***************************************************************************)
LEMMA StatusPatches ==
    ASSUME NEW s \in AllStatuses, NEW c \in Classes
    PROVE  /\ SetStatus(s) \in [status : {s}, class : {"keep"}, departs : {FALSE}]
           /\ SetStatus(s) \in Patches
           /\ [SetStatus(s) EXCEPT !.class = c] \in
                 [status : {s}, class : {c}, departs : {FALSE}]
           /\ [SetStatus(s) EXCEPT !.class = c] \in Patches
           /\ [SetStatus(s) EXCEPT !.departs = TRUE] \in
                 [status : {s}, class : {"keep"}, departs : {TRUE}]
           /\ [SetStatus(s) EXCEPT !.departs = TRUE] \in Patches
           /\ [NoPatch EXCEPT !.status = s, !.class = c] \in
                 [status : {s}, class : {c}, departs : {FALSE}]
           /\ [NoPatch EXCEPT !.status = s, !.class = c] \in Patches
<1>1. NoPatch \in [status : {"keep"}, class : {"keep"}, departs : {FALSE}]
  BY DEF NoPatch
<1> PICK n \in [status : {"keep"}, class : {"keep"}, departs : {FALSE}] : n = NoPatch
  BY <1>1
<1>2. SetStatus(s) = [n EXCEPT !.status = s]
  BY DEF SetStatus
<1>3. SetStatus(s) \in [status : {s}, class : {"keep"}, departs : {FALSE}]
  BY <1>2
<1> PICK m \in [status : {s}, class : {"keep"}, departs : {FALSE}] : m = SetStatus(s)
  BY <1>3
<1>4. [m EXCEPT !.class = c] \in [status : {s}, class : {c}, departs : {FALSE}]
  OBVIOUS
<1>5. [m EXCEPT !.departs = TRUE] \in [status : {s}, class : {"keep"}, departs : {TRUE}]
  OBVIOUS
<1>6. [n EXCEPT !.status = s, !.class = c] \in [status : {s}, class : {c}, departs : {FALSE}]
  OBVIOUS
<1>7. ASSUME NEW b \in BOOLEAN
      PROVE  /\ [status : {s}, class : {c}, departs : {b}] \subseteq Patches
             /\ [status : {s}, class : {"keep"}, departs : {b}] \subseteq Patches
  BY DEF Patches
<1> QED BY <1>3, <1>4, <1>5, <1>6, <1>7

LEMMA OtherPatches ==
    ASSUME NEW c \in Classes
    PROVE  /\ NoPatch \in [status : {"keep"}, class : {"keep"}, departs : {FALSE}]
           /\ NoPatch \in Patches
           /\ [NoPatch EXCEPT !.class = c] \in
                 [status : {"keep"}, class : {c}, departs : {FALSE}]
           /\ [NoPatch EXCEPT !.class = c] \in Patches
           /\ [NoPatch EXCEPT !.departs = TRUE] \in
                 [status : {"keep"}, class : {"keep"}, departs : {TRUE}]
           /\ [NoPatch EXCEPT !.departs = TRUE] \in Patches
<1>1. NoPatch \in [status : {"keep"}, class : {"keep"}, departs : {FALSE}]
  BY DEF NoPatch
<1> PICK n \in [status : {"keep"}, class : {"keep"}, departs : {FALSE}] : n = NoPatch
  BY <1>1
<1>2. [n EXCEPT !.class = c] \in [status : {"keep"}, class : {c}, departs : {FALSE}]
  OBVIOUS
<1>3. [n EXCEPT !.departs = TRUE] \in [status : {"keep"}, class : {"keep"}, departs : {TRUE}]
  OBVIOUS
<1>4. /\ [status : {"keep"}, class : {c}, departs : {FALSE}] \subseteq Patches
      /\ [status : {"keep"}, class : {"keep"}, departs : {FALSE}] \subseteq Patches
      /\ [status : {"keep"}, class : {"keep"}, departs : {TRUE}] \subseteq Patches
  BY DEF Patches
<1> QED BY <1>1, <1>2, <1>3, <1>4

\* An update may be made when every row with the columns it leaves is as it
\* should be.
LEMMA WriteAllowed ==
    ASSUME NEW row, RowOK(row), NEW patch \in Patches,
           row.status # "absent",
           patch.status \in Statuses[row.kind] \cup {"keep"},
           row.kind \in DOMAIN DecidedStatuses =>
              patch.status \notin DecidedStatuses[row.kind],
           \A new : /\ new.kind = row.kind
                    /\ new.status = IF patch.status = "keep" THEN row.status ELSE patch.status
                    /\ new.departed = (row.departed \/ patch.departs)
                    /\ new.action = row.action
                    => /\ Keeps(row, new)
                       /\ Awaits(row) /\ Sensible(row) => Sensible(new)
    PROVE  MayWrite(row, patch)
<1>1. row \in Rows
  BY DEF RowOK
<1> DEFINE new == Patched(row, patch)
<1>2. /\ new.kind = row.kind
      /\ new.status = IF patch.status = "keep" THEN row.status ELSE patch.status
      /\ new.departed = (row.departed \/ patch.departs)
      /\ new.action = row.action
  BY <1>1, PatchedFields
<1> HIDE DEF new
<1>3. Keeps(row, new) /\ (Awaits(row) /\ Sensible(row) => Sensible(new))
  BY <1>2
<1> QED BY <1>3 DEF MayWrite, new

LEMMA OnlyTheClassIsWritten ==
    ASSUME NEW row, RowOK(row), NEW patch \in Patches,
           row.status # "absent", patch.status = "keep", patch.departs = FALSE
    PROVE  MayWrite(row, patch)
<1>1. patch.status \in Statuses[row.kind] \cup {"keep"}
  OBVIOUS
<1>2. row.kind \in DOMAIN DecidedStatuses => patch.status \notin DecidedStatuses[row.kind]
  BY DEF DecidedStatuses
<1>3. ASSUME NEW new,
             new.kind = row.kind,
             new.status = IF patch.status = "keep" THEN row.status ELSE patch.status,
             new.departed = (row.departed \/ patch.departs),
             new.action = row.action
      PROVE  /\ Keeps(row, new)
             /\ Awaits(row) /\ Sensible(row) => Sensible(new)
  <2>1. new.status = row.status
    BY <1>3
  <2>2. new.departed = row.departed
    <3>1. row.departed \in BOOLEAN
      BY DEF RowOK, Rows
    <3> QED BY <1>3, <3>1
  <2>3. Keeps(row, new)
    BY <2>1, SameStatusKeeps
  <2>4. Sensible(row) => Sensible(new)
    BY <1>3, <2>1, <2>2, SensibleByColumns
  <2> QED BY <2>3, <2>4
<1>4. \A new : /\ new.kind = row.kind
               /\ new.status = IF patch.status = "keep" THEN row.status ELSE patch.status
               /\ new.departed = (row.departed \/ patch.departs)
               /\ new.action = row.action
               => /\ Keeps(row, new)
                  /\ Awaits(row) /\ Sensible(row) => Sensible(new)
  BY <1>3
<1> QED BY <1>1, <1>2, <1>4, WriteAllowed

LEMMA NothingDecided ==
    ASSUME NEW row, RowOK(row), NEW verdict \in Verdicts, row.status # "absent"
    PROVE  MayDecide(row, verdict, NoPatch)
<1>1. NoPatch \in Patches /\ NoPatch.status = "keep"
  BY DEF NoPatch, Patches
<1>2. row.kind \in DOMAIN DecidedStatuses => NoPatch.status \notin DecidedStatuses[row.kind]
  BY <1>1 DEF DecidedStatuses
<1>3. Keeps(row, Patched(row, NoPatch))
  <2>1. Patched(row, NoPatch).status = row.status
    BY <1>1, PatchedFields DEF RowOK
  <2> QED BY <2>1, SameStatusKeeps
<1> QED BY <1>1, <1>2, <1>3 DEF MayDecide

LEMMA StatusDecided ==
    ASSUME NEW row, RowOK(row), row.status # "absent",
           NEW s \in Statuses[row.kind]
    PROVE  /\ MayDecide(row, "APPROVED", SetStatus(s))
           /\ MayDecide(row, "APPROVED", [SetStatus(s) EXCEPT !.departs = TRUE])
<1>1. s \in AllStatuses
  BY StatusOfRegister DEF RowOK, Rows
<1>2. "none" \in Classes /\ "APPROVED" \in Verdicts
  BY DEF Classes, Verdicts
<1>3. /\ SetStatus(s) \in Patches
      /\ SetStatus(s).status = s
      /\ [SetStatus(s) EXCEPT !.departs = TRUE] \in Patches
      /\ [SetStatus(s) EXCEPT !.departs = TRUE].status = s
  BY <1>1, <1>2, StatusPatches
<1> QED BY <1>2, <1>3 DEF MayDecide

LEMMA ReadRow ==
    ASSUME AdminTypeOK, NEW x \in Items, NEW kind, Is(kind, x)
    PROVE  /\ RowOK(rows[x])
           /\ rows[x] \in Rows
           /\ rows[x].kind = kind
           /\ kind \in Kinds
           /\ rows[x].status # "absent"
           /\ rows[x].status \in Statuses[kind]
           /\ rows[x].action \in Actions[kind] \cup {"none"}
           /\ Unreviewed(x) => ~Awaits(rows[x])
<1>1. RowOK(rows[x])
  BY DEF AdminTypeOK
<1> QED BY <1>1 DEF RowOK, Rows, Is, Exists, Unreviewed, Awaits

-----------------------------------------------------------------------------
(***************************************************************************)
(* The operations of the registers, that establish it: contracts.          *)
(***************************************************************************)
LEMMA ContractKind ==
    /\ Contract = "SUPPLIER_CONTRACT"
    /\ Contract \in Kinds
    /\ Statuses[Contract] = {"BROUILLON", "ACTIF", "RESILIE", "ARCHIVE"}
    /\ Actions[Contract] = {"CREATION", "RENEWAL", "TERMINATION"}
    /\ DecidedStatuses[Contract] = {"ACTIF", "RESILIE"}
    /\ Statuses[Contract] \subseteq AllStatuses
    /\ Actions[Contract] \subseteq AllActions
<1>1. Statuses[Contract] \subseteq AllStatuses /\ Actions[Contract] \subseteq AllActions
  <2>1. Contract \in Kinds
    BY DEF Contract, Kinds, Statuses
  <2> QED BY <2>1 DEF AllStatuses, AllActions
<1> QED BY <1>1 DEF Contract, Kinds, Statuses, Actions, DecidedStatuses

LEMMA UpdateContractFits ==
    ASSUME AdminTypeOK, NEW w \in Workers, NEW x \in Items, UpdateContract(w, x)
    PROVE  Fitting(w)
<1>1. Is(Contract, x) /\ StartWrite(w, x, NoPatch)
  BY DEF UpdateContract
<1>2. RowOK(rows[x]) /\ rows[x].status # "absent"
  BY <1>1, ReadRow
<1>3. NoPatch \in Patches /\ NoPatch.status = "keep" /\ NoPatch.departs = FALSE
  BY DEF NoPatch, Patches
<1>4. MayWrite(rows[x], NoPatch)
  BY <1>2, <1>3, OnlyTheClassIsWritten
<1> QED BY <1>1, <1>4, WriteStarts

LEMMA ArchiveContractFits ==
    ASSUME AdminTypeOK, NEW w \in Workers, NEW x \in Items, ArchiveContract(w, x)
    PROVE  Fitting(w)
<1> DEFINE row == rows[x]
           patch == SetStatus("ARCHIVE")
<1>1. Is(Contract, x) /\ StartWrite(w, x, patch)
  BY DEF ArchiveContract
<1>2. RowOK(row) /\ row.kind = Contract /\ row.status # "absent"
  BY <1>1, ReadRow
<1>3. patch \in Patches /\ patch.status = "ARCHIVE"
  <2>1. "ARCHIVE" \in AllStatuses /\ "none" \in Classes
    BY ContractKind DEF Classes
  <2> QED BY <2>1, StatusPatches
<1>4. /\ patch.status \in Statuses[row.kind] \cup {"keep"}
      /\ patch.status \notin DecidedStatuses[row.kind]
  BY <1>2, <1>3, ContractKind
<1> HIDE DEF patch
<1>5. ASSUME NEW new, new.kind = row.kind,
             new.status = IF patch.status = "keep" THEN row.status ELSE patch.status
      PROVE  Keeps(row, new) /\ Sensible(new)
  BY <1>2, <1>3, <1>5, ContractKind
     DEF Keeps, NeedsADecisionWhenRead, Sensible, StillMakesSense
<1>6. MayWrite(row, patch)
  BY <1>2, <1>3, <1>4, <1>5, WriteAllowed
<1> QED BY <1>1, <1>6, WriteStarts DEF patch

LEMMA SubmitContractFits ==
    ASSUME AdminTypeOK, NEW w \in Workers, NEW x \in Items, NEW user \in Submitters,
           NEW action \in Actions[Contract], SubmitContract(w, x, user, action)
    PROVE  Fitting(w)
<1> DEFINE row == rows[x]
<1>1. /\ Is(Contract, x)
      /\ ContractAllows(row, action)
      /\ StartSubmit(w, x, user, action, "none")
  BY DEF SubmitContract, CanSubmitContract
<1>2. row.kind = Contract /\ row.status # "absent"
  BY <1>1, ReadRow
<1>3. ASSUME NEW new, new.kind = row.kind, new.status = row.status, new.action = action
      PROVE  StillMakesSense(new)
  BY <1>1, <1>2, <1>3, ContractKind DEF StillMakesSense, ContractAllows
<1>4. MaySubmit(row, action, "none")
  BY <1>2, <1>3, ContractKind DEF MaySubmit, Payloads, Named
<1> QED BY <1>1, <1>4, SubmitStarts

LEMMA ApproveContractFits ==
    ASSUME AdminTypeOK, NEW w \in Workers, NEW x \in Items, NEW user \in Users,
           ApproveContract(w, x, user)
    PROVE  Fitting(w)
<1> DEFINE row == rows[x]
           s == IF row.action = "TERMINATION" THEN "RESILIE" ELSE "ACTIF"
<1>1. /\ Is(Contract, x)
      /\ StartReview(w, x, user, "APPROVED", SetStatus(s), TRUE)
  BY DEF ApproveContract, ContractApproval
<1>2. RowOK(row) /\ row.kind = Contract /\ row.status # "absent"
  BY <1>1, ReadRow
<1>3. s \in Statuses[row.kind]
  BY <1>2, ContractKind
<1> HIDE DEF s
<1>4. MayDecide(row, "APPROVED", SetStatus(s))
  BY <1>2, <1>3, StatusDecided
<1> QED BY <1>1, <1>4, ReviewStarts

LEMMA RefuseContractFits ==
    ASSUME AdminTypeOK, NEW w \in Workers, NEW x \in Items, NEW user \in Users,
           NEW verdict \in Verdicts, RefuseContract(w, x, user, verdict)
    PROVE  Fitting(w)
<1>1. Is(Contract, x) /\ StartReview(w, x, user, verdict, NoPatch, FALSE)
  BY DEF RefuseContract
<1>2. RowOK(rows[x]) /\ rows[x].status # "absent"
  BY <1>1, ReadRow
<1>3. MayDecide(rows[x], verdict, NoPatch)
  BY <1>2, NothingDecided
<1> QED BY <1>1, <1>3, ReviewStarts

(***************************************************************************)
(* Procedures.                                                             *)
(***************************************************************************)
LEMMA ProcedureKind ==
    /\ Procedure = "ADMINISTRATIVE_PROCEDURE"
    /\ Procedure \in Kinds
    /\ Statuses[Procedure] =
          {"A_PREPARER", "EN_COURS", "SOUMIS", "EN_ATTENTE_REPONSE", "APPROUVE", "ARCHIVE"}
    /\ Actions[Procedure] = {"SUBMISSION", "FINALIZATION", "RENEWAL", "ARCHIVE"}
    /\ DecidedStatuses[Procedure] = {"SOUMIS", "APPROUVE"}
    /\ Statuses[Procedure] \subseteq AllStatuses
    /\ Actions[Procedure] \subseteq AllActions
<1>1. Statuses[Procedure] \subseteq AllStatuses /\ Actions[Procedure] \subseteq AllActions
  <2>1. Procedure \in Kinds
    BY DEF Procedure, Kinds, Statuses
  <2> QED BY <2>1 DEF AllStatuses, AllActions
<1> QED BY <1>1 DEF Procedure, Kinds, Statuses, Actions, DecidedStatuses

LEMMA UpdateProcedureFits ==
    ASSUME AdminTypeOK, NEW w \in Workers, NEW x \in Items,
           NEW patch \in ProcedurePatches, UpdateProcedure(w, x, patch)
    PROVE  Fitting(w)
<1> DEFINE row == rows[x]
<1>1. /\ Is(Procedure, x)
      /\ patch.status # "keep" =>
            {row.status, patch.status} \subseteq MANUALLY_SETTABLE_STATUSES
      /\ StartWrite(w, x, patch)
  BY DEF UpdateProcedure, CanUpdateProcedure
<1>2. RowOK(row) /\ row.kind = Procedure /\ row.status # "absent"
  BY <1>1, ReadRow
<1>3. CASE patch = NoPatch
  <2>1. patch \in Patches /\ patch.status = "keep" /\ patch.departs = FALSE
    BY <1>3 DEF NoPatch, Patches
  <2>2. MayWrite(row, patch)
    BY <1>2, <2>1, OnlyTheClassIsWritten
  <2> QED BY <1>1, <2>2, WriteStarts
<1>4. CASE patch # NoPatch
  <2>1. PICK s \in MANUALLY_SETTABLE_STATUSES : patch = SetStatus(s)
    BY <1>4 DEF ProcedurePatches
  <2>2. s \in Statuses[Procedure] \ DecidedStatuses[Procedure] /\ s # "keep"
    BY ProcedureKind DEF MANUALLY_SETTABLE_STATUSES
  <2>3. patch \in Patches /\ patch.status = s
    <3>1. s \in AllStatuses /\ "none" \in Classes
      BY <2>2, ProcedureKind DEF Classes
    <3> QED BY <2>1, <3>1, StatusPatches
  <2>4. row.status \in MANUALLY_SETTABLE_STATUSES
    BY <1>1, <2>2, <2>3
  <2>5. ASSUME NEW new, new.kind = row.kind,
               new.status = IF patch.status = "keep" THEN row.status ELSE patch.status
        PROVE  Keeps(row, new) /\ Sensible(new)
    <3>1. /\ new.kind = "ADMINISTRATIVE_PROCEDURE"
          /\ new.status \in MANUALLY_SETTABLE_STATUSES
          /\ row.status \in MANUALLY_SETTABLE_STATUSES
      BY <1>2, <2>2, <2>3, <2>4, <2>5, ProcedureKind
    <3>2. Keeps(row, new)
      BY <3>1 DEF Keeps, NeedsADecisionWhenRead, MANUALLY_SETTABLE_STATUSES
    <3>3. Sensible(new)
      BY <3>1 DEF Sensible, StillMakesSense
    <3> QED BY <3>2, <3>3
  <2>6. /\ patch.status \in Statuses[row.kind] \cup {"keep"}
        /\ patch.status \notin DecidedStatuses[row.kind]
    BY <1>2, <2>2, <2>3
  <2>7. MayWrite(row, patch)
    BY <1>2, <2>3, <2>5, <2>6, WriteAllowed
  <2> QED BY <1>1, <2>7, WriteStarts
<1> QED BY <1>3, <1>4

LEMMA ArchiveProcedureFits ==
    ASSUME AdminTypeOK, NEW w \in Workers, NEW x \in Items, ArchiveProcedure(w, x)
    PROVE  Fitting(w)
<1> DEFINE row == rows[x]
           patch == SetStatus("ARCHIVE")
<1>1. /\ Is(Procedure, x) /\ Unreviewed(x)
      /\ row.status # "ARCHIVE"
      /\ StartWrite(w, x, patch)
  BY DEF ArchiveProcedure, CanArchiveProcedure
<1>2. /\ RowOK(row) /\ row.kind = Procedure /\ row.status # "absent"
      /\ row.status \in Statuses[Procedure]
      /\ ~Awaits(row)
  BY <1>1, ReadRow
<1>3. patch \in Patches /\ patch.status = "ARCHIVE"
  <2>1. "ARCHIVE" \in AllStatuses /\ "none" \in Classes
    BY ProcedureKind DEF Classes
  <2> QED BY <2>1, StatusPatches
<1>4. /\ patch.status \in Statuses[row.kind] \cup {"keep"}
      /\ patch.status \notin DecidedStatuses[row.kind]
  BY <1>2, <1>3, ProcedureKind
<1> HIDE DEF patch
<1>5. ASSUME NEW new, new.kind = row.kind
      PROVE  Keeps(row, new)
  BY <1>1, <1>2, <1>5, ProcedureKind DEF Keeps, NeedsADecisionWhenRead
<1>6. MayWrite(row, patch)
  BY <1>2, <1>3, <1>4, <1>5, WriteAllowed
<1> QED BY <1>1, <1>6, WriteStarts DEF patch

LEMMA SubmitProcedureFits ==
    ASSUME AdminTypeOK, NEW w \in Workers, NEW x \in Items, NEW user \in Submitters,
           NEW action \in Actions[Procedure], SubmitProcedure(w, x, user, action)
    PROVE  Fitting(w)
<1> DEFINE row == rows[x]
<1>1. /\ Is(Procedure, x)
      /\ ProcedureAllows(row, action)
      /\ StartSubmit(w, x, user, action, "none")
  BY DEF SubmitProcedure, CanSubmitProcedure
<1>2. row.kind = Procedure /\ row.status # "absent"
  BY <1>1, ReadRow
<1>3. ASSUME NEW new, new.kind = row.kind, new.status = row.status, new.action = action
      PROVE  StillMakesSense(new)
  BY <1>1, <1>2, <1>3, ProcedureKind DEF StillMakesSense, ProcedureAllows
<1>4. MaySubmit(row, action, "none")
  BY <1>2, <1>3, ProcedureKind DEF MaySubmit, Payloads, Named
<1> QED BY <1>1, <1>4, SubmitStarts

LEMMA ApproveProcedureFits ==
    ASSUME AdminTypeOK, NEW w \in Workers, NEW x \in Items, NEW user \in Users,
           ApproveProcedure(w, x, user)
    PROVE  Fitting(w)
<1> DEFINE row == rows[x]
<1>1. /\ Is(Procedure, x)
      /\ StartReview(w, x, user, "APPROVED", ProcedureApproval(row), TRUE)
  BY DEF ApproveProcedure
<1>2. RowOK(row) /\ row.kind = Procedure /\ row.status # "absent"
  BY <1>1, ReadRow
<1>3. ASSUME NEW s \in {"SOUMIS", "APPROUVE", "EN_COURS", "ARCHIVE"}
      PROVE  MayDecide(row, "APPROVED", SetStatus(s))
  <2>1. s \in Statuses[row.kind]
    BY <1>2, ProcedureKind
  <2> QED BY <1>2, <2>1, StatusDecided
<1>4. MayDecide(row, "APPROVED", NoPatch)
  BY <1>2, NothingDecided DEF Verdicts
<1>5. MayDecide(row, "APPROVED", ProcedureApproval(row))
  <2>1. \/ ProcedureApproval(row) = NoPatch
        \/ \E s \in {"SOUMIS", "APPROUVE", "EN_COURS", "ARCHIVE"} :
              ProcedureApproval(row) = SetStatus(s)
    BY DEF ProcedureApproval
  <2> QED BY <1>3, <1>4, <2>1
<1> QED BY <1>1, <1>5, ReviewStarts

LEMMA RefuseProcedureFits ==
    ASSUME AdminTypeOK, NEW w \in Workers, NEW x \in Items, NEW user \in Users,
           NEW verdict \in Verdicts, RefuseProcedure(w, x, user, verdict)
    PROVE  Fitting(w)
<1>1. Is(Procedure, x) /\ StartReview(w, x, user, verdict, NoPatch, FALSE)
  BY DEF RefuseProcedure
<1>2. RowOK(rows[x]) /\ rows[x].status # "absent"
  BY <1>1, ReadRow
<1>3. MayDecide(rows[x], verdict, NoPatch)
  BY <1>2, NothingDecided
<1> QED BY <1>1, <1>3, ReviewStarts

(***************************************************************************)
(* Tickets.                                                                *)
(***************************************************************************)
LEMMA TicketKind ==
    /\ Ticket = "MAINTENANCE_TICKET"
    /\ Ticket \in Kinds
    /\ Statuses[Ticket] = {"OUVERT", "ASSIGNE", "EN_COURS", "EN_ATTENTE", "FERME"}
    /\ Ticket \notin DOMAIN DecidedStatuses
    /\ Statuses[Ticket] \subseteq AllStatuses
<1>1. Statuses[Ticket] \subseteq AllStatuses
  <2>1. Ticket \in Kinds
    BY DEF Ticket, Kinds, Statuses
  <2> QED BY <2>1 DEF AllStatuses
<1> QED BY <1>1 DEF Ticket, Kinds, Statuses, DecidedStatuses

\* A change that does not close a critical ticket may be made.
LEMMA TicketWrite ==
    ASSUME NEW row, RowOK(row), row.kind = Ticket, row.status # "absent",
           NEW s \in Statuses[Ticket],
           s = "FERME" => row.class # "CRITIQUE" \/ row.status = "FERME"
    PROVE  MayWrite(row, SetStatus(s))
<1> DEFINE patch == SetStatus(s)
<1>1. patch \in Patches /\ patch.status = s
  <2>1. s \in AllStatuses /\ "none" \in Classes
    BY TicketKind DEF Classes
  <2> QED BY <2>1, StatusPatches
<1>2. /\ patch.status \in Statuses[row.kind] \cup {"keep"}
      /\ row.kind \notin DOMAIN DecidedStatuses
  BY <1>1, TicketKind
<1>3. s # "keep" /\ row.status \notin {"ARCHIVE", "ARCHIVEE"}
  <2>1. row.status \in Statuses[Ticket]
    BY DEF RowOK
  <2> QED BY <2>1, TicketKind
<1> HIDE DEF patch
<1>4. ASSUME NEW new, new.kind = row.kind,
             new.status = IF patch.status = "keep" THEN row.status ELSE patch.status
      PROVE  Keeps(row, new) /\ Sensible(new)
  <2>1. new.kind = "MAINTENANCE_TICKET" /\ new.status = s
    BY <1>1, <1>3, <1>4, TicketKind
  <2>2. Keeps(row, new)
    BY <1>3, <2>1 DEF Keeps, NeedsADecisionWhenRead
  <2>3. Sensible(new)
    BY <2>1 DEF Sensible, StillMakesSense
  <2> QED BY <2>2, <2>3
<1> QED BY <1>1, <1>2, <1>4, WriteAllowed DEF patch

LEMMA UpdateTicketFits ==
    ASSUME AdminTypeOK, NEW w \in Workers, NEW x \in Items,
           NEW patch \in TicketPatches, UpdateTicket(w, x, patch)
    PROVE  Fitting(w)
<1>1. Is(Ticket, x) /\ StartWrite(w, x, patch)
  BY DEF UpdateTicket, CanUpdateTicket
<1>2. RowOK(rows[x]) /\ rows[x].kind = Ticket /\ rows[x].status # "absent"
  BY <1>1, ReadRow
<1>3. MayWrite(rows[x], patch)
  <2>1. CASE \E urgency \in Urgencies : patch = [NoPatch EXCEPT !.class = urgency]
    <3>1. PICK urgency \in Urgencies : patch = [NoPatch EXCEPT !.class = urgency]
      BY <2>1
    <3>2. urgency \in Classes
      BY DEF Urgencies, Classes
    <3>3. patch \in Patches /\ patch.status = "keep" /\ patch.departs = FALSE
      BY <3>1, <3>2, OtherPatches
    <3> QED BY <1>2, <3>3, OnlyTheClassIsWritten
  <2>2. CASE \E s \in RoutineTicketStatuses : patch = SetStatus(s)
    <3>1. PICK s \in RoutineTicketStatuses : patch = SetStatus(s)
      BY <2>2
    <3>2. s \in Statuses[Ticket] /\ s # "FERME"
      BY TicketKind DEF RoutineTicketStatuses
    <3> QED BY <1>2, <3>1, <3>2, TicketWrite
  <2> QED BY <2>1, <2>2 DEF TicketPatches
<1> QED BY <1>1, <1>3, WriteStarts

LEMMA AssignTicketFits ==
    ASSUME AdminTypeOK, NEW w \in Workers, NEW x \in Items, AssignTicket(w, x)
    PROVE  Fitting(w)
<1> DEFINE row == rows[x]
           s == IF row.status = "OUVERT" THEN "ASSIGNE" ELSE row.status
<1>1. Is(Ticket, x) /\ StartWrite(w, x, SetStatus(s))
  BY DEF AssignTicket
<1>2. /\ RowOK(row) /\ row.kind = Ticket /\ row.status # "absent"
      /\ row.status \in Statuses[Ticket]
  BY <1>1, ReadRow
<1>3. s \in Statuses[Ticket] /\ (s = "FERME" => row.status = "FERME")
  BY <1>2, TicketKind
<1> HIDE DEF s
<1>4. MayWrite(row, SetStatus(s))
  BY <1>2, <1>3, TicketWrite
<1> QED BY <1>1, <1>4, WriteStarts, StatusOfRegister

LEMMA CloseTicketFits ==
    ASSUME AdminTypeOK, NEW w \in Workers, NEW x \in Items, CloseTicket(w, x)
    PROVE  Fitting(w)
<1>1. /\ Is(Ticket, x)
      /\ rows[x].class # "CRITIQUE"
      /\ StartWrite(w, x, SetStatus("FERME"))
  BY DEF CloseTicket, CanCloseTicket
<1>2. RowOK(rows[x]) /\ rows[x].kind = Ticket /\ rows[x].status # "absent"
  BY <1>1, ReadRow
<1>3. "FERME" \in Statuses[Ticket]
  BY TicketKind
<1>4. MayWrite(rows[x], SetStatus("FERME"))
  BY <1>1, <1>2, <1>3, TicketWrite
<1> QED BY <1>1, <1>4, WriteStarts

LEMMA SubmitTicketFits ==
    ASSUME AdminTypeOK, NEW w \in Workers, NEW x \in Items, NEW user \in Submitters,
           SubmitTicket(w, x, user)
    PROVE  Fitting(w)
<1> DEFINE row == rows[x]
<1>1. Is(Ticket, x) /\ StartSubmit(w, x, user, "none", "none")
  BY DEF SubmitTicket
<1>2. row.kind = "MAINTENANCE_TICKET" /\ row.status # "absent"
  BY <1>1, ReadRow, TicketKind
<1>3. ASSUME NEW new, new.kind = row.kind
      PROVE  StillMakesSense(new)
  BY <1>2, <1>3 DEF StillMakesSense
<1>4. MaySubmit(row, "none", "none")
  BY <1>2, <1>3, TicketKind, NoCallFields DEF MaySubmit, Named
<1> QED BY <1>1, <1>4, SubmitStarts

LEMMA ApproveTicketFits ==
    ASSUME AdminTypeOK, NEW w \in Workers, NEW x \in Items, NEW user \in Users,
           ApproveTicket(w, x, user)
    PROVE  Fitting(w)
<1>1. /\ Is(Ticket, x)
      /\ StartReview(w, x, user, "APPROVED", SetStatus("FERME"), FALSE)
  BY DEF ApproveTicket
<1>2. RowOK(rows[x]) /\ rows[x].kind = Ticket /\ rows[x].status # "absent"
  BY <1>1, ReadRow
<1>3. "FERME" \in Statuses[rows[x].kind]
  BY <1>2, TicketKind
<1>4. MayDecide(rows[x], "APPROVED", SetStatus("FERME"))
  BY <1>2, <1>3, StatusDecided
<1> QED BY <1>1, <1>4, ReviewStarts

LEMMA RefuseTicketFits ==
    ASSUME AdminTypeOK, NEW w \in Workers, NEW x \in Items, NEW user \in Users,
           NEW verdict \in Verdicts, RefuseTicket(w, x, user, verdict)
    PROVE  Fitting(w)
<1>1. Is(Ticket, x) /\ StartReview(w, x, user, verdict, NoPatch, FALSE)
  BY DEF RefuseTicket
<1>2. RowOK(rows[x]) /\ rows[x].status # "absent"
  BY <1>1, ReadRow
<1>3. MayDecide(rows[x], verdict, NoPatch)
  BY <1>2, NothingDecided
<1> QED BY <1>1, <1>3, ReviewStarts

(***************************************************************************)
(* Assets.                                                                 *)
(***************************************************************************)
LEMMA AssetKind ==
    /\ Asset = "INVENTORY_ASSET"
    /\ Asset \in Kinds
    /\ Statuses[Asset] = {"DISPONIBLE", "AFFECTE", "EN_MAINTENANCE", "PERDU", "VOLE",
                          "CASSE", "REFORME", "ARCHIVE"}
    /\ Actions[Asset] = {"ASSET_TRANSFER", "ASSET_DISPOSAL", "ASSET_ARCHIVE"}
    /\ DecidedStatuses[Asset] = {"PERDU", "VOLE", "CASSE", "REFORME", "ARCHIVE"}
    /\ Statuses[Asset] \subseteq AllStatuses
    /\ Actions[Asset] \subseteq AllActions
<1>1. Statuses[Asset] \subseteq AllStatuses /\ Actions[Asset] \subseteq AllActions
  <2>1. Asset \in Kinds
    BY DEF Asset, Kinds, Statuses
  <2> QED BY <2>1 DEF AllStatuses, AllActions
<1> QED BY <1>1 DEF Asset, Kinds, Statuses, Actions, DecidedStatuses

LEMMA DisposalStatuses ==
    ASSUME NEW d \in DOMAIN DISPOSAL_STATUS_MAP
    PROVE  DISPOSAL_STATUS_MAP[d] \in Statuses[Asset] /\ d \in Payloads
<1>1. d \in {"PERTE", "VOL", "CASSE", "REFORME"}
  BY DEF DISPOSAL_STATUS_MAP
<1>2. DISPOSAL_STATUS_MAP[d] \in {"PERDU", "VOLE", "CASSE", "REFORME"}
  BY <1>1 DEF DISPOSAL_STATUS_MAP
<1> QED BY <1>1, <1>2, AssetKind DEF Payloads

\* An asset that is not archived may be given a status of every day.
LEMMA AssetWrite ==
    ASSUME NEW row, RowOK(row), row.kind = Asset, row.status # "absent",
           row.status # "ARCHIVE", NEW s \in RoutineAssetStatuses
    PROVE  MayWrite(row, SetStatus(s))
<1> DEFINE patch == SetStatus(s)
<1>1. /\ s \in Statuses[Asset] \ DecidedStatuses[Asset]
      /\ s \notin {"keep", "ARCHIVE"}
  BY AssetKind DEF RoutineAssetStatuses
<1>2. patch \in Patches /\ patch.status = s
  <2>1. s \in AllStatuses /\ "none" \in Classes
    BY <1>1, AssetKind DEF Classes
  <2> QED BY <2>1, StatusPatches
<1>3. /\ patch.status \in Statuses[row.kind] \cup {"keep"}
      /\ patch.status \notin DecidedStatuses[row.kind]
  BY <1>1, <1>2
<1>4. row.status \notin {"ARCHIVE", "ARCHIVEE"}
  <2>1. row.status \in Statuses[Asset]
    BY DEF RowOK
  <2> QED BY <2>1, AssetKind
<1> HIDE DEF patch
<1>5. ASSUME NEW new, new.kind = row.kind,
             new.status = IF patch.status = "keep" THEN row.status ELSE patch.status
      PROVE  Keeps(row, new) /\ Sensible(new)
  <2>1. new.kind = "INVENTORY_ASSET" /\ new.status = s
    BY <1>1, <1>2, <1>5, AssetKind
  <2>2. Keeps(row, new)
    BY <1>4, <2>1 DEF Keeps, NeedsADecisionWhenRead
  <2>3. Sensible(new)
    BY <1>1, <2>1 DEF Sensible, StillMakesSense
  <2> QED BY <2>2, <2>3
<1> QED BY <1>2, <1>3, <1>5, WriteAllowed DEF patch

\* An asset that is not archived may be submitted for anything.
LEMMA AssetSubmit ==
    ASSUME NEW row, row.kind = Asset, row.status # "absent", row.status # "ARCHIVE",
           NEW action \in Actions[Asset], NEW payload \in Payloads,
           action = "ASSET_DISPOSAL" => payload \in DOMAIN DISPOSAL_STATUS_MAP
    PROVE  MaySubmit(row, action, payload)
<1>1. ASSUME NEW new, new.kind = row.kind, new.status = row.status
      PROVE  StillMakesSense(new)
  BY <1>1, AssetKind DEF StillMakesSense
<1> QED BY <1>1, AssetKind DEF MaySubmit, Named

LEMMA UpdateAssetFits ==
    ASSUME AdminTypeOK, NEW w \in Workers, NEW x \in Items,
           NEW patch \in AssetPatches, UpdateAsset(w, x, patch)
    PROVE  Fitting(w)
<1> DEFINE row == rows[x]
<1>1. /\ Is(Asset, x)
      /\ patch.status # "keep" => {row.status, patch.status} \subseteq RoutineAssetStatuses
      /\ StartWrite(w, x, patch)
  BY DEF UpdateAsset, CanUpdateAsset
<1>2. RowOK(row) /\ row.kind = Asset /\ row.status # "absent"
  BY <1>1, ReadRow
<1>3. MayWrite(row, patch)
  <2>1. CASE \E cost \in Costs : patch = [NoPatch EXCEPT !.class = cost]
    <3>1. PICK cost \in Costs : patch = [NoPatch EXCEPT !.class = cost]
      BY <2>1
    <3>2. cost \in Classes
      BY DEF Costs, Classes
    <3>3. patch \in Patches /\ patch.status = "keep" /\ patch.departs = FALSE
      BY <3>1, <3>2, OtherPatches
    <3> QED BY <1>2, <3>3, OnlyTheClassIsWritten
  <2>2. CASE \E s \in RoutineAssetStatuses : patch = SetStatus(s)
    <3>1. PICK s \in RoutineAssetStatuses : patch = SetStatus(s)
      BY <2>2
    <3>2. s # "keep" /\ s \in AllStatuses /\ "none" \in Classes
      BY AssetKind DEF RoutineAssetStatuses, Classes
    <3>3. patch.status = s
      BY <3>1, <3>2, StatusPatches
    <3>4. row.status # "ARCHIVE"
      BY <1>1, <3>2, <3>3 DEF RoutineAssetStatuses
    <3> QED BY <1>2, <3>1, <3>4, AssetWrite
  <2> QED BY <2>1, <2>2 DEF AssetPatches
<1> QED BY <1>1, <1>3, WriteStarts

LEMMA AssignAssetFits ==
    ASSUME AdminTypeOK, NEW w \in Workers, NEW x \in Items, AssignAsset(w, x)
    PROVE  Fitting(w)
<1>1. /\ Is(Asset, x)
      /\ rows[x].status # "ARCHIVE"
      /\ StartWrite(w, x, SetStatus("AFFECTE"))
  BY DEF AssignAsset, CanHandleAsset
<1>2. RowOK(rows[x]) /\ rows[x].kind = Asset /\ rows[x].status # "absent"
  BY <1>1, ReadRow
<1>3. "AFFECTE" \in RoutineAssetStatuses
  BY DEF RoutineAssetStatuses
<1>4. MayWrite(rows[x], SetStatus("AFFECTE"))
  BY <1>1, <1>2, <1>3, AssetWrite
<1> QED BY <1>1, <1>4, WriteStarts

LEMMA TransferAssetFits ==
    ASSUME AdminTypeOK, NEW w \in Workers, NEW x \in Items, NEW user \in Submitters,
           TransferAsset(w, x, user)
    PROVE  Fitting(w)
<1>1. Is(Asset, x) /\ rows[x].status # "ARCHIVE"
  BY DEF TransferAsset, CanHandleAsset, TransferIsSensitive
<1>2. RowOK(rows[x]) /\ rows[x].kind = Asset /\ rows[x].status # "absent"
  BY <1>1, ReadRow
<1>3. CASE rows[x].class = "costly"
  <2>1. StartSubmit(w, x, user, "ASSET_TRANSFER", "none")
    BY <1>3 DEF TransferAsset, CanHandleAsset, TransferIsSensitive
  <2>2. MaySubmit(rows[x], "ASSET_TRANSFER", "none")
    BY <1>1, <1>2, AssetSubmit, AssetKind DEF Payloads
  <2> QED BY <2>1, <2>2, SubmitStarts
<1>4. CASE rows[x].class # "costly"
  <2>1. StartWrite(w, x, NoPatch)
    BY <1>4 DEF TransferAsset, CanHandleAsset, TransferIsSensitive
  <2>2. NoPatch \in Patches /\ NoPatch.status = "keep" /\ NoPatch.departs = FALSE
    BY DEF NoPatch, Patches
  <2>3. MayWrite(rows[x], NoPatch)
    BY <1>2, <2>2, OnlyTheClassIsWritten
  <2> QED BY <2>1, <2>3, WriteStarts
<1> QED BY <1>3, <1>4

LEMMA RequestDisposalFits ==
    ASSUME AdminTypeOK, NEW w \in Workers, NEW x \in Items, NEW user \in Submitters,
           NEW d \in DisposalTypes, RequestDisposal(w, x, user, d)
    PROVE  Fitting(w)
<1>1. /\ Is(Asset, x) /\ rows[x].status # "ARCHIVE"
      /\ StartSubmit(w, x, user, "ASSET_DISPOSAL", d)
  BY DEF RequestDisposal, CanHandleAsset
<1>2. rows[x].kind = Asset /\ rows[x].status # "absent"
  BY <1>1, ReadRow
<1>3. d \in DOMAIN DISPOSAL_STATUS_MAP /\ d \in Payloads
  BY DisposalTypesAssumption, DisposalStatuses
<1>4. MaySubmit(rows[x], "ASSET_DISPOSAL", d)
  BY <1>1, <1>2, <1>3, AssetSubmit, AssetKind
<1> QED BY <1>1, <1>4, SubmitStarts

LEMMA RequestAssetArchiveFits ==
    ASSUME AdminTypeOK, NEW w \in Workers, NEW x \in Items, NEW user \in Submitters,
           RequestAssetArchive(w, x, user)
    PROVE  Fitting(w)
<1>1. /\ Is(Asset, x) /\ rows[x].status # "ARCHIVE"
      /\ StartSubmit(w, x, user, "ASSET_ARCHIVE", "none")
  BY DEF RequestAssetArchive, CanHandleAsset
<1>2. rows[x].kind = Asset /\ rows[x].status # "absent"
  BY <1>1, ReadRow
<1>3. MaySubmit(rows[x], "ASSET_ARCHIVE", "none")
  BY <1>1, <1>2, AssetSubmit, AssetKind DEF Payloads
<1> QED BY <1>1, <1>3, SubmitStarts

LEMMA ApproveAssetFits ==
    ASSUME AdminTypeOK, NEW w \in Workers, NEW x \in Items, NEW user \in Users,
           ApproveAsset(w, x, user)
    PROVE  Fitting(w)
<1> DEFINE row == rows[x]
<1>1. /\ Is(Asset, x)
      /\ row.action # "none"
      /\ StartReview(w, x, user, "APPROVED", AssetApproval(row), TRUE)
  BY DEF ApproveAsset, CanApproveAsset
<1>2. /\ RowOK(row) /\ row.kind = Asset /\ row.status # "absent"
      /\ row.action \in Actions[Asset] \cup {"none"}
  BY <1>1, ReadRow
<1>3. CASE row.action = "ASSET_TRANSFER"
  <2>1. AssetApproval(row) = NoPatch
    BY <1>3 DEF AssetApproval
  <2>2. MayDecide(row, "APPROVED", AssetApproval(row))
    BY <1>2, <2>1, NothingDecided DEF Verdicts
  <2> QED BY <1>1, <2>2, ReviewStarts
<1>4. CASE row.action = "ASSET_DISPOSAL"
  <2>1. AssetApproval(row) = SetStatus(DISPOSAL_STATUS_MAP[row.payload])
    BY <1>4 DEF AssetApproval
  <2>2. row.payload \in DOMAIN DISPOSAL_STATUS_MAP
    BY <1>2, <1>4, AssetKind DEF RowOK
  <2>3. DISPOSAL_STATUS_MAP[row.payload] \in Statuses[row.kind]
    BY <1>2, <2>2, DisposalStatuses
  <2>4. MayDecide(row, "APPROVED", AssetApproval(row))
    BY <1>2, <2>1, <2>3, StatusDecided
  <2> QED BY <1>1, <2>4, ReviewStarts
<1>5. CASE row.action = "ASSET_ARCHIVE"
  <2>1. AssetApproval(row) = SetStatus("ARCHIVE")
    BY <1>5 DEF AssetApproval
  <2>2. "ARCHIVE" \in Statuses[row.kind]
    BY <1>2, AssetKind
  <2>3. MayDecide(row, "APPROVED", AssetApproval(row))
    BY <1>2, <2>1, <2>2, StatusDecided
  <2> QED BY <1>1, <2>3, ReviewStarts
<1> QED BY <1>1, <1>2, <1>3, <1>4, <1>5, AssetKind

LEMMA RefuseAssetFits ==
    ASSUME AdminTypeOK, NEW w \in Workers, NEW x \in Items, NEW user \in Users,
           NEW verdict \in Verdicts, RefuseAsset(w, x, user, verdict)
    PROVE  Fitting(w)
<1>1. Is(Asset, x) /\ StartReview(w, x, user, verdict, NoPatch, FALSE)
  BY DEF RefuseAsset
<1>2. RowOK(rows[x]) /\ rows[x].status # "absent"
  BY <1>1, ReadRow
<1>3. MayDecide(rows[x], verdict, NoPatch)
  BY <1>2, NothingDecided
<1> QED BY <1>1, <1>3, ReviewStarts

(***************************************************************************)
(* Entries.                                                                *)
(***************************************************************************)
LEMMA EntryKind ==
    /\ Entry = "ENTRY_LOG"
    /\ Entry \in Kinds
    /\ Statuses[Entry] = {"PREVUE", "PRESENT", "SORTI", "ANNULEE", "REFUSEE", "ARCHIVEE"}
    /\ Actions[Entry] = {"EXCEPTIONAL_EXIT", "ACCESS_OVERRIDE", "AFTER_HOURS_ACCESS",
                         "MANUAL_CHECKOUT_OVERRIDE", "RECORD_ARCHIVE"}
    /\ Entry \notin DOMAIN DecidedStatuses
    /\ Statuses[Entry] \subseteq AllStatuses
    /\ Actions[Entry] \subseteq AllActions
<1>1. Statuses[Entry] \subseteq AllStatuses /\ Actions[Entry] \subseteq AllActions
  <2>1. Entry \in Kinds
    BY DEF Entry, Kinds, Statuses
  <2> QED BY <2>1 DEF AllStatuses, AllActions
<1> QED BY <1>1 DEF Entry, Kinds, Statuses, Actions, DecidedStatuses

\* An entry that awaits nothing and is not archived may change, unless somebody
\* was refused, goes out by exception or has not come yet.
LEMMA EntryWrite ==
    ASSUME NEW row, RowOK(row), row.kind = Entry, row.status # "absent",
           row.status # "ARCHIVEE", ~Awaits(row),
           NEW patch \in Patches, patch.status \in Statuses[Entry],
           row.status = "REFUSEE" => patch.status # "PRESENT",
           row.status = "PREVUE" => patch.status # "ARCHIVEE",
           row.status = "PRESENT" =>
              row.class # "SORTIE_EXCEPTIONNELLE" \/ patch.status = "PRESENT"
    PROVE  MayWrite(row, patch)
<1>1. row.status \in Statuses[Entry] /\ row.status # "ARCHIVE" /\ patch.status # "keep"
  BY EntryKind DEF RowOK
<1>2. /\ patch.status \in Statuses[row.kind] \cup {"keep"}
      /\ row.kind \notin DOMAIN DecidedStatuses
  BY EntryKind
<1>3. ASSUME NEW new, new.kind = row.kind,
             new.status = IF patch.status = "keep" THEN row.status ELSE patch.status
      PROVE  Keeps(row, new)
  <2>1. new.kind = "ENTRY_LOG" /\ new.status = patch.status
    BY <1>1, <1>3, EntryKind
  <2> QED BY <1>1, <2>1 DEF Keeps, NeedsADecisionWhenRead
<1> QED BY <1>2, <1>3, WriteAllowed

LEMMA EntrySubmit ==
    ASSUME NEW row, row.kind = Entry, row.status # "absent",
           NEW action \in Actions[Entry],
           \A new : /\ new.kind = "ENTRY_LOG"
                    /\ new.status = row.status
                    /\ new.departed = row.departed
                    /\ new.action = action
                    => StillMakesSense(new)
    PROVE  MaySubmit(row, action, "none")
  BY EntryKind DEF MaySubmit, Payloads, Named

LEMMA UpdateEntryFits ==
    ASSUME AdminTypeOK, NEW w \in Workers, NEW x \in Items,
           NEW entryType \in EntryTypes, UpdateEntry(w, x, entryType)
    PROVE  Fitting(w)
<1> DEFINE patch == [NoPatch EXCEPT !.class = entryType]
<1>1. Is(Entry, x) /\ StartWrite(w, x, patch)
  BY DEF UpdateEntry, CanUpdateEntry
<1>2. RowOK(rows[x]) /\ rows[x].status # "absent"
  BY <1>1, ReadRow
<1>3. entryType \in Classes
  BY EntryTypesAssumption DEF Classes
<1>4. patch \in Patches /\ patch.status = "keep" /\ patch.departs = FALSE
  BY <1>3, OtherPatches
<1> HIDE DEF patch
<1>5. MayWrite(rows[x], patch)
  BY <1>2, <1>4, OnlyTheClassIsWritten
<1> QED BY <1>1, <1>5, WriteStarts

LEMMA CorrectDepartureFits ==
    ASSUME AdminTypeOK, NEW w \in Workers, NEW x \in Items, NEW user \in Submitters,
           CorrectDeparture(w, x, user)
    PROVE  Fitting(w)
<1> DEFINE row == rows[x]
<1>1. /\ Is(Entry, x)
      /\ row.status # "ARCHIVEE"
      /\ row.departed
      /\ StartSubmit(w, x, user, "MANUAL_CHECKOUT_OVERRIDE", "none")
  BY DEF CorrectDeparture
<1>2. row.kind = Entry /\ row.status # "absent"
  BY <1>1, ReadRow
<1>3. ASSUME NEW new, new.kind = "ENTRY_LOG", new.status = row.status,
             new.departed = row.departed, new.action = "MANUAL_CHECKOUT_OVERRIDE"
      PROVE  StillMakesSense(new)
  BY <1>1, <1>3 DEF StillMakesSense
<1>4. MaySubmit(row, "MANUAL_CHECKOUT_OVERRIDE", "none")
  BY <1>2, <1>3, EntryKind, EntrySubmit
<1> QED BY <1>1, <1>4, SubmitStarts

LEMMA CheckInFits ==
    ASSUME AdminTypeOK, NEW w \in Workers, NEW x \in Items, NEW user \in Submitters,
           NEW afterHours \in BOOLEAN, CheckIn(w, x, user, afterHours)
    PROVE  Fitting(w)
<1> DEFINE row == rows[x]
<1>1. Is(Entry, x) /\ row.status \in {"PREVUE", "REFUSEE"} /\ Unreviewed(x)
  BY DEF CheckIn, CanCheckIn, SensitiveArrival
<1>2. RowOK(row) /\ row.kind = Entry /\ row.status # "absent" /\ ~Awaits(row)
  BY <1>1, ReadRow
<1>3. CASE row.status = "REFUSEE"
  <2>1. StartSubmit(w, x, user, "ACCESS_OVERRIDE", "none")
    BY <1>3 DEF CheckIn, CanCheckIn, SensitiveArrival
  <2>2. ASSUME NEW new, new.kind = "ENTRY_LOG", new.status = row.status,
               new.action = "ACCESS_OVERRIDE"
        PROVE  StillMakesSense(new)
    BY <1>3, <2>2 DEF StillMakesSense
  <2>3. MaySubmit(row, "ACCESS_OVERRIDE", "none")
    BY <1>2, <2>2, EntryKind, EntrySubmit
  <2> QED BY <2>1, <2>3, SubmitStarts
<1>4. CASE row.status = "PREVUE" /\ afterHours
  <2>1. StartSubmit(w, x, user, "AFTER_HOURS_ACCESS", "none")
    BY <1>4 DEF CheckIn, CanCheckIn, SensitiveArrival
  <2>2. ASSUME NEW new, new.kind = "ENTRY_LOG", new.status = row.status,
               new.action = "AFTER_HOURS_ACCESS"
        PROVE  StillMakesSense(new)
    BY <1>4, <2>2 DEF StillMakesSense
  <2>3. MaySubmit(row, "AFTER_HOURS_ACCESS", "none")
    BY <1>2, <2>2, EntryKind, EntrySubmit
  <2> QED BY <2>1, <2>3, SubmitStarts
<1>5. CASE row.status = "PREVUE" /\ ~afterHours
  <2>1. StartWrite(w, x, SetStatus("PRESENT"))
    BY <1>5 DEF CheckIn, CanCheckIn, SensitiveArrival
  <2>2. "PRESENT" \in AllStatuses /\ "none" \in Classes /\ "PRESENT" \in Statuses[Entry]
    BY EntryKind DEF Classes
  <2>3. SetStatus("PRESENT") \in Patches /\ SetStatus("PRESENT").status = "PRESENT"
    BY <2>2, StatusPatches
  <2>4. MayWrite(row, SetStatus("PRESENT"))
    BY <1>2, <1>5, <2>2, <2>3, EntryWrite
  <2> QED BY <2>1, <2>4, WriteStarts
<1> QED BY <1>1, <1>3, <1>4, <1>5

LEMMA CheckOutFits ==
    ASSUME AdminTypeOK, NEW w \in Workers, NEW x \in Items, NEW user \in Submitters,
           CheckOut(w, x, user)
    PROVE  Fitting(w)
<1> DEFINE row == rows[x]
<1>1. Is(Entry, x) /\ row.status = "PRESENT" /\ Unreviewed(x)
  BY DEF CheckOut, CanCheckOut, ExitIsExceptional
<1>2. RowOK(row) /\ row.kind = Entry /\ row.status # "absent" /\ ~Awaits(row)
  BY <1>1, ReadRow
<1>3. CASE row.class = "SORTIE_EXCEPTIONNELLE"
  <2>1. StartSubmit(w, x, user, "EXCEPTIONAL_EXIT", "none")
    BY <1>3 DEF CheckOut, CanCheckOut, ExitIsExceptional
  <2>2. ASSUME NEW new, new.kind = "ENTRY_LOG", new.status = row.status,
               new.action = "EXCEPTIONAL_EXIT"
        PROVE  StillMakesSense(new)
    BY <1>1, <2>2 DEF StillMakesSense
  <2>3. MaySubmit(row, "EXCEPTIONAL_EXIT", "none")
    BY <1>2, <2>2, EntryKind, EntrySubmit
  <2> QED BY <2>1, <2>3, SubmitStarts
<1>4. CASE row.class # "SORTIE_EXCEPTIONNELLE"
  <2> DEFINE patch == [SetStatus("SORTI") EXCEPT !.departs = TRUE]
  <2>1. StartWrite(w, x, patch)
    BY <1>4 DEF CheckOut, CanCheckOut, ExitIsExceptional
  <2>2. "SORTI" \in AllStatuses /\ "none" \in Classes /\ "SORTI" \in Statuses[Entry]
    BY EntryKind DEF Classes
  <2>3. patch \in Patches /\ patch.status = "SORTI"
    BY <2>2, StatusPatches
  <2> HIDE DEF patch
  <2>4. MayWrite(row, patch)
    BY <1>1, <1>2, <1>4, <2>2, <2>3, EntryWrite
  <2> QED BY <2>1, <2>4, WriteStarts
<1> QED BY <1>3, <1>4

LEMMA CancelEntryFits ==
    ASSUME AdminTypeOK, NEW w \in Workers, NEW x \in Items, CancelEntry(w, x)
    PROVE  Fitting(w)
<1> DEFINE patch == SetStatus("ANNULEE")
<1>1. /\ Is(Entry, x) /\ rows[x].status = "PREVUE" /\ Unreviewed(x)
      /\ StartWrite(w, x, patch)
  BY DEF CancelEntry, CanCancelEntry
<1>2. /\ RowOK(rows[x]) /\ rows[x].kind = Entry /\ rows[x].status # "absent"
      /\ ~Awaits(rows[x])
  BY <1>1, ReadRow
<1>3. "ANNULEE" \in AllStatuses /\ "none" \in Classes /\ "ANNULEE" \in Statuses[Entry]
  BY EntryKind DEF Classes
<1>4. patch \in Patches /\ patch.status = "ANNULEE"
  BY <1>3, StatusPatches
<1> HIDE DEF patch
<1>5. MayWrite(rows[x], patch)
  BY <1>1, <1>2, <1>3, <1>4, EntryWrite
<1> QED BY <1>1, <1>5, WriteStarts

LEMMA RefuseEntryFits ==
    ASSUME AdminTypeOK, NEW w \in Workers, NEW x \in Items, RefuseEntry(w, x)
    PROVE  Fitting(w)
<1> DEFINE patch == SetStatus("REFUSEE")
<1>1. /\ Is(Entry, x) /\ Unreviewed(x)
      /\ rows[x].status \notin {"PRESENT", "SORTI", "ARCHIVEE"}
      /\ StartWrite(w, x, patch)
  BY DEF RefuseEntry, CanRefuseEntry
<1>2. /\ RowOK(rows[x]) /\ rows[x].kind = Entry /\ rows[x].status # "absent"
      /\ ~Awaits(rows[x])
  BY <1>1, ReadRow
<1>3. "REFUSEE" \in AllStatuses /\ "none" \in Classes /\ "REFUSEE" \in Statuses[Entry]
  BY EntryKind DEF Classes
<1>4. patch \in Patches /\ patch.status = "REFUSEE"
  BY <1>3, StatusPatches
<1> HIDE DEF patch
<1>5. MayWrite(rows[x], patch)
  BY <1>1, <1>2, <1>3, <1>4, EntryWrite
<1> QED BY <1>1, <1>5, WriteStarts

LEMMA ArchiveEntryFits ==
    ASSUME AdminTypeOK, NEW w \in Workers, NEW x \in Items, NEW user \in Submitters,
           ArchiveEntry(w, x, user)
    PROVE  Fitting(w)
<1> DEFINE row == rows[x]
<1>1. Is(Entry, x) /\ row.status # "ARCHIVEE" /\ Unreviewed(x)
  BY DEF ArchiveEntry, CanArchiveEntry, EntryIsOver
<1>2. /\ RowOK(row) /\ row.kind = Entry /\ row.status # "absent" /\ ~Awaits(row)
      /\ row.status \in Statuses[Entry]
  BY <1>1, ReadRow
<1>3. CASE row.status \in {"SORTI", "ANNULEE", "REFUSEE"}
  <2> DEFINE patch == SetStatus("ARCHIVEE")
  <2>1. StartWrite(w, x, patch)
    BY <1>3 DEF ArchiveEntry, CanArchiveEntry, EntryIsOver
  <2>2. "ARCHIVEE" \in AllStatuses /\ "none" \in Classes /\ "ARCHIVEE" \in Statuses[Entry]
    BY EntryKind DEF Classes
  <2>3. patch \in Patches /\ patch.status = "ARCHIVEE"
    BY <2>2, StatusPatches
  <2> HIDE DEF patch
  <2>4. MayWrite(row, patch)
    BY <1>1, <1>2, <1>3, <2>2, <2>3, EntryWrite
  <2> QED BY <2>1, <2>4, WriteStarts
<1>4. CASE row.status \notin {"SORTI", "ANNULEE", "REFUSEE"}
  <2>1. StartSubmit(w, x, user, "RECORD_ARCHIVE", "none")
    BY <1>4 DEF ArchiveEntry, CanArchiveEntry, EntryIsOver
  <2>2. row.status \in {"PREVUE", "PRESENT"}
    BY <1>1, <1>2, <1>4, EntryKind
  <2>3. ASSUME NEW new, new.kind = "ENTRY_LOG", new.status = row.status,
               new.action = "RECORD_ARCHIVE"
        PROVE  StillMakesSense(new)
    BY <2>2, <2>3 DEF StillMakesSense
  <2>4. MaySubmit(row, "RECORD_ARCHIVE", "none")
    BY <1>2, <2>3, EntryKind, EntrySubmit
  <2> QED BY <2>1, <2>4, SubmitStarts
<1> QED BY <1>3, <1>4

LEMMA ApproveEntryFits ==
    ASSUME AdminTypeOK, NEW w \in Workers, NEW x \in Items, NEW user \in Users,
           ApproveEntry(w, x, user)
    PROVE  Fitting(w)
<1> DEFINE row == rows[x]
           patch == EntryApproval(row)
<1>1. /\ Is(Entry, x)
      /\ row.action # "none"
      /\ StartReview(w, x, user, "APPROVED", patch, TRUE)
  BY DEF ApproveEntry, CanApproveEntry
<1>2. /\ RowOK(row) /\ row.kind = Entry /\ row.status # "absent"
      /\ row.action \in Actions[Entry] \cup {"none"}
  BY <1>1, ReadRow
<1>3. {"PRESENT", "SORTI", "ARCHIVEE"} \subseteq Statuses[row.kind]
  BY <1>2, EntryKind
<1>4. CASE row.action \in {"ACCESS_OVERRIDE", "AFTER_HOURS_ACCESS"}
  <2>1. patch = SetStatus("PRESENT")
    BY <1>4 DEF EntryApproval
  <2>2. MayDecide(row, "APPROVED", patch)
    BY <1>2, <1>3, <2>1, StatusDecided
  <2> QED BY <1>1, <2>2, ReviewStarts
<1>5. CASE row.action = "EXCEPTIONAL_EXIT"
  <2>1. patch = [SetStatus("SORTI") EXCEPT !.departs = TRUE]
    BY <1>5 DEF EntryApproval
  <2>2. MayDecide(row, "APPROVED", patch)
    BY <1>2, <1>3, <2>1, StatusDecided
  <2> QED BY <1>1, <2>2, ReviewStarts
<1>6. CASE row.action = "MANUAL_CHECKOUT_OVERRIDE"
  <2>1. patch = [NoPatch EXCEPT !.departs = TRUE]
    BY <1>6 DEF EntryApproval
  <2>2. "none" \in Classes /\ "APPROVED" \in Verdicts
    BY DEF Classes, Verdicts
  <2>3. patch \in Patches /\ patch.status = "keep"
    BY <2>1, <2>2, OtherPatches
  <2> HIDE DEF patch
  <2>4. MayDecide(row, "APPROVED", patch)
    BY <1>2, <2>2, <2>3 DEF MayDecide
  <2> QED BY <1>1, <2>4, ReviewStarts
<1>7. CASE row.action = "RECORD_ARCHIVE"
  <2>1. patch = SetStatus("ARCHIVEE")
    BY <1>7 DEF EntryApproval
  <2>2. MayDecide(row, "APPROVED", patch)
    BY <1>2, <1>3, <2>1, StatusDecided
  <2> QED BY <1>1, <2>2, ReviewStarts
<1> QED BY <1>1, <1>2, <1>4, <1>5, <1>6, <1>7, EntryKind

LEMMA DeclineEntryFits ==
    ASSUME AdminTypeOK, NEW w \in Workers, NEW x \in Items, NEW user \in Users,
           NEW verdict \in Verdicts, DeclineEntry(w, x, user, verdict)
    PROVE  Fitting(w)
<1>1. Is(Entry, x) /\ StartReview(w, x, user, verdict, NoPatch, FALSE)
  BY DEF DeclineEntry
<1>2. RowOK(rows[x]) /\ rows[x].status # "absent"
  BY <1>1, ReadRow
<1>3. MayDecide(rows[x], verdict, NoPatch)
  BY <1>2, NothingDecided
<1> QED BY <1>1, <1>3, ReviewStarts

(***************************************************************************)
(* Movements of goods.                                                     *)
(***************************************************************************)
LEMMA MovementKind ==
    /\ Movement = "GOODS_MOVEMENT_LOG"
    /\ Movement \in Kinds
    /\ Statuses[Movement] = {"ENREGISTRE", "SORTI", "RETOURNE", "EN_ATTENTE_VALIDATION",
                             "ANNULE", "ARCHIVE"}
    /\ Actions[Movement] = {"HIGH_VALUE_ASSET_EXIT", "TEMPORARY_ASSET_EXIT",
                            "CONTROLLED_GOODS_EXIT", "RECORD_ARCHIVE"}
    /\ Movement \notin DOMAIN DecidedStatuses
    /\ Statuses[Movement] \subseteq AllStatuses
    /\ Actions[Movement] \subseteq AllActions
<1>1. Statuses[Movement] \subseteq AllStatuses /\ Actions[Movement] \subseteq AllActions
  <2>1. Movement \in Kinds
    BY DEF Movement, Kinds, Statuses
  <2> QED BY <2>1 DEF AllStatuses, AllActions
<1> QED BY <1>1 DEF Movement, Kinds, Statuses, Actions, DecidedStatuses

LEMMA UpdateMovementFits ==
    ASSUME AdminTypeOK, NEW w \in Workers, NEW x \in Items, UpdateMovement(w, x)
    PROVE  Fitting(w)
<1>1. Is(Movement, x) /\ StartWrite(w, x, NoPatch)
  BY DEF UpdateMovement
<1>2. RowOK(rows[x]) /\ rows[x].status # "absent"
  BY <1>1, ReadRow
<1>3. NoPatch \in Patches /\ NoPatch.status = "keep" /\ NoPatch.departs = FALSE
  BY DEF NoPatch, Patches
<1>4. MayWrite(rows[x], NoPatch)
  BY <1>2, <1>3, OnlyTheClassIsWritten
<1> QED BY <1>1, <1>4, WriteStarts

LEMMA RecordReturnFits ==
    ASSUME AdminTypeOK, NEW w \in Workers, NEW x \in Items, RecordReturn(w, x)
    PROVE  Fitting(w)
<1> DEFINE row == rows[x]
           patch == SetStatus("RETOURNE")
<1>1. Is(Movement, x) /\ row.status = "SORTI" /\ StartWrite(w, x, patch)
  BY DEF RecordReturn, CanRecordReturn
<1>2. RowOK(row) /\ row.kind = Movement /\ row.status # "absent"
  BY <1>1, ReadRow
<1>3. patch \in Patches /\ patch.status = "RETOURNE"
  <2>1. "RETOURNE" \in AllStatuses /\ "none" \in Classes
    BY MovementKind DEF Classes
  <2> QED BY <2>1, StatusPatches
<1>4. /\ patch.status \in Statuses[row.kind] \cup {"keep"}
      /\ row.kind \notin DOMAIN DecidedStatuses
  BY <1>2, <1>3, MovementKind
<1> HIDE DEF patch
<1>5. ASSUME NEW new, new.kind = row.kind, new.action = row.action,
             new.status = IF patch.status = "keep" THEN row.status ELSE patch.status
      PROVE  Keeps(row, new) /\ (Sensible(row) => Sensible(new))
  <2>1. /\ new.kind = "GOODS_MOVEMENT_LOG" /\ row.kind = "GOODS_MOVEMENT_LOG"
        /\ new.status = "RETOURNE"
    BY <1>2, <1>3, <1>5, MovementKind
  <2>2. Keeps(row, new)
    BY <1>1, <2>1 DEF Keeps, NeedsADecisionWhenRead
  <2>3. Sensible(row) => Sensible(new)
    BY <1>1, <1>5, <2>1 DEF Sensible, StillMakesSense
  <2> QED BY <2>2, <2>3
<1>6. MayWrite(row, patch)
  BY <1>2, <1>3, <1>4, <1>5, WriteAllowed
<1> QED BY <1>1, <1>6, WriteStarts DEF patch

LEMMA ArchiveMovementFits ==
    ASSUME AdminTypeOK, NEW w \in Workers, NEW x \in Items, NEW user \in Submitters,
           ArchiveMovement(w, x, user)
    PROVE  Fitting(w)
<1> DEFINE row == rows[x]
<1>1. Is(Movement, x) /\ row.status # "ARCHIVE" /\ Unreviewed(x)
  BY DEF ArchiveMovement, CanArchiveMovement, MovementIsOver
<1>2. /\ RowOK(row) /\ row.kind = Movement /\ row.status # "absent" /\ ~Awaits(row)
      /\ row.status \in Statuses[Movement]
  BY <1>1, ReadRow
<1>3. CASE row.status \in {"ENREGISTRE", "RETOURNE", "ANNULE"}
  <2> DEFINE patch == SetStatus("ARCHIVE")
  <2>1. StartWrite(w, x, patch)
    BY <1>3 DEF ArchiveMovement, CanArchiveMovement, MovementIsOver
  <2>2. "ARCHIVE" \in AllStatuses /\ "none" \in Classes
    BY MovementKind DEF Classes
  <2>3. patch \in Patches /\ patch.status = "ARCHIVE"
    BY <2>2, StatusPatches
  <2>4. /\ patch.status \in Statuses[row.kind] \cup {"keep"}
        /\ row.kind \notin DOMAIN DecidedStatuses
    BY <1>2, <2>3, MovementKind
  <2> HIDE DEF patch
  <2>5. ASSUME NEW new, new.kind = row.kind,
               new.status = IF patch.status = "keep" THEN row.status ELSE patch.status
        PROVE  Keeps(row, new)
    <3>1. new.kind = "GOODS_MOVEMENT_LOG" /\ new.status = "ARCHIVE"
      BY <1>2, <2>3, <2>5, MovementKind
    <3> QED BY <1>3, <3>1 DEF Keeps, NeedsADecisionWhenRead
  <2>6. MayWrite(row, patch)
    BY <1>2, <2>3, <2>4, <2>5, WriteAllowed
  <2> QED BY <2>1, <2>6, WriteStarts
<1>4. CASE row.status \notin {"ENREGISTRE", "RETOURNE", "ANNULE"}
  <2>1. StartSubmit(w, x, user, "RECORD_ARCHIVE", "none")
    BY <1>4 DEF ArchiveMovement, CanArchiveMovement, MovementIsOver
  <2>2. row.status \in {"SORTI", "EN_ATTENTE_VALIDATION"}
    BY <1>1, <1>2, <1>4, MovementKind
  <2>3. ASSUME NEW new, new.kind = row.kind, new.status = row.status,
               new.action = "RECORD_ARCHIVE"
        PROVE  StillMakesSense(new)
    <3>1. new.kind = "GOODS_MOVEMENT_LOG"
      BY <1>2, <2>3, MovementKind
    <3> QED BY <2>2, <2>3, <3>1 DEF StillMakesSense
  <2>4. MaySubmit(row, "RECORD_ARCHIVE", "none")
    BY <1>2, <2>3, MovementKind DEF MaySubmit, Payloads, Named
  <2> QED BY <2>1, <2>4, SubmitStarts
<1> QED BY <1>3, <1>4

LEMMA ApproveMovementFits ==
    ASSUME AdminTypeOK, NEW w \in Workers, NEW x \in Items, NEW user \in Users,
           ApproveMovement(w, x, user)
    PROVE  Fitting(w)
<1> DEFINE row == rows[x]
<1>1. /\ Is(Movement, x)
      /\ row.action # "none"
      /\ StartReview(w, x, user, "APPROVED", MovementApproval(row), TRUE)
  BY DEF ApproveMovement, CanApproveMovement
<1>2. /\ RowOK(row) /\ row.kind = Movement /\ row.status # "absent"
      /\ row.action \in Actions[Movement] \cup {"none"}
  BY <1>1, ReadRow
<1>3. \E s \in {"SORTI", "ENREGISTRE", "ARCHIVE"} : MovementApproval(row) = SetStatus(s)
  <2>1. CASE row.action \in Checkouts
    BY <2>1 DEF MovementApproval
  <2>2. CASE row.action = "CONTROLLED_GOODS_EXIT"
    BY <2>2 DEF MovementApproval, Checkouts
  <2>3. CASE row.action = "RECORD_ARCHIVE"
    BY <2>3 DEF MovementApproval, Checkouts
  <2> QED BY <1>1, <1>2, <2>1, <2>2, <2>3, MovementKind DEF Checkouts
<1>4. PICK s \in {"SORTI", "ENREGISTRE", "ARCHIVE"} : MovementApproval(row) = SetStatus(s)
  BY <1>3
<1>5. s \in Statuses[row.kind]
  BY <1>2, MovementKind
<1>6. MayDecide(row, "APPROVED", MovementApproval(row))
  BY <1>2, <1>4, <1>5, StatusDecided
<1> QED BY <1>1, <1>6, ReviewStarts

LEMMA RejectMovementFits ==
    ASSUME AdminTypeOK, NEW w \in Workers, NEW x \in Items, NEW user \in Users,
           RejectMovement(w, x, user)
    PROVE  Fitting(w)
<1> DEFINE row == rows[x]
           s == IF row.status = "EN_ATTENTE_VALIDATION" THEN "ANNULE" ELSE row.status
<1>1. Is(Movement, x) /\ StartReview(w, x, user, "REJECTED", SetStatus(s), TRUE)
  BY DEF RejectMovement
<1>2. /\ RowOK(row) /\ row.kind = Movement /\ row.status # "absent"
      /\ row.status \in Statuses[Movement]
  BY <1>1, ReadRow
<1>3. /\ s \in Statuses[row.kind] /\ s # "keep" /\ s \in AllStatuses
      /\ s = row.status \/ (s = "ANNULE" /\ row.status = "EN_ATTENTE_VALIDATION")
  BY <1>2, MovementKind
<1> HIDE DEF s
<1> DEFINE patch == SetStatus(s)
<1>4. patch \in Patches /\ patch.status = s
  <2>1. "none" \in Classes
    BY DEF Classes
  <2> QED BY <1>3, <2>1, StatusPatches
<1> HIDE DEF patch
<1> DEFINE new == Patched(row, patch)
<1>5. new.kind = "GOODS_MOVEMENT_LOG" /\ new.status = s
  BY <1>2, <1>3, <1>4, PatchedFields, MovementKind DEF RowOK
<1> HIDE DEF new
<1>6. Keeps(row, new)
  BY <1>3, <1>5, SameStatusKeeps DEF Keeps, NeedsADecisionWhenRead
<1>7. MayDecide(row, "REJECTED", patch)
  BY <1>2, <1>3, <1>4, <1>6, MovementKind DEF MayDecide, Verdicts, new
<1> QED BY <1>1, <1>7, ReviewStarts DEF patch

LEMMA RequestMovementChangesFits ==
    ASSUME AdminTypeOK, NEW w \in Workers, NEW x \in Items, NEW user \in Users,
           RequestMovementChanges(w, x, user)
    PROVE  Fitting(w)
<1>1. Is(Movement, x) /\ StartReview(w, x, user, "CHANGES_REQUESTED", NoPatch, FALSE)
  BY DEF RequestMovementChanges
<1>2. RowOK(rows[x]) /\ rows[x].status # "absent"
  BY <1>1, ReadRow
<1>3. MayDecide(rows[x], "CHANGES_REQUESTED", NoPatch)
  BY <1>2, NothingDecided DEF Verdicts
<1> QED BY <1>1, <1>3, ReviewStarts

(***************************************************************************)
(* Activities and requests for funds.                                      *)
(***************************************************************************)
SubmissionKinds == {"ACTIVITY", "FUND_REQUEST"}

LEMMA SubmissionKind ==
    ASSUME NEW kind \in SubmissionKinds
    PROVE  /\ kind \in Kinds
           /\ Statuses[kind] = {"none"}
           /\ kind \notin DOMAIN DecidedStatuses
           /\ kind # "ENTRY_LOG"
  BY DEF SubmissionKinds, Kinds, Statuses, DecidedStatuses

LEMMA SubmissionRecorded ==
    ASSUME AdminTypeOK, NEW w \in Workers, NEW x \in Items, NEW user \in Submitters,
           NEW kind \in SubmissionKinds, IsNew(kind, x),
           StartRecord(w, x, user, SetStatus("none"), "none")
    PROVE  Fitting(w)
<1> DEFINE row == rows[x]
           patch == SetStatus("none")
<1>1. row.kind = kind /\ row.status = "absent"
  BY DEF IsNew, Exists
<1>2. patch \in Patches /\ patch.status = "none"
  <2>1. "none" \in AllStatuses /\ "none" \in Classes
    BY SubmissionKind, StatusOfRegister DEF Classes
  <2> QED BY <2>1, StatusPatches
<1>3. ASSUME NEW new, new.kind = row.kind
      PROVE  StillMakesSense(new) /\ ~NeedsADecisionWhenRead(row, new)
  <2>1. new.kind \in {"ACTIVITY", "FUND_REQUEST"}
    BY <1>1, <1>3 DEF SubmissionKinds
  <2>2. StillMakesSense(new)
    BY <2>1 DEF StillMakesSense
  <2>3. ~NeedsADecisionWhenRead(row, new)
    BY <2>1 DEF NeedsADecisionWhenRead
  <2> QED BY <2>2, <2>3
<1> HIDE DEF patch
<1>4. MayRecord(row, patch, "none")
  BY <1>1, <1>2, <1>3, SubmissionKind, NoCallFields
     DEF MayRecord, Named, SubmissionKinds
<1> QED BY <1>4, RecordStarts DEF patch

LEMMA SubmissionReviewed ==
    ASSUME AdminTypeOK, NEW w \in Workers, NEW x \in Items, NEW user \in Users,
           NEW kind, Is(kind, x), NEW verdict \in Verdicts,
           StartReview(w, x, user, verdict, NoPatch, FALSE)
    PROVE  Fitting(w)
<1>1. RowOK(rows[x]) /\ rows[x].status # "absent"
  BY ReadRow
<1>2. MayDecide(rows[x], verdict, NoPatch)
  BY <1>1, NothingDecided
<1> QED BY <1>2, ReviewStarts

LEMMA SubmissionsFit ==
    ASSUME AdminTypeOK, NEW w \in Workers, SubmissionsNext(w)
    PROVE  Fitting(w)
<1>1. PICK x \in Items :
         \/ \E user \in Educators \cup Directors : CreateActivity(w, x, user)
         \/ \E user \in Directors :
               \/ ApproveActivity(w, x, user)
               \/ RejectActivity(w, x, user)
               \/ CreateFundRequest(w, x, user)
         \/ \E user \in Supervisors :
               \/ ApproveFundRequest(w, x, user)
               \/ RejectFundRequest(w, x, user)
  BY DEF SubmissionsNext
<1>2. \/ \E user \in Submitters : CreateActivity(w, x, user)
      \/ \E user \in Users : ApproveActivity(w, x, user)
      \/ \E user \in Users : RejectActivity(w, x, user)
      \/ \E user \in Submitters : CreateFundRequest(w, x, user)
      \/ \E user \in Users : ApproveFundRequest(w, x, user)
      \/ \E user \in Users : RejectFundRequest(w, x, user)
  BY <1>1, UsersByRole DEF Submitters
<1>3. "APPROVED" \in Verdicts /\ "REJECTED" \in Verdicts
  BY DEF Verdicts
<1>4. ASSUME NEW user \in Submitters, CreateActivity(w, x, user)
      PROVE  Fitting(w)
  <2>1. /\ IsNew("ACTIVITY", x)
        /\ StartRecord(w, x, user, SetStatus("none"), "none")
        /\ "ACTIVITY" \in SubmissionKinds
    BY <1>4 DEF CreateActivity, SubmissionKinds
  <2> QED BY <2>1, SubmissionRecorded
<1>5. ASSUME NEW user \in Submitters, CreateFundRequest(w, x, user)
      PROVE  Fitting(w)
  <2>1. /\ IsNew("FUND_REQUEST", x)
        /\ StartRecord(w, x, user, SetStatus("none"), "none")
        /\ "FUND_REQUEST" \in SubmissionKinds
    BY <1>5 DEF CreateFundRequest, SubmissionKinds
  <2> QED BY <2>1, SubmissionRecorded
<1>6. ASSUME NEW user \in Users, ApproveActivity(w, x, user)
      PROVE  Fitting(w)
  <2>1. /\ Is("ACTIVITY", x)
        /\ StartReview(w, x, user, "APPROVED", NoPatch, FALSE)
    BY <1>6 DEF ApproveActivity
  <2> QED BY <1>3, <2>1, SubmissionReviewed
<1>7. ASSUME NEW user \in Users, RejectActivity(w, x, user)
      PROVE  Fitting(w)
  <2>1. /\ Is("ACTIVITY", x)
        /\ StartReview(w, x, user, "REJECTED", NoPatch, FALSE)
    BY <1>7 DEF RejectActivity
  <2> QED BY <1>3, <2>1, SubmissionReviewed
<1>8. ASSUME NEW user \in Users, ApproveFundRequest(w, x, user)
      PROVE  Fitting(w)
  <2>1. /\ Is("FUND_REQUEST", x)
        /\ StartReview(w, x, user, "APPROVED", NoPatch, FALSE)
    BY <1>8 DEF ApproveFundRequest
  <2> QED BY <1>3, <2>1, SubmissionReviewed
<1>9. ASSUME NEW user \in Users, RejectFundRequest(w, x, user)
      PROVE  Fitting(w)
  <2>1. /\ Is("FUND_REQUEST", x)
        /\ StartReview(w, x, user, "REJECTED", NoPatch, FALSE)
    BY <1>9 DEF RejectFundRequest
  <2> QED BY <1>3, <2>1, SubmissionReviewed
<1> QED BY <1>2, <1>4, <1>5, <1>6, <1>7, <1>8, <1>9

(***************************************************************************)
(* The creation of a row by one statement.                                 *)
(***************************************************************************)
MayPlace(row, patch) ==
    /\ patch \in Patches
    /\ patch.status \in Statuses[row.kind]
    /\ patch.status # "keep"
    /\ row.kind \in DOMAIN DecidedStatuses => patch.status \notin DecidedStatuses[row.kind]
    /\ ~NeedsADecisionWhenRead(row, Patched(row, patch))

Placing(w) ==
    \E x \in Items : \E patch \in Patches :
       MayPlace(rows[x], patch) /\ Insert(w, x, patch)

LEMMA PlaceAllowed ==
    ASSUME AdminTypeOK, NEW x \in Items, NEW kind \in Kinds, IsNew(kind, x),
           NEW patch \in Patches, NEW s \in Statuses[kind], patch.status = s, s # "keep",
           kind \in DOMAIN DecidedStatuses => s \notin DecidedStatuses[kind],
           kind = "MAINTENANCE_TICKET" => s # "FERME",
           kind = "GOODS_MOVEMENT_LOG" => s # "SORTI"
    PROVE  MayPlace(rows[x], patch)
<1>1. /\ rows[x] \in Rows
      /\ rows[x].kind = kind
      /\ rows[x].status = "absent"
  BY DEF AdminTypeOK, IsNew, Exists
<1> DEFINE new == Patched(rows[x], patch)
<1>2. new.kind = kind /\ new.status = s
  BY <1>1, PatchedFields
<1> HIDE DEF new
<1>3. ~NeedsADecisionWhenRead(rows[x], new)
  BY <1>1, <1>2 DEF NeedsADecisionWhenRead
<1> QED BY <1>1, <1>3 DEF MayPlace, new

LEMMA CreateProcedurePlaces ==
    ASSUME AdminTypeOK, NEW w \in Workers, NEW x \in Items,
           NEW s \in MANUALLY_SETTABLE_STATUSES, CreateProcedure(w, x, s)
    PROVE  Placing(w)
<1>1. IsNew(Procedure, x) /\ Insert(w, x, SetStatus(s))
  BY DEF CreateProcedure
<1>2. /\ s \in Statuses[Procedure] /\ s \notin DecidedStatuses[Procedure]
      /\ s # "keep" /\ s \in AllStatuses /\ "none" \in Classes
  BY ProcedureKind DEF MANUALLY_SETTABLE_STATUSES, Classes
<1>3. SetStatus(s) \in Patches /\ SetStatus(s).status = s
  BY <1>2, StatusPatches
<1>4. Procedure \notin {"MAINTENANCE_TICKET", "GOODS_MOVEMENT_LOG"} /\ Procedure \in Kinds
  BY ProcedureKind
<1>5. MayPlace(rows[x], SetStatus(s))
  BY <1>1, <1>2, <1>3, <1>4, PlaceAllowed
<1> QED BY <1>1, <1>3, <1>5 DEF Placing

LEMMA CreateTicketPlaces ==
    ASSUME AdminTypeOK, NEW w \in Workers, NEW x \in Items,
           NEW urgency \in Urgencies, CreateTicket(w, x, urgency)
    PROVE  Placing(w)
<1> DEFINE patch == [SetStatus("OUVERT") EXCEPT !.class = urgency]
<1>1. IsNew(Ticket, x) /\ Insert(w, x, patch)
  BY DEF CreateTicket
<1>2. /\ "OUVERT" \in Statuses[Ticket] /\ "OUVERT" \in AllStatuses
      /\ urgency \in Classes
      /\ Ticket \notin DOMAIN DecidedStatuses /\ Ticket \in Kinds
      /\ Ticket # "GOODS_MOVEMENT_LOG"
  BY TicketKind DEF Urgencies, Classes
<1>3. patch \in Patches /\ patch.status = "OUVERT"
  BY <1>2, StatusPatches, ZenonT(40)
<1> HIDE DEF patch
<1>4. MayPlace(rows[x], patch)
  BY <1>1, <1>2, <1>3, PlaceAllowed
<1> QED BY <1>1, <1>3, <1>4 DEF Placing

LEMMA CreateAssetPlaces ==
    ASSUME AdminTypeOK, NEW w \in Workers, NEW x \in Items,
           NEW cost \in Costs, NEW s \in RoutineAssetStatuses, CreateAsset(w, x, cost, s)
    PROVE  Placing(w)
<1> DEFINE patch == [SetStatus(s) EXCEPT !.class = cost]
<1>1. IsNew(Asset, x) /\ Insert(w, x, patch)
  BY DEF CreateAsset
<1>2. /\ s \in Statuses[Asset] /\ s \notin DecidedStatuses[Asset] /\ s \in AllStatuses
      /\ s # "keep"
      /\ cost \in Classes
      /\ Asset \notin {"MAINTENANCE_TICKET", "GOODS_MOVEMENT_LOG"} /\ Asset \in Kinds
  BY AssetKind DEF RoutineAssetStatuses, Costs, Classes
<1>3. patch \in Patches /\ patch.status = s
  BY <1>2, StatusPatches, ZenonT(40)
<1> HIDE DEF patch
<1>4. MayPlace(rows[x], patch)
  BY <1>1, <1>2, <1>3, PlaceAllowed
<1> QED BY <1>1, <1>3, <1>4 DEF Placing

LEMMA CreateEntryPlaces ==
    ASSUME AdminTypeOK, NEW w \in Workers, NEW x \in Items,
           NEW entryType \in EntryTypes, CreateEntry(w, x, entryType)
    PROVE  Placing(w)
<1> DEFINE s == IF entryType \in IMMEDIATE_ENTRY_TYPES THEN "PRESENT" ELSE "PREVUE"
           patch == [NoPatch EXCEPT !.status = s, !.class = entryType]
<1>1. IsNew(Entry, x) /\ Insert(w, x, patch)
  BY DEF CreateEntry
<1>2. /\ s \in Statuses[Entry] /\ s \in AllStatuses /\ s # "keep"
      /\ Entry \notin DOMAIN DecidedStatuses /\ Entry \in Kinds
      /\ Entry \notin {"MAINTENANCE_TICKET", "GOODS_MOVEMENT_LOG"}
  BY EntryKind
<1>3. entryType \in Classes
  BY EntryTypesAssumption DEF Classes
<1> HIDE DEF s
<1>4. patch \in Patches /\ patch.status = s
  BY <1>2, <1>3, StatusPatches
<1> HIDE DEF patch
<1>5. MayPlace(rows[x], patch)
  BY <1>1, <1>2, <1>4, PlaceAllowed
<1> QED BY <1>1, <1>4, <1>5 DEF Placing

LEMMA CreateMovementFits ==
    ASSUME AdminTypeOK, NEW w \in Workers, NEW x \in Items, NEW user \in Submitters,
           NEW type \in MovementTypes,
           NEW action \in SensitiveActions(type), CreateMovement(w, x, user, type, action)
    PROVE  Fitting(w) \/ Placing(w)
<1> DEFINE row == rows[x]
<1>1. IsNew(Movement, x)
  BY DEF CreateMovement
<1>2. row.kind = Movement /\ row.status = "absent"
  BY <1>1 DEF IsNew, Exists
<1>3. /\ {"ENREGISTRE", "EN_ATTENTE_VALIDATION"} \subseteq Statuses[Movement] \cap AllStatuses
      /\ type \in Classes
      /\ Movement \notin DOMAIN DecidedStatuses /\ Movement \in Kinds
      /\ Movement \notin {"MAINTENANCE_TICKET", "ENTRY_LOG"}
  BY MovementKind DEF Classes, MovementTypes
<1>4. action \in {"HIGH_VALUE_ASSET_EXIT", "TEMPORARY_ASSET_EXIT", "CONTROLLED_GOODS_EXIT",
                  "none"}
  BY DEF SensitiveActions, Checkouts, MovementTypes
<1>5. CASE action = "none"
  <2> DEFINE patch == [SetStatus("ENREGISTRE") EXCEPT !.class = type]
  <2>1. Insert(w, x, patch)
    BY <1>5 DEF CreateMovement
  <2>2. patch \in Patches /\ patch.status = "ENREGISTRE"
    BY <1>3, StatusPatches, ZenonT(40)
  <2> HIDE DEF patch
  <2>3. MayPlace(row, patch)
    BY <1>1, <1>3, <2>2, PlaceAllowed
  <2> QED BY <2>1, <2>2, <2>3 DEF Placing
<1>6. CASE action # "none"
  <2> DEFINE patch == [SetStatus("EN_ATTENTE_VALIDATION") EXCEPT !.class = type]
  <2>1. StartRecord(w, x, user, patch, action)
    BY <1>6 DEF CreateMovement
  <2>2. patch \in Patches /\ patch.status = "EN_ATTENTE_VALIDATION"
    <3>1. PICK s \in AllStatuses : s = "EN_ATTENTE_VALIDATION"
      BY <1>3
    <3>2. /\ [SetStatus(s) EXCEPT !.class = type] \in Patches
          /\ [SetStatus(s) EXCEPT !.class = type].status = s
      BY <1>3, StatusPatches, ZenonT(40)
    <3> QED BY <3>1, <3>2
  <2> HIDE DEF patch
  <2>3. ASSUME NEW new, new.kind = row.kind, new.status = patch.status, new.action = action
        PROVE  StillMakesSense(new) /\ ~NeedsADecisionWhenRead(row, new)
    <3>1. /\ new.kind = "GOODS_MOVEMENT_LOG"
          /\ new.status = "EN_ATTENTE_VALIDATION"
          /\ new.action # "RECORD_ARCHIVE"
      BY <1>2, <1>4, <1>6, <2>2, <2>3, MovementKind
    <3>2. StillMakesSense(new)
      BY <3>1 DEF StillMakesSense
    <3>3. ~NeedsADecisionWhenRead(row, new)
      BY <1>2, <3>1 DEF NeedsADecisionWhenRead
    <3> QED BY <3>2, <3>3
  <2>4. /\ action \in Actions[Movement] /\ action \in AllActions
        /\ action # "ASSET_DISPOSAL"
    BY <1>4, <1>6, MovementKind
  <2>5. MayRecord(row, patch, action)
    BY <1>2, <1>3, <1>6, <2>2, <2>3, <2>4 DEF MayRecord, Named
  <2> QED BY <2>1, <2>5, RecordStarts
<1> QED BY <1>5, <1>6

(***************************************************************************)
(* All the operations.                                                     *)
(***************************************************************************)
LEMMA ContractsFit ==
    ASSUME AdminTypeOK, NEW w \in Workers, ContractsNext(w)
    PROVE  \/ Fitting(w)
           \/ \E x \in Items, user \in Submitters : CreateContract(w, x, user)
<1>1. PICK x \in Items :
         \/ UpdateContract(w, x)
         \/ ArchiveContract(w, x)
         \/ \E user \in Directors : CreateContract(w, x, user)
         \/ \E user \in Directors : \E action \in Actions[Contract] :
               SubmitContract(w, x, user, action)
         \/ \E user \in Supervisors : ApproveContract(w, x, user)
         \/ \E user \in Supervisors : \E verdict \in Verdicts \ {"APPROVED"} :
               RefuseContract(w, x, user, verdict)
  BY DEF ContractsNext
<1> QED BY <1>1, UsersByRole, UpdateContractFits, ArchiveContractFits, SubmitContractFits,
           ApproveContractFits, RefuseContractFits

LEMMA ProceduresFit ==
    ASSUME AdminTypeOK, NEW w \in Workers, ProceduresNext(w)
    PROVE  Fitting(w) \/ Placing(w)
<1>1. PICK x \in Items :
         \/ \E status \in MANUALLY_SETTABLE_STATUSES : CreateProcedure(w, x, status)
         \/ \E patch \in ProcedurePatches : UpdateProcedure(w, x, patch)
         \/ ArchiveProcedure(w, x)
         \/ \E user \in Directors : \E action \in Actions[Procedure] :
               SubmitProcedure(w, x, user, action)
         \/ \E user \in Supervisors : ApproveProcedure(w, x, user)
         \/ \E user \in Supervisors : \E verdict \in Verdicts \ {"APPROVED"} :
               RefuseProcedure(w, x, user, verdict)
  BY DEF ProceduresNext
<1> QED BY <1>1, UsersByRole, CreateProcedurePlaces, UpdateProcedureFits,
           ArchiveProcedureFits, SubmitProcedureFits, ApproveProcedureFits,
           RefuseProcedureFits

LEMMA TicketsFit ==
    ASSUME AdminTypeOK, NEW w \in Workers, TicketsNext(w)
    PROVE  Fitting(w) \/ Placing(w)
<1>1. PICK x \in Items :
         \/ \E urgency \in Urgencies : CreateTicket(w, x, urgency)
         \/ \E patch \in TicketPatches : UpdateTicket(w, x, patch)
         \/ AssignTicket(w, x)
         \/ CloseTicket(w, x)
         \/ \E user \in Directors : SubmitTicket(w, x, user)
         \/ \E user \in Supervisors : ApproveTicket(w, x, user)
         \/ \E user \in Supervisors : \E verdict \in Verdicts \ {"APPROVED"} :
               RefuseTicket(w, x, user, verdict)
  BY DEF TicketsNext
<1> QED BY <1>1, UsersByRole, CreateTicketPlaces, UpdateTicketFits, AssignTicketFits,
           CloseTicketFits, SubmitTicketFits, ApproveTicketFits, RefuseTicketFits

LEMMA AssetsFit ==
    ASSUME AdminTypeOK, NEW w \in Workers, AssetsNext(w)
    PROVE  Fitting(w) \/ Placing(w)
<1>1. PICK x \in Items :
         \/ \E cost \in Costs, status \in RoutineAssetStatuses : CreateAsset(w, x, cost, status)
         \/ \E patch \in AssetPatches : UpdateAsset(w, x, patch)
         \/ AssignAsset(w, x)
         \/ \E user \in Directors : TransferAsset(w, x, user)
         \/ \E user \in Directors : \E d \in DisposalTypes : RequestDisposal(w, x, user, d)
         \/ \E user \in Directors : RequestAssetArchive(w, x, user)
         \/ \E user \in Supervisors : ApproveAsset(w, x, user)
         \/ \E user \in Supervisors : \E verdict \in Verdicts \ {"APPROVED"} :
               RefuseAsset(w, x, user, verdict)
  BY DEF AssetsNext
<1> QED BY <1>1, UsersByRole, CreateAssetPlaces, UpdateAssetFits, AssignAssetFits,
           TransferAssetFits, RequestDisposalFits, RequestAssetArchiveFits,
           ApproveAssetFits, RefuseAssetFits

LEMMA EntriesFit ==
    ASSUME AdminTypeOK, NEW w \in Workers, EntriesNext(w)
    PROVE  Fitting(w) \/ Placing(w)
<1>1. PICK x \in Items :
         \/ \E entryType \in EntryTypes : CreateEntry(w, x, entryType)
         \/ \E entryType \in EntryTypes : UpdateEntry(w, x, entryType)
         \/ CancelEntry(w, x)
         \/ RefuseEntry(w, x)
         \/ \E user \in Directors : CorrectDeparture(w, x, user)
         \/ \E user \in Directors : \E afterHours \in BOOLEAN : CheckIn(w, x, user, afterHours)
         \/ \E user \in Directors : CheckOut(w, x, user)
         \/ \E user \in Directors : ArchiveEntry(w, x, user)
         \/ \E user \in Supervisors : ApproveEntry(w, x, user)
         \/ \E user \in Supervisors : \E verdict \in Verdicts \ {"APPROVED"} :
               DeclineEntry(w, x, user, verdict)
  BY DEF EntriesNext
<1> QED BY <1>1, UsersByRole, CreateEntryPlaces, UpdateEntryFits, CancelEntryFits,
           RefuseEntryFits, CorrectDepartureFits, CheckInFits, CheckOutFits,
           ArchiveEntryFits, ApproveEntryFits, DeclineEntryFits

LEMMA MovementsFit ==
    ASSUME AdminTypeOK, NEW w \in Workers, MovementsNext(w)
    PROVE  Fitting(w) \/ Placing(w)
<1>1. PICK x \in Items :
         \/ UpdateMovement(w, x)
         \/ RecordReturn(w, x)
         \/ \E user \in Directors : \E type \in MovementTypes :
               \E action \in SensitiveActions(type) : CreateMovement(w, x, user, type, action)
         \/ \E user \in Directors : ArchiveMovement(w, x, user)
         \/ \E user \in Supervisors : ApproveMovement(w, x, user)
         \/ \E user \in Supervisors : RejectMovement(w, x, user)
         \/ \E user \in Supervisors : RequestMovementChanges(w, x, user)
  BY DEF MovementsNext
<1> QED BY <1>1, UsersByRole, UpdateMovementFits, RecordReturnFits, CreateMovementFits,
           ArchiveMovementFits, ApproveMovementFits, RejectMovementFits,
           RequestMovementChangesFits

\* Every step is a step of a handler at work, one that begins, or a creation.
LEMMA EveryStep ==
    ASSUME AdminTypeOK, Next
    PROVE  \E w \in Workers :
              \/ HandlerStep(w)
              \/ Fitting(w)
              \/ Placing(w)
              \/ \E x \in Items, user \in Submitters : CreateContract(w, x, user)
<1>1. PICK w \in Workers :
         \/ HandlerStep(w)
         \/ ContractsNext(w)
         \/ ProceduresNext(w)
         \/ TicketsNext(w)
         \/ AssetsNext(w)
         \/ EntriesNext(w)
         \/ MovementsNext(w)
         \/ SubmissionsNext(w)
  BY DEF Next
<1> QED BY <1>1, ContractsFit, ProceduresFit, TicketsFit, AssetsFit, EntriesFit,
           MovementsFit, SubmissionsFit

-----------------------------------------------------------------------------
(***************************************************************************)
(* Every step keeps the invariant.                                         *)
(***************************************************************************)
LEMMA RowSet ==
    ASSUME AdminTypeOK, NEW x \in Items, NEW row,
           rows' = [rows EXCEPT ![x] = row], RowOK(row),
           row.kind = rows[x].kind, row.status # "absent" \/ row = rows[x]
    PROVE  /\ rows' \in [Items -> Rows]
           /\ \A y \in Items : RowOK(rows'[y])
           /\ rows'[x] = row
           /\ \A y \in Items : y # x => rows'[y] = rows[y]
           /\ \A step, h : \A y \in Items :
                 HandlerOK(step, h, rows[y]) => HandlerOK(step, h, rows'[y])
<1>1. rows \in [Items -> Rows] /\ \A y \in Items : RowOK(rows[y])
  BY DEF AdminTypeOK
<1>2. row \in Rows
  BY DEF RowOK
<1>3. /\ rows' \in [Items -> Rows]
      /\ rows'[x] = row
      /\ \A y \in Items : y # x => rows'[y] = rows[y]
  BY <1>1, <1>2
<1>4. \A y \in Items : RowOK(rows'[y])
  <2> TAKE y \in Items
  <2>1. CASE y = x
    BY <1>3, <2>1
  <2>2. CASE y # x
    BY <1>1, <1>3, <2>2
  <2> QED BY <2>1, <2>2
<1>5. ASSUME NEW step, NEW h, NEW y \in Items, HandlerOK(step, h, rows[y])
      PROVE  HandlerOK(step, h, rows'[y])
  <2>1. CASE y = x
    <3>1. HandlerOK(step, h, rows[x])
      BY <1>5, <2>1
    <3>2. HandlerOK(step, h, row)
      BY <3>1, HandlerStays
    <3> QED BY <1>3, <2>1, <3>2
  <2>2. CASE y # x
    BY <1>3, <1>5, <2>2
  <2> QED BY <2>1, <2>2
<1> QED BY <1>3, <1>4, <1>5

\* A handler goes on, alone or not, with row x only.
LEMMA HandlerTurn ==
    ASSUME AdminInv, NEW w \in Workers, ~Idle(w),
           NEW x \in Items, x = local[w].item,
           NEW step \in Steps \cup {"idle"}, pc' = [pc EXCEPT ![w] = step],
           NEW h \in Locals, local' = [local EXCEPT ![w] = h],
           NEW row, rows' = [rows EXCEPT ![x] = row], RowOK(row),
           row.kind = rows[x].kind, row.status # "absent" \/ row = rows[x],
           pending' \subseteq ValidationRequests,
           \A y \in Items : y # x => OpenOf(y)' = OpenOf(y),
           clean' \in BOOLEAN, clean' => clean, faults' \in Nat,
           step # "idle" => h.item = x /\ HandlerOK(step, h, row),
           clean' /\ Fits(pc[w], local[w], rows[x], OpenOf(x)) =>
              IF step = "idle"
              THEN Settles(row, OpenOf(x)')
              ELSE Fits(step, h, row, OpenOf(x)')
    PROVE  AdminInv'
<1>1. AdminTypeOK /\ HandlersInv /\ SerialInv
  BY DEF AdminInv
<1>2. /\ rows' \in [Items -> Rows]
      /\ \A y \in Items : RowOK(rows'[y])
      /\ rows'[x] = row
      /\ \A y \in Items : y # x => rows'[y] = rows[y]
      /\ \A s, g : \A y \in Items : HandlerOK(s, g, rows[y]) => HandlerOK(s, g, rows'[y])
  BY <1>1, RowSet
<1>3. pc \in [Workers -> Steps \cup {"idle"}] /\ local \in [Workers -> Locals]
  BY <1>1 DEF AdminTypeOK
<1>4. /\ pc' \in [Workers -> Steps \cup {"idle"}]
      /\ local' \in [Workers -> Locals]
      /\ pc'[w] = step /\ local'[w] = h
      /\ \A v \in Workers : v # w => pc'[v] = pc[v] /\ local'[v] = local[v]
  BY <1>3
<1>5. AdminTypeOK'
  BY <1>2, <1>4 DEF AdminTypeOK
<1>6. HandlersInv'
  <2> SUFFICES ASSUME NEW v \in Workers, pc'[v] # "idle"
               PROVE  HandlerOK(pc'[v], local'[v], rows'[local'[v].item])
    BY DEF HandlersInv, Idle
  <2>1. CASE v = w
    BY <1>2, <1>4, <2>1
  <2>2. CASE v # w
    <3>1. pc'[v] = pc[v] /\ local'[v] = local[v] /\ ~Idle(v)
      BY <1>4, <2>2 DEF Idle
    <3>2. HandlerOK(pc[v], local[v], rows[local[v].item])
      BY <1>1, <3>1 DEF HandlersInv
    <3>3. local[v].item \in Items
      BY <3>2 DEF HandlerOK
    <3> QED BY <1>2, <3>1, <3>2, <3>3
  <2> QED BY <2>1, <2>2
<1>7. SerialInv'
  <2> SUFFICES ASSUME clean'
               PROVE  /\ Alone'
                      /\ \A v \in Workers :
                            pc'[v] # "idle" =>
                               Fits(pc'[v], local'[v], rows'[local'[v].item],
                                    OpenOf(local[v].item)')
                      /\ \A y \in Items : Untouched(y)' => Settles(rows'[y], OpenOf(y)')
    BY DEF SerialInv, Idle
  <2>1. /\ clean
        /\ Alone
        /\ \A v \in Workers :
              ~Idle(v) => Fits(pc[v], local[v], rows[local[v].item], OpenOf(local[v].item))
        /\ \A y \in Items : Untouched(y) => Settles(rows[y], OpenOf(y))
    BY <1>1 DEF SerialInv
  <2>2. \A v \in Workers : v # w => Idle(v) /\ pc'[v] = "idle"
    BY <1>4, <2>1 DEF Alone, Idle
  <2>3. Fits(pc[w], local[w], rows[x], OpenOf(x))
    BY <2>1
  <2>4. IF step = "idle"
        THEN Settles(row, OpenOf(x)')
        ELSE Fits(step, h, row, OpenOf(x)')
    BY <2>3
  <2>5. Alone'
    BY <2>2 DEF Alone, Idle
  <2>6. ASSUME NEW v \in Workers, pc'[v] # "idle"
        PROVE  Fits(pc'[v], local'[v], rows'[local'[v].item], OpenOf(local[v].item)')
    <3>1. v = w
      BY <2>2, <2>6
    <3>2. /\ pc'[v] = step /\ local'[v] = h /\ h.item = x /\ step # "idle"
          /\ rows'[local'[v].item] = row
      BY <1>2, <1>4, <2>6, <3>1
    <3>3. OpenOf(local[v].item)' = OpenOf(x)'
      BY <3>2 DEF OpenOf
    <3> QED BY <2>4, <3>2, <3>3
  <2>7. ASSUME NEW y \in Items, Untouched(y)'
        PROVE  Settles(rows'[y], OpenOf(y)')
    <3>1. CASE y = x
      <4>1. step = "idle"
        BY <1>4, <2>7, <3>1 DEF Untouched, Idle
      <4>2. Settles(row, OpenOf(x)')
        BY <2>4, <4>1
      <4>3. OpenOf(y)' = OpenOf(x)' /\ rows'[y] = row
        BY <1>2, <3>1
      <4> QED BY <4>2, <4>3
    <3>2. CASE y # x
      <4>1. Untouched(y)
        BY <2>2, <3>2 DEF Untouched
      <4>2. Settles(rows[y], OpenOf(y))
        BY <2>1, <4>1
      <4>3. rows'[y] = rows[y] /\ OpenOf(y)' = OpenOf(y)
        BY <1>2, <3>2
      <4> QED BY <4>2, <4>3
    <3> QED BY <3>1, <3>2
  <2> QED BY <2>5, <2>6, <2>7
<1> QED BY <1>5, <1>6, <1>7 DEF AdminInv

\* A handler begins.
LEMMA BeginKeeps ==
    ASSUME AdminInv, NEW w \in Workers, Fitting(w)
    PROVE  AdminInv'
<1>1. AdminTypeOK /\ HandlersInv /\ SerialInv
  BY DEF AdminInv
<1>2. PICK step \in Steps : \E h \in Locals :
         Begin(w, step, h) /\ Fit(step, h, rows[h.item])
  BY DEF Fitting
<1>3. PICK h \in Locals : Begin(w, step, h) /\ Fit(step, h, rows[h.item])
  BY <1>2
<1>4. /\ Idle(w)
      /\ pc' = [pc EXCEPT ![w] = step]
      /\ local' = [local EXCEPT ![w] = h]
      /\ clean' = (clean /\ NobodyElse(w))
      /\ rows' = rows /\ pending' = pending /\ faults' = faults
  BY <1>3 DEF Begin
<1>5. HandlerOK(step, h, rows[h.item]) /\ h.item \in Items
  BY <1>3 DEF Fit, HandlerOK
<1>6. pc \in [Workers -> Steps \cup {"idle"}] /\ local \in [Workers -> Locals]
  BY <1>1 DEF AdminTypeOK
<1>7. /\ pc' \in [Workers -> Steps \cup {"idle"}]
      /\ local' \in [Workers -> Locals]
      /\ pc'[w] = step /\ local'[w] = h
      /\ \A v \in Workers : v # w => pc'[v] = pc[v] /\ local'[v] = local[v]
  BY <1>4, <1>6
<1>8. AdminTypeOK'
  BY <1>1, <1>4, <1>7 DEF AdminTypeOK
<1>9. HandlersInv'
  <2> SUFFICES ASSUME NEW v \in Workers, pc'[v] # "idle"
               PROVE  HandlerOK(pc'[v], local'[v], rows'[local'[v].item])
    BY DEF HandlersInv, Idle
  <2>1. CASE v = w
    BY <1>4, <1>5, <1>7, <2>1
  <2>2. CASE v # w
    <3>1. pc'[v] = pc[v] /\ local'[v] = local[v] /\ ~Idle(v)
      BY <1>7, <2>2 DEF Idle
    <3>2. HandlerOK(pc[v], local[v], rows[local[v].item])
      BY <1>1, <3>1 DEF HandlersInv
    <3> QED BY <1>4, <3>1, <3>2
  <2> QED BY <2>1, <2>2
<1>10. SerialInv'
  <2> SUFFICES ASSUME clean'
               PROVE  /\ Alone'
                      /\ \A v \in Workers :
                            pc'[v] # "idle" =>
                               Fits(pc'[v], local'[v], rows'[local'[v].item],
                                    OpenOf(local[v].item)')
                      /\ \A y \in Items : Untouched(y)' => Settles(rows'[y], OpenOf(y)')
    BY DEF SerialInv, Idle
  <2>1. /\ clean
        /\ NobodyElse(w)
        /\ \A y \in Items : Untouched(y) => Settles(rows[y], OpenOf(y))
    BY <1>1, <1>4 DEF SerialInv
  <2>2. \A v \in Workers : Idle(v)
    BY <1>4, <2>1 DEF NobodyElse
  <2>3. \A v \in Workers : v # w => pc'[v] = "idle"
    BY <1>7, <2>2 DEF Idle
  <2>4. \A y \in Items : Settles(rows[y], OpenOf(y))
    BY <2>1, <2>2 DEF Untouched
  <2>5. Alone'
    BY <2>3 DEF Alone, Idle
  <2>6. ASSUME NEW v \in Workers, pc'[v] # "idle"
        PROVE  Fits(pc'[v], local'[v], rows'[local'[v].item], OpenOf(local[v].item)')
    <3>1. v = w
      BY <2>3, <2>6
    <3>2. pc'[v] = step /\ local'[v] = h
      BY <1>7, <3>1
    <3>3. Settles(rows[h.item], OpenOf(h.item))
      BY <1>5, <2>4
    <3>4. OpenOf(h.item) \in SUBSET ValidationRequests
      BY <1>1 DEF AdminTypeOK, OpenOf
    <3>5. Fits(step, h, rows[h.item], OpenOf(h.item))
      BY <1>3, <3>3, <3>4 DEF Fit
    <3>6. OpenOf(local[v].item)' = OpenOf(h.item)
      BY <1>4, <3>2 DEF OpenOf
    <3> QED BY <1>4, <3>2, <3>5, <3>6
  <2>7. ASSUME NEW y \in Items
        PROVE  Settles(rows'[y], OpenOf(y)')
    <3>1. OpenOf(y)' = OpenOf(y)
      BY <1>4 DEF OpenOf
    <3> QED BY <1>4, <2>4, <3>1
  <2> QED BY <2>5, <2>6, <2>7
<1> QED BY <1>8, <1>9, <1>10 DEF AdminInv

\* A row is created by one statement, or with its request by one transaction.
LEMMA CreationKeeps ==
    ASSUME AdminInv, NEW w \in Workers, Idle(w), NEW x \in Items,
           NEW row, rows' = [rows EXCEPT ![x] = row], RowOK(row),
           row.kind = rows[x].kind, row.status # "absent",
           pending' \subseteq ValidationRequests,
           \A y \in Items : y # x => OpenOf(y)' = OpenOf(y),
           clean' = (clean /\ NobodyElse(w)),
           pc' = pc, local' = local, faults' = faults,
           Settles(rows[x], OpenOf(x)) => Settles(row, OpenOf(x)')
    PROVE  AdminInv'
<1>1. AdminTypeOK /\ HandlersInv /\ SerialInv
  BY DEF AdminInv
<1>2. /\ rows' \in [Items -> Rows]
      /\ \A y \in Items : RowOK(rows'[y])
      /\ rows'[x] = row
      /\ \A y \in Items : y # x => rows'[y] = rows[y]
      /\ \A s, g : \A y \in Items : HandlerOK(s, g, rows[y]) => HandlerOK(s, g, rows'[y])
  BY <1>1, RowSet
<1>3. AdminTypeOK'
  <2>1. clean' \in BOOLEAN
    OBVIOUS
  <2> QED BY <1>1, <1>2, <2>1 DEF AdminTypeOK
<1>4. HandlersInv'
  <2> SUFFICES ASSUME NEW v \in Workers, pc[v] # "idle"
               PROVE  HandlerOK(pc[v], local[v], rows'[local[v].item])
    BY DEF HandlersInv, Idle
  <2>1. HandlerOK(pc[v], local[v], rows[local[v].item])
    BY <1>1 DEF HandlersInv, Idle
  <2>2. local[v].item \in Items
    BY <2>1 DEF HandlerOK
  <2> QED BY <1>2, <2>1, <2>2
<1>5. SerialInv'
  <2> SUFFICES ASSUME clean'
               PROVE  /\ \A v \in Workers : pc'[v] = "idle"
                      /\ \A y \in Items : Settles(rows'[y], OpenOf(y)')
    BY DEF SerialInv, Idle, Alone
  <2>1. /\ clean
        /\ NobodyElse(w)
        /\ \A y \in Items : Untouched(y) => Settles(rows[y], OpenOf(y))
    BY <1>1 DEF SerialInv
  <2>2. \A v \in Workers : Idle(v)
    BY <2>1 DEF NobodyElse
  <2>3. \A y \in Items : Settles(rows[y], OpenOf(y))
    BY <2>1, <2>2 DEF Untouched
  <2>4. ASSUME NEW y \in Items
        PROVE  Settles(rows'[y], OpenOf(y)')
    <3>1. CASE y = x
      <4>1. OpenOf(y)' = OpenOf(x)' /\ rows'[y] = row
        BY <1>2, <3>1
      <4>2. Settles(row, OpenOf(x)')
        BY <2>3
      <4> QED BY <4>1, <4>2
    <3>2. CASE y # x
      <4>1. rows'[y] = rows[y] /\ OpenOf(y)' = OpenOf(y)
        BY <1>2, <3>2
      <4>2. Settles(rows[y], OpenOf(y))
        BY <2>3
      <4> QED BY <4>1, <4>2
    <3> QED BY <3>1, <3>2
  <2>5. \A v \in Workers : pc'[v] = "idle"
    BY <2>2 DEF Idle
  <2> QED BY <2>4, <2>5
<1> QED BY <1>3, <1>4, <1>5 DEF AdminInv

LEMMA PlacingKeeps ==
    ASSUME AdminInv, NEW w \in Workers, Placing(w)
    PROVE  AdminInv'
<1>1. PICK x \in Items : \E patch \in Patches :
         MayPlace(rows[x], patch) /\ Insert(w, x, patch)
  BY DEF Placing
<1>2. PICK patch \in Patches : MayPlace(rows[x], patch) /\ Insert(w, x, patch)
  BY <1>1
<1> DEFINE row == Patched(rows[x], patch)
<1>3. /\ Idle(w)
      /\ rows[x].status = "absent"
      /\ rows' = [rows EXCEPT ![x] = row]
      /\ clean' = (clean /\ NobodyElse(w))
      /\ pending' = pending /\ pc' = pc /\ local' = local /\ faults' = faults
  <2>1. /\ Idle(w) /\ ~Exists(x)
        /\ rows' = [rows EXCEPT ![x] = Patched(@, patch)]
        /\ clean' = (clean /\ NobodyElse(w))
        /\ pending' = pending /\ pc' = pc /\ local' = local /\ faults' = faults
    BY <1>2 DEF Insert
  <2>2. rows \in [Items -> Rows]
    BY DEF AdminInv, AdminTypeOK
  <2> QED BY <2>1, <2>2 DEF Exists
<1>4. RowOK(rows[x]) /\ rows[x] \in Rows /\ rows[x].validation = "none"
  BY <1>3 DEF AdminInv, AdminTypeOK, RowOK
<1>5. /\ patch.status \in Statuses[rows[x].kind] \cup {"keep"}
      /\ patch.status # "keep"
  BY <1>2 DEF MayPlace
<1>6. RowOK(row) /\ row.kind = rows[x].kind /\ row.status # "absent"
  BY <1>4, <1>5, PatchedRows
<1>7. row.validation = "none"
  BY <1>4, PatchedFields
<1> HIDE DEF row
<1>8. pending' \subseteq ValidationRequests /\ \A y \in Items : OpenOf(y)' = OpenOf(y)
  BY <1>3 DEF AdminInv, AdminTypeOK, OpenOf
<1>9. Settles(rows[x], OpenOf(x)) => Settles(row, OpenOf(x)')
  <2>1. OpenOf(x)' = OpenOf(x)
    BY <1>8
  <2>2. ~Awaits(rows[x]) /\ ~Awaits(row)
    BY <1>4, <1>7 DEF Awaits
  <2> QED BY <2>1, <2>2 DEF Settles
<1> QED BY <1>3, <1>6, <1>8, <1>9, CreationKeeps

LEMMA ContractRowFields ==
    ASSUME NEW row \in Rows
    PROVE  [row EXCEPT !.status = "BROUILLON", !.validation = "PENDING_VALIDATION",
                       !.action = "CREATION"] \in
              [kind : {row.kind}, status : {"BROUILLON"}, class : {row.class},
               departed : {row.departed}, validation : {"PENDING_VALIDATION"},
               action : {"CREATION"}, payload : {row.payload}]
  BY DEF Rows

LEMMA CreateContractKeeps ==
    ASSUME AdminInv, NEW w \in Workers, NEW x \in Items, NEW user \in Submitters,
           CreateContract(w, x, user)
    PROVE  AdminInv'
<1>1. rows \in [Items -> Rows] /\ RowOK(rows[x]) /\ pending \subseteq ValidationRequests
  BY DEF AdminInv, AdminTypeOK
<1>2. /\ Idle(w)
      /\ IsNew(Contract, x)
      /\ rows' = [rows EXCEPT ![x].status = "BROUILLON",
                              ![x].validation = "PENDING_VALIDATION",
                              ![x].action = "CREATION"]
      /\ clean' = (clean /\ NobodyElse(w))
      /\ pc' = pc /\ local' = local /\ faults' = faults
  BY DEF CreateContract
<1>3. PICK n \in 1..MaxIds : pending' = pending \cup {[id |-> n, of |-> x, by |-> user]}
  BY DEF CreateContract
<1> DEFINE old == rows[x]
           row == [old EXCEPT !.status = "BROUILLON", !.validation = "PENDING_VALIDATION",
                              !.action = "CREATION"]
           q == [id |-> n, of |-> x, by |-> user]
<1>4. /\ old = [kind |-> old.kind, status |-> old.status, class |-> old.class,
                departed |-> old.departed, validation |-> old.validation,
                action |-> old.action, payload |-> old.payload]
      /\ old.class \in Classes /\ old.departed \in BOOLEAN /\ old.payload \in Payloads
      /\ old.validation = "none"
      /\ old.kind = Contract
  BY <1>1, <1>2 DEF RowOK, Rows, IsNew, Exists
<1>5. rows' = [rows EXCEPT ![x] = row]
  BY <1>1, <1>2
<1>6. /\ row.kind = Contract /\ row.status = "BROUILLON"
      /\ row.action = "CREATION" /\ row.validation = "PENDING_VALIDATION"
      /\ row \in Rows
  <2>1. row \in
           [kind : {old.kind}, status : {"BROUILLON"}, class : {old.class},
            departed : {old.departed}, validation : {"PENDING_VALIDATION"},
            action : {"CREATION"}, payload : {old.payload}]
    BY <1>1, ContractRowFields DEF RowOK
  <2> HIDE DEF row
  <2> QED BY <1>4, <2>1, ContractKind DEF Rows
<1> HIDE DEF row
<1>7. RowOK(row)
  BY <1>6, ContractKind DEF RowOK, Named
<1>8. Sensible(row)
  BY <1>6, ContractKind DEF Sensible, StillMakesSense, ContractAllows
<1>9. q \in ValidationRequests /\ q.of = x
  BY UsersByRole DEF ValidationRequests
<1> HIDE DEF q
<1>10. pending' = pending \cup {q} /\ pending' \subseteq ValidationRequests
  BY <1>1, <1>3, <1>9 DEF q
<1>11. \A y \in Items : y # x => OpenOf(y)' = OpenOf(y)
  BY <1>9, <1>10 DEF OpenOf
<1>12. Settles(old, OpenOf(x)) => Settles(row, OpenOf(x)')
  <2>1. HAVE Settles(old, OpenOf(x))
  <2>2. OpenOf(x) = {}
    BY <1>4, <2>1 DEF Settles, Awaits
  <2>3. OpenOf(x)' = {q}
    BY <1>9, <1>10, <2>2 DEF OpenOf
  <2> QED BY <1>6, <1>8, <2>3 DEF Settles, Awaits
<1>13. row.kind = rows[x].kind /\ row.status # "absent"
  BY <1>4, <1>6
<1> QED BY <1>2, <1>5, <1>7, <1>10, <1>11, <1>12, <1>13, CreationKeeps

(***************************************************************************)
(* The steps of a handler at work.                                         *)
(***************************************************************************)
LEMMA AtWork ==
    ASSUME AdminInv, NEW w \in Workers, ~Idle(w)
    PROVE  /\ local[w] \in Locals
           /\ local[w].item \in Items
           /\ local[w].patch \in Patches
           /\ pc[w] \in Steps
           /\ RowOK(rows[local[w].item])
           /\ HandlerOK(pc[w], local[w], rows[local[w].item])
           /\ pending \subseteq ValidationRequests
           /\ clean \in BOOLEAN
           /\ faults \in Nat
           /\ local = [local EXCEPT ![w] = local[w]]
           /\ \A x \in Items : rows = [rows EXCEPT ![x] = rows[x]]
           /\ rows \in [Items -> Rows]
           /\ local \in [Workers -> Locals]
<1>1. AdminTypeOK /\ HandlersInv
  BY DEF AdminInv
<1>2. HandlerOK(pc[w], local[w], rows[local[w].item])
  BY <1>1 DEF HandlersInv
<1>3. local[w].item \in Items
  BY <1>2 DEF HandlerOK
<1>4. /\ local \in [Workers -> Locals] /\ rows \in [Items -> Rows]
      /\ pc \in [Workers -> Steps \cup {"idle"}]
      /\ RowOK(rows[local[w].item])
      /\ pending \subseteq ValidationRequests /\ clean \in BOOLEAN /\ faults \in Nat
  BY <1>1, <1>3 DEF AdminTypeOK
<1>5. pc[w] \in Steps
  BY <1>4 DEF Idle
<1>6. local[w] \in Locals /\ local[w].patch \in Patches
  <2>1. local[w] \in Locals
    BY <1>4
  <2> QED BY <2>1 DEF Locals
<1>7. local = [local EXCEPT ![w] = local[w]]
  BY <1>4
<1>8. \A x \in Items : rows = [rows EXCEPT ![x] = rows[x]]
  BY <1>4
<1> QED BY <1>2, <1>3, <1>4, <1>5, <1>6, <1>7, <1>8

\* What a step makes of row x, of the requests and of the rest.
RowMoves(x, row) ==
    /\ rows' = [rows EXCEPT ![x] = row]
    /\ RowOK(row)
    /\ row.kind = rows[x].kind
    /\ row.status # "absent"
    /\ pending' \subseteq ValidationRequests
    /\ \A y \in Items : y # x => OpenOf(y)' = OpenOf(y)
    /\ clean' \in BOOLEAN
    /\ clean' => clean
    /\ faults' \in Nat

HandlerMoves(w, step, h) ==
    /\ pc' = [pc EXCEPT ![w] = step]
    /\ local' = [local EXCEPT ![w] = h]

LEMMA HandlerEnds ==
    ASSUME AdminInv, NEW w \in Workers, ~Idle(w),
           NEW g \in Locals, g = local[w], NEW x \in Items, x = g.item,
           NEW row, RowMoves(x, row), HandlerMoves(w, "idle", NoCall),
           clean' /\ Fits(pc[w], g, rows[x], OpenOf(x)) => Settles(row, OpenOf(x)')
    PROVE  AdminInv'
<1> PICK step \in Steps \cup {"idle"} : step = "idle"
  OBVIOUS
<1> PICK h \in Locals : h = NoCall
  BY NoCallFields
<1>1. /\ pc' = [pc EXCEPT ![w] = step]
      /\ local' = [local EXCEPT ![w] = h]
      /\ x = local[w].item
  BY DEF HandlerMoves
<1>2. /\ rows' = [rows EXCEPT ![x] = row]
      /\ RowOK(row)
      /\ row.kind = rows[x].kind
      /\ row.status # "absent" \/ row = rows[x]
      /\ pending' \subseteq ValidationRequests
      /\ \A y \in Items : y # x => OpenOf(y)' = OpenOf(y)
      /\ clean' \in BOOLEAN
      /\ clean' => clean
      /\ faults' \in Nat
  BY DEF RowMoves
<1>3. step # "idle" => h.item = x /\ HandlerOK(step, h, row)
  OBVIOUS
<1>4. clean' /\ Fits(pc[w], local[w], rows[x], OpenOf(x)) =>
         IF step = "idle"
         THEN Settles(row, OpenOf(x)')
         ELSE Fits(step, h, row, OpenOf(x)')
  OBVIOUS
<1> QED BY <1>1, <1>2, <1>3, <1>4, HandlerTurn

LEMMA HandlerGoesOn ==
    ASSUME AdminInv, NEW w \in Workers, ~Idle(w),
           NEW g \in Locals, g = local[w], NEW x \in Items, x = g.item,
           NEW step \in Steps, NEW h \in Locals, h.item = x,
           NEW row, RowMoves(x, row), HandlerMoves(w, step, h),
           HandlerOK(step, h, row),
           clean' /\ Fits(pc[w], g, rows[x], OpenOf(x)) => Fits(step, h, row, OpenOf(x)')
    PROVE  AdminInv'
<1>1. /\ pc' = [pc EXCEPT ![w] = step]
      /\ local' = [local EXCEPT ![w] = h]
      /\ x = local[w].item
      /\ step \in Steps \cup {"idle"}
  BY DEF HandlerMoves
<1>2. /\ rows' = [rows EXCEPT ![x] = row]
      /\ RowOK(row)
      /\ row.kind = rows[x].kind
      /\ row.status # "absent" \/ row = rows[x]
      /\ pending' \subseteq ValidationRequests
      /\ \A y \in Items : y # x => OpenOf(y)' = OpenOf(y)
      /\ clean' \in BOOLEAN
      /\ clean' => clean
      /\ faults' \in Nat
  BY DEF RowMoves
<1>3. step # "idle" => h.item = x /\ HandlerOK(step, h, row)
  OBVIOUS
<1>4. clean' /\ Fits(pc[w], local[w], rows[x], OpenOf(x)) =>
         IF step = "idle"
         THEN Settles(row, OpenOf(x)')
         ELSE Fits(step, h, row, OpenOf(x)')
  <2>1. step # "idle"
    BY DEF Steps
  <2> QED BY <2>1
<1> QED BY <1>1, <1>2, <1>3, <1>4, HandlerTurn

LEMMA WriteKeeps ==
    ASSUME AdminInv, NEW w \in Workers, Write(w)
    PROVE  AdminInv'
<1>w. ~Idle(w)
  BY DEF Write, Idle
<1>h. PICK h \in Locals : h = local[w]
  BY <1>w, AtWork
<1>x. PICK x \in Items : x = h.item
  BY <1>w, <1>h, AtWork
<1>1. /\ pc[w] = "write"
      /\ rows' = [rows EXCEPT ![x] = Patched(@, h.patch)]
      /\ HandlerMoves(w, "idle", NoCall)
      /\ clean' = clean /\ faults' = faults /\ pending' = pending
  BY <1>h, <1>x DEF Write, Finish, HandlerMoves
<1>2. /\ h.patch \in Patches
      /\ RowOK(rows[x]) /\ HandlerOK("write", h, rows[x])
      /\ pending' \subseteq ValidationRequests
      /\ clean' \in BOOLEAN /\ (clean' => clean) /\ faults' \in Nat
      /\ rows \in [Items -> Rows]
  BY <1>1, <1>w, <1>h, <1>x, AtWork
<1> DEFINE row == Patched(rows[x], h.patch)
<1>3. rows' = [rows EXCEPT ![x] = row]
  BY <1>1, <1>2
<1>4. RowOK(row) /\ row.kind = rows[x].kind /\ row.status # "absent"
  BY <1>2, PatchedRows DEF HandlerOK
<1>5. row.validation = rows[x].validation
  BY <1>2, PatchedFields DEF RowOK
<1>6. \A y \in Items : OpenOf(y)' = OpenOf(y)
  BY <1>1 DEF OpenOf
<1>7. clean' /\ Fits(pc[w], h, rows[x], OpenOf(x)) => Settles(row, OpenOf(x)')
  <2>1. HAVE clean' /\ Fits(pc[w], h, rows[x], OpenOf(x))
  <2>2. /\ Settles(rows[x], OpenOf(x))
        /\ Awaits(rows[x]) => Sensible(row)
    BY <1>1, <2>1 DEF Fits
  <2>3. Awaits(row) <=> Awaits(rows[x])
    BY <1>5 DEF Awaits
  <2>4. Settles(row, OpenOf(x))
    BY <2>2, <2>3 DEF Settles
  <2> QED BY <1>6, <2>4
<1> HIDE DEF row
<1>8. RowMoves(x, row)
  BY <1>2, <1>3, <1>4, <1>6 DEF RowMoves
<1> QED BY <1>w, <1>h, <1>x, <1>1, <1>7, <1>8, HandlerEnds

LEMMA RecordKeeps ==
    ASSUME AdminInv, NEW w \in Workers, Record(w)
    PROVE  AdminInv'
<1>w. ~Idle(w)
  BY DEF Record, Idle
<1>h. PICK h \in Locals : h = local[w]
  BY <1>w, AtWork
<1>x. PICK x \in Items : x = h.item
  BY <1>w, <1>h, AtWork
<1>1. /\ pc[w] = "record"
      /\ rows' = [rows EXCEPT ![x] =
            [Patched(@, h.patch) EXCEPT !.validation = "PENDING_VALIDATION",
                                        !.action = h.action]]
      /\ pc' = [pc EXCEPT ![w] = "find"]
      /\ local' = local /\ clean' = clean /\ faults' = faults /\ pending' = pending
  BY <1>h, <1>x DEF Record, Goto
<1>2. /\ RowOK(rows[x]) /\ HandlerOK("record", h, rows[x])
      /\ pending' \subseteq ValidationRequests
      /\ clean' \in BOOLEAN /\ (clean' => clean) /\ faults' \in Nat
      /\ rows \in [Items -> Rows]
      /\ local = [local EXCEPT ![w] = h]
  BY <1>1, <1>w, <1>h, <1>x, AtWork
<1> DEFINE row == Recorded(rows[x], h)
<1>3. rows' = [rows EXCEPT ![x] = row]
  BY <1>1, <1>2 DEF Recorded
<1>4. RowOK(row) /\ row.kind = rows[x].kind /\ row.status # "absent"
  BY <1>2, RecordedRows
<1>5. row.validation = "PENDING_VALIDATION"
  BY <1>2, RecordedFields DEF RowOK
<1>6. \A y \in Items : OpenOf(y)' = OpenOf(y)
  BY <1>1 DEF OpenOf
<1>7. HandlerOK("find", h, row)
  BY <1>2, <1>4 DEF HandlerOK, Reviews, Approves
<1>8. clean' /\ Fits(pc[w], h, rows[x], OpenOf(x)) => Fits("find", h, row, OpenOf(x)')
  <2>1. HAVE clean' /\ Fits(pc[w], h, rows[x], OpenOf(x))
  <2>2. /\ Settles(rows[x], OpenOf(x))
        /\ rows[x].status = "absent"
        /\ Sensible(row)
        /\ ~h.marks
    BY <1>1, <2>1 DEF Fits
  <2>3. ~Awaits(rows[x])
    BY <1>2, <2>2 DEF RowOK, Awaits
  <2>4. OpenOf(x)' = {}
    BY <1>6, <2>2, <2>3 DEF Settles
  <2>5. Awaits(row)
    BY <1>5 DEF Awaits
  <2> QED BY <2>2, <2>4, <2>5 DEF Fits
<1> HIDE DEF row
<1>9. RowMoves(x, row)
  BY <1>2, <1>3, <1>4, <1>6 DEF RowMoves
<1>10. HandlerMoves(w, "find", h) /\ "find" \in Steps
  BY <1>1, <1>2 DEF HandlerMoves, Steps
<1>11. h.item = x
  BY <1>x
<1> QED BY <1>w, <1>h, <1>x, <1>7, <1>8, <1>9, <1>10, <1>11, HandlerGoesOn

\* A step that leaves the rows and the requests as they are.
LEMMA NothingMoves ==
    ASSUME AdminInv, NEW x \in Items, rows[x].status # "absent",
           rows' = rows, pending' = pending, clean' = clean, faults' = faults
    PROVE  RowMoves(x, rows[x]) /\ OpenOf(x)' = OpenOf(x)
<1>1. /\ rows \in [Items -> Rows] /\ RowOK(rows[x])
      /\ pending \subseteq ValidationRequests /\ clean \in BOOLEAN /\ faults \in Nat
  BY DEF AdminInv, AdminTypeOK
<1>2. \A y \in Items : OpenOf(y)' = OpenOf(y)
  BY DEF OpenOf
<1>3. rows' = [rows EXCEPT ![x] = rows[x]]
  BY <1>1
<1> QED BY <1>1, <1>2, <1>3 DEF RowMoves

\* findPendingFor finds a request whenever there is one, if there are no two.
LEMMA FindsTheOpenOne ==
    ASSUME pending \subseteq ValidationRequests, NEW x,
           \A p, q \in OpenOf(x) : p = q
    PROVE  FindPendingFor(x) = OpenOf(x)
<1>1. ASSUME NEW q \in OpenOf(x)
      PROVE  q \in FindPendingFor(x)
  <2>1. q.id \in Nat
    BY BoundsAssumption DEF OpenOf, ValidationRequests
  <2>2. \A p \in OpenOf(x) : p.id <= q.id
    BY <2>1
  <2> QED BY <2>2 DEF FindPendingFor
<1> QED BY <1>1 DEF FindPendingFor

LEMMA FindKeeps ==
    ASSUME AdminInv, NEW w \in Workers, Find(w)
    PROVE  AdminInv'
<1>w. ~Idle(w)
  BY DEF Find, Idle
<1>h. PICK h \in Locals : h = local[w]
  BY <1>w, AtWork
<1>x. PICK x \in Items : x = h.item
  BY <1>w, <1>h, AtWork
<1>1. pc[w] = "find"
  BY DEF Find
<1>2. /\ RowOK(rows[x]) /\ HandlerOK("find", h, rows[x])
      /\ pending \subseteq ValidationRequests
      /\ local = [local EXCEPT ![w] = h]
  BY <1>1, <1>w, <1>h, <1>x, AtWork
<1>3. rows[x].status # "absent"
  BY <1>2 DEF HandlerOK
<1>4. CASE FindPendingFor(x) # {}
  <2>1. /\ rows' = rows /\ pending' = pending
        /\ HandlerMoves(w, "idle", NoCall)
        /\ clean' = clean /\ faults' = faults
    BY <1>4, <1>h, <1>x DEF Find, Refuse, Finish, HandlerMoves
  <2>2. RowMoves(x, rows[x]) /\ OpenOf(x)' = OpenOf(x)
    BY <1>3, <2>1, NothingMoves
  <2>3. clean' /\ Fits(pc[w], h, rows[x], OpenOf(x)) => Settles(rows[x], OpenOf(x)')
    <3>1. HAVE clean' /\ Fits(pc[w], h, rows[x], OpenOf(x))
    <3>2. OpenOf(x) # {}
      BY <1>4 DEF FindPendingFor
    <3>3. Settles(rows[x], OpenOf(x))
      BY <1>1, <3>1, <3>2 DEF Fits
    <3> QED BY <2>2, <3>3
  <2> QED BY <1>w, <1>h, <1>x, <2>1, <2>2, <2>3, HandlerEnds
<1>5. CASE FindPendingFor(x) = {}
  <2>1. /\ rows' = rows /\ pending' = pending
        /\ pc' = [pc EXCEPT ![w] = "insert"]
        /\ local' = local /\ clean' = clean /\ faults' = faults
    BY <1>5, <1>h, <1>x DEF Find, Goto
  <2>2. RowMoves(x, rows[x]) /\ OpenOf(x)' = OpenOf(x)
    BY <1>3, <2>1, NothingMoves
  <2>3. HandlerOK("insert", h, rows[x])
    BY <1>2 DEF HandlerOK, Reviews, Approves
  <2>4. clean' /\ Fits(pc[w], h, rows[x], OpenOf(x)) =>
           Fits("insert", h, rows[x], OpenOf(x)')
    <3>1. HAVE clean' /\ Fits(pc[w], h, rows[x], OpenOf(x))
    <3>2. CASE h.marks
      <4>1. Settles(rows[x], OpenOf(x)) /\ Sensible(Marked(rows[x], h))
        BY <1>1, <3>1, <3>2 DEF Fits
      <4>2. OpenOf(x) = {}
        BY <1>2, <1>5, <4>1, FindsTheOpenOne DEF Settles
      <4> QED BY <2>2, <3>2, <4>1, <4>2 DEF Fits
    <3>3. CASE ~h.marks
      BY <1>1, <2>2, <3>1, <3>3 DEF Fits
    <3> QED BY <3>2, <3>3
  <2>5. HandlerMoves(w, "insert", h) /\ "insert" \in Steps
    BY <1>2, <2>1 DEF HandlerMoves, Steps
  <2>6. h.item = x
    BY <1>x
  <2> QED BY <1>w, <1>h, <1>x, <2>2, <2>3, <2>4, <2>5, <2>6, HandlerGoesOn
<1> QED BY <1>4, <1>5

\* A submission opens a request of its row, and of no other.
LEMMA InsertRequestKeeps ==
    ASSUME AdminInv, NEW w \in Workers, InsertRequest(w)
    PROVE  AdminInv'
<1>w. ~Idle(w)
  BY DEF InsertRequest, Idle
<1>h. PICK h \in Locals : h = local[w]
  BY <1>w, AtWork
<1>x. PICK x \in Items : x = h.item
  BY <1>w, <1>h, AtWork
<1>1. /\ pc[w] = "insert"
      /\ rows' = rows
  BY DEF InsertRequest
<1>2. /\ RowOK(rows[x]) /\ HandlerOK("insert", h, rows[x])
      /\ pending \subseteq ValidationRequests
      /\ clean \in BOOLEAN /\ faults \in Nat
      /\ local = [local EXCEPT ![w] = h]
      /\ rows = [rows EXCEPT ![x] = rows[x]]
  BY <1>1, <1>w, <1>h, <1>x, AtWork
<1>3. rows[x].status # "absent" /\ h.user \in Users
  BY <1>2, UsersByRole DEF HandlerOK
<1>4. PICK n \in 1..MaxIds : pending' = pending \cup {[id |-> n, of |-> x, by |-> h.user]}
  BY <1>h, <1>x DEF InsertRequest
<1> DEFINE q == [id |-> n, of |-> x, by |-> h.user]
<1>5. q \in ValidationRequests /\ q.of = x
  BY <1>3 DEF ValidationRequests
<1> HIDE DEF q
<1>6. pending' = pending \cup {q} /\ pending' \subseteq ValidationRequests
  BY <1>2, <1>4, <1>5 DEF q
<1>7. /\ \A y \in Items : y # x => OpenOf(y)' = OpenOf(y)
      /\ OpenOf(x)' = OpenOf(x) \cup {q}
  BY <1>5, <1>6 DEF OpenOf
<1>8. clean' = clean /\ faults' = faults
  BY DEF InsertRequest, Finish
<1>9. RowMoves(x, rows[x])
  BY <1>1, <1>2, <1>3, <1>6, <1>7, <1>8 DEF RowMoves
<1>10. CASE h.marks
  <2>1. pc' = [pc EXCEPT ![w] = "mark"] /\ local' = local
    BY <1>10, <1>h DEF InsertRequest, Goto
  <2>2. HandlerMoves(w, "mark", h) /\ "mark" \in Steps
    BY <1>2, <2>1 DEF HandlerMoves, Steps
  <2>3. HandlerOK("mark", h, rows[x])
    BY <1>2 DEF HandlerOK, Reviews, Approves
  <2>4. clean' /\ Fits(pc[w], h, rows[x], OpenOf(x)) => Fits("mark", h, rows[x], OpenOf(x)')
    <3>1. HAVE clean' /\ Fits(pc[w], h, rows[x], OpenOf(x))
    <3>2. OpenOf(x) = {} /\ Sensible(Marked(rows[x], h))
      BY <1>1, <1>10, <3>1 DEF Fits
    <3>3. OpenOf(x)' = {q}
      BY <1>7, <3>2
    <3> QED BY <3>2, <3>3 DEF Fits
  <2>5. h.item = x
    BY <1>x
  <2> QED BY <1>w, <1>h, <1>x, <1>9, <2>2, <2>3, <2>4, <2>5, HandlerGoesOn
<1>11. CASE ~h.marks
  <2>1. HandlerMoves(w, "idle", NoCall)
    BY <1>11, <1>h DEF InsertRequest, Finish, HandlerMoves
  <2>2. clean' /\ Fits(pc[w], h, rows[x], OpenOf(x)) => Settles(rows[x], OpenOf(x)')
    <3>1. HAVE clean' /\ Fits(pc[w], h, rows[x], OpenOf(x))
    <3>2. OpenOf(x) = {} /\ Awaits(rows[x]) /\ Sensible(rows[x])
      BY <1>1, <1>11, <3>1 DEF Fits
    <3>3. OpenOf(x)' = {q}
      BY <1>7, <3>2
    <3> QED BY <3>2, <3>3 DEF Settles
  <2> QED BY <1>w, <1>h, <1>x, <1>9, <2>1, <2>2, HandlerEnds
<1> QED BY <1>10, <1>11

LEMMA MarkKeeps ==
    ASSUME AdminInv, NEW w \in Workers, Mark(w)
    PROVE  AdminInv'
<1>w. ~Idle(w)
  BY DEF Mark, Idle
<1>h. PICK h \in Locals : h = local[w]
  BY <1>w, AtWork
<1>x. PICK x \in Items : x = h.item
  BY <1>w, <1>h, AtWork
<1>1. /\ pc[w] = "mark"
      /\ rows' = [rows EXCEPT ![x].validation = "PENDING_VALIDATION",
                              ![x].action = h.action,
                              ![x].payload = h.payload]
      /\ HandlerMoves(w, "idle", NoCall)
      /\ clean' = clean /\ faults' = faults /\ pending' = pending
  BY <1>h, <1>x DEF Mark, Finish, HandlerMoves
<1>2. /\ RowOK(rows[x]) /\ HandlerOK("mark", h, rows[x])
      /\ pending' \subseteq ValidationRequests
      /\ clean' \in BOOLEAN /\ (clean' => clean) /\ faults' \in Nat
      /\ rows \in [Items -> Rows]
  BY <1>1, <1>w, <1>h, <1>x, AtWork
<1> DEFINE row == Marked(rows[x], h)
<1>3. rows' = [rows EXCEPT ![x] = row]
  BY <1>1, <1>2 DEF Marked
<1>4. RowOK(row) /\ row.kind = rows[x].kind /\ row.status # "absent"
  BY <1>2, MarkedRows
<1>5. row.validation = "PENDING_VALIDATION"
  BY <1>2, MarkedFields DEF RowOK
<1>6. \A y \in Items : OpenOf(y)' = OpenOf(y)
  BY <1>1 DEF OpenOf
<1>7. clean' /\ Fits(pc[w], h, rows[x], OpenOf(x)) => Settles(row, OpenOf(x)')
  <2>1. HAVE clean' /\ Fits(pc[w], h, rows[x], OpenOf(x))
  <2>2. /\ OpenOf(x) # {}
        /\ \A p, q \in OpenOf(x) : p = q
        /\ Sensible(row)
    BY <1>1, <2>1 DEF Fits
  <2>3. Awaits(row)
    BY <1>5 DEF Awaits
  <2>4. Settles(row, OpenOf(x))
    BY <2>2, <2>3 DEF Settles
  <2> QED BY <1>6, <2>4
<1> HIDE DEF row
<1>8. RowMoves(x, row)
  BY <1>2, <1>3, <1>4, <1>6 DEF RowMoves
<1> QED BY <1>w, <1>h, <1>x, <1>1, <1>7, <1>8, HandlerEnds

\* What a handler holds once it has found the request to close.
LEMMA RequestFields ==
    ASSUME NEW h \in Locals, NEW q \in ValidationRequests
    PROVE  /\ [h EXCEPT !.request = q] \in
                 [item : {h.item}, user : {h.user}, patch : {h.patch}, action : {h.action},
                  payload : {h.payload}, marks : {h.marks}, clears : {h.clears},
                  verdict : {h.verdict}, request : {q}]
           /\ [h EXCEPT !.request = q] \in Locals
  BY DEF Locals

LEMMA LookKeeps ==
    ASSUME AdminInv, NEW w \in Workers, Look(w)
    PROVE  AdminInv'
<1>w. ~Idle(w)
  BY DEF Look, Idle
<1>h. PICK h \in Locals : h = local[w]
  BY <1>w, AtWork
<1>x. PICK x \in Items : x = h.item
  BY <1>w, <1>h, AtWork
<1>1. pc[w] = "look"
  BY DEF Look
<1>2. /\ RowOK(rows[x]) /\ HandlerOK("look", h, rows[x])
      /\ pending \subseteq ValidationRequests
      /\ local \in [Workers -> Locals]
  BY <1>1, <1>w, <1>h, <1>x, AtWork
<1>3. rows[x].status # "absent"
  BY <1>2 DEF HandlerOK
<1>4. ASSUME Refuse(w)
      PROVE  AdminInv'
  <2>1. /\ rows' = rows /\ pending' = pending
        /\ HandlerMoves(w, "idle", NoCall)
        /\ clean' = clean /\ faults' = faults
    BY <1>4 DEF Refuse, Finish, HandlerMoves
  <2>2. RowMoves(x, rows[x]) /\ OpenOf(x)' = OpenOf(x)
    BY <1>3, <2>1, NothingMoves
  <2>3. clean' /\ Fits(pc[w], h, rows[x], OpenOf(x)) => Settles(rows[x], OpenOf(x)')
    BY <1>1, <2>2 DEF Fits
  <2> QED BY <1>w, <1>h, <1>x, <2>1, <2>2, <2>3, HandlerEnds
<1>5. ASSUME NEW q \in FindPendingFor(x), MayReview(h.user, q),
             Goto(w, "close"), local' = [local EXCEPT ![w].request = q],
             UNCHANGED <<rows, pending, clean, faults>>
      PROVE  AdminInv'
  <2>1. q \in OpenOf(x) /\ q \in ValidationRequests /\ q.of = x
    BY <1>2, <1>5 DEF FindPendingFor, OpenOf
  <2>2. q.by # h.user
    BY <1>5 DEF MayReview
  <2> DEFINE g == [h EXCEPT !.request = q]
  <2>3. /\ g \in Locals
        /\ g.item = x /\ g.user = h.user /\ g.patch = h.patch /\ g.action = h.action
        /\ g.payload = h.payload /\ g.verdict = h.verdict /\ g.request = q
    BY <1>x, <2>1, RequestFields
  <2>4. HandlerMoves(w, "close", g) /\ "close" \in Steps
    BY <1>2, <1>5, <1>h DEF HandlerMoves, Goto, Steps
  <2> HIDE DEF g
  <2>5. RowMoves(x, rows[x]) /\ OpenOf(x)' = OpenOf(x)
    BY <1>3, <1>5, NothingMoves
  <2>6. HandlerOK("close", g, rows[x])
    BY <1>2, <2>1, <2>2, <2>3 DEF HandlerOK, Reviews, Approves
  <2>7. clean' /\ Fits(pc[w], h, rows[x], OpenOf(x)) =>
           Fits("close", g, rows[x], OpenOf(x)')
    <3>1. HAVE clean' /\ Fits(pc[w], h, rows[x], OpenOf(x))
    <3>2. Settles(rows[x], OpenOf(x)) /\ Outcome(rows[x], h)
      BY <1>1, <3>1 DEF Fits
    <3>3. OpenOf(x) = {q}
      BY <2>1, <3>2 DEF Settles
    <3>4. Awaits(rows[x]) /\ Sensible(rows[x])
      BY <3>2, <3>3 DEF Settles
    <3>5. Outcome(rows[x], g)
      BY <2>3, <3>2 DEF Outcome
    <3> QED BY <2>3, <2>5, <3>3, <3>4, <3>5 DEF Fits
  <2>8. g.item = x
    BY <2>3
  <2> QED BY <1>w, <1>h, <1>x, <2>3, <2>4, <2>5, <2>6, <2>7, <2>8, HandlerGoesOn
<1> QED BY <1>4, <1>5, <1>h, <1>x DEF Look

LEMMA CloseKeeps ==
    ASSUME AdminInv, NEW w \in Workers, Close(w)
    PROVE  AdminInv'
<1>w. ~Idle(w)
  BY DEF Close, Idle
<1>h. PICK h \in Locals : h = local[w]
  BY <1>w, AtWork
<1>x. PICK x \in Items : x = h.item
  BY <1>w, <1>h, AtWork
<1>1. /\ pc[w] = "close"
      /\ pending' = pending \ {h.request}
      /\ pc' = [pc EXCEPT ![w] = "apply"]
      /\ rows' = rows /\ local' = local /\ clean' = clean /\ faults' = faults
  BY <1>h DEF Close, Goto
<1>2. /\ RowOK(rows[x]) /\ HandlerOK("close", h, rows[x])
      /\ pending \subseteq ValidationRequests
      /\ clean \in BOOLEAN /\ faults \in Nat
      /\ local = [local EXCEPT ![w] = h]
      /\ rows = [rows EXCEPT ![x] = rows[x]]
  BY <1>1, <1>w, <1>h, <1>x, AtWork
<1>3. rows[x].status # "absent" /\ h.request.of = x
  BY <1>2, <1>x DEF HandlerOK
<1>4. /\ \A y \in Items : y # x => OpenOf(y)' = OpenOf(y)
      /\ OpenOf(x)' = OpenOf(x) \ {h.request}
  BY <1>1, <1>3 DEF OpenOf
<1>5. RowMoves(x, rows[x])
  BY <1>1, <1>2, <1>3, <1>4 DEF RowMoves
<1>6. HandlerMoves(w, "apply", h) /\ "apply" \in Steps
  BY <1>1, <1>2 DEF HandlerMoves, Steps
<1>7. HandlerOK("apply", h, rows[x])
  BY <1>2 DEF HandlerOK, Reviews, Approves
<1>8. clean' /\ Fits(pc[w], h, rows[x], OpenOf(x)) => Fits("apply", h, rows[x], OpenOf(x)')
  <2>1. HAVE clean' /\ Fits(pc[w], h, rows[x], OpenOf(x))
  <2>2. /\ Awaits(rows[x]) /\ Sensible(rows[x])
        /\ OpenOf(x) = {h.request} /\ Outcome(rows[x], h)
    BY <1>1, <2>1 DEF Fits
  <2>3. OpenOf(x)' = {}
    BY <1>4, <2>2
  <2> QED BY <2>2, <2>3 DEF Fits
<1>9. h.item = x
  BY <1>x
<1> QED BY <1>w, <1>h, <1>x, <1>5, <1>6, <1>7, <1>8, <1>9, HandlerGoesOn

LEMMA ApplyKeeps ==
    ASSUME AdminInv, NEW w \in Workers, Apply(w)
    PROVE  AdminInv'
<1>w. ~Idle(w)
  BY DEF Apply, Idle
<1>h. PICK h \in Locals : h = local[w]
  BY <1>w, AtWork
<1>x. PICK x \in Items : x = h.item
  BY <1>w, <1>h, AtWork
<1>1. /\ pc[w] = "apply"
      /\ rows' = [rows EXCEPT ![x] = Applied(@, h)]
      /\ HandlerMoves(w, "idle", NoCall)
      /\ clean' = clean /\ faults' = faults /\ pending' = pending
  BY <1>h, <1>x DEF Apply, Finish, HandlerMoves
<1>2. /\ RowOK(rows[x]) /\ HandlerOK("apply", h, rows[x])
      /\ pending' \subseteq ValidationRequests
      /\ clean' \in BOOLEAN /\ (clean' => clean) /\ faults' \in Nat
      /\ rows \in [Items -> Rows]
  BY <1>1, <1>w, <1>h, <1>x, AtWork
<1> DEFINE row == Applied(rows[x], h)
<1>3. rows' = [rows EXCEPT ![x] = row]
  BY <1>1, <1>2
<1>4. /\ RowOK(row) /\ row.kind = rows[x].kind /\ row.status # "absent"
      /\ row.validation = h.verdict /\ h.verdict \in Verdicts
  BY <1>2, AppliedRows
<1>5. ~Awaits(row)
  BY <1>4 DEF Awaits, Verdicts
<1>6. \A y \in Items : OpenOf(y)' = OpenOf(y)
  BY <1>1 DEF OpenOf
<1>7. clean' /\ Fits(pc[w], h, rows[x], OpenOf(x)) => Settles(row, OpenOf(x)')
  <2>1. HAVE clean' /\ Fits(pc[w], h, rows[x], OpenOf(x))
  <2>2. OpenOf(x) = {}
    BY <1>1, <2>1 DEF Fits
  <2>3. Settles(row, OpenOf(x))
    BY <1>5, <2>2 DEF Settles
  <2> QED BY <1>6, <2>3
<1> HIDE DEF row
<1>8. RowMoves(x, row)
  BY <1>2, <1>3, <1>4, <1>6 DEF RowMoves
<1> QED BY <1>w, <1>h, <1>x, <1>1, <1>7, <1>8, HandlerEnds

\* A handler that dies leaves what it has written, and no clean behaviour.
LEMMA FailKeeps ==
    ASSUME AdminInv, NEW w \in Workers, Fail(w)
    PROVE  AdminInv'
<1>w. ~Idle(w)
  BY DEF Fail, Idle, Steps
<1>h. PICK h \in Locals : h = local[w]
  BY <1>w, AtWork
<1>x. PICK x \in Items : x = h.item
  BY <1>w, <1>h, AtWork
<1>1. /\ rows' = rows /\ pending' = pending
      /\ HandlerMoves(w, "idle", NoCall)
      /\ clean' = FALSE /\ faults' = faults + 1
  BY DEF Fail, HandlerMoves
<1>2. /\ RowOK(rows[x]) /\ HandlerOK(pc[w], h, rows[x]) /\ faults \in Nat
      /\ pending \subseteq ValidationRequests
      /\ rows = [rows EXCEPT ![x] = rows[x]]
  BY <1>w, <1>h, <1>x, AtWork
<1>3. \A y \in Items : OpenOf(y)' = OpenOf(y)
  BY <1>1 DEF OpenOf
<1>4. faults' \in Nat
  BY <1>1, <1>2
<1>5. clean' \in BOOLEAN /\ ~clean'
  BY <1>1
<1> PICK step \in Steps \cup {"idle"} : step = "idle"
  OBVIOUS
<1> PICK g \in Locals : g = NoCall
  BY NoCallFields
<1> PICK row : row = rows[x]
  OBVIOUS
<1>6. /\ x = local[w].item
      /\ pc' = [pc EXCEPT ![w] = step]
      /\ local' = [local EXCEPT ![w] = g]
  BY <1>h, <1>x, <1>1 DEF HandlerMoves
<1>7. /\ rows' = [rows EXCEPT ![x] = row]
      /\ RowOK(row)
      /\ row.kind = rows[x].kind
      /\ row.status # "absent" \/ row = rows[x]
      /\ pending' \subseteq ValidationRequests
      /\ \A y \in Items : y # x => OpenOf(y)' = OpenOf(y)
  BY <1>1, <1>2, <1>3
<1>8. step # "idle" => g.item = x /\ HandlerOK(step, g, row)
  OBVIOUS
<1>9. clean' /\ Fits(pc[w], local[w], rows[x], OpenOf(x)) =>
         IF step = "idle"
         THEN Settles(row, OpenOf(x)')
         ELSE Fits(step, g, row, OpenOf(x)')
  BY <1>5
<1>10. clean' => clean
  BY <1>5
<1> QED BY <1>w, <1>4, <1>5, <1>6, <1>7, <1>8, <1>9, <1>10, HandlerTurn

LEMMA InitKeeps ==
    ASSUME Init
    PROVE  AdminInv
<1>1. PICK kinds \in Populations : rows = [x \in Items |-> Absent(kinds[x])]
  BY DEF Init
<1>2. kinds \in [Items -> Kinds]
  BY PopulationsAssumption
<1>3. \A x \in Items :
         /\ rows[x] \in Rows /\ rows[x].status = "absent"
         /\ rows[x].action = "none" /\ rows[x].validation = "none"
  <2> TAKE x \in Items
  <2>1. kinds[x] \in Kinds /\ rows[x] = Absent(kinds[x])
    BY <1>1, <1>2
  <2>2. "none" \in Classes /\ "none" \in Payloads /\ "none" \in AllActions
    BY DEF Classes, Payloads, AllActions
  <2> QED BY <2>1, <2>2 DEF Absent, Rows
<1>4. \A x \in Items : RowOK(rows[x])
  BY <1>3 DEF RowOK, Awaits
<1>5. /\ pending = {} /\ clean = TRUE /\ faults = 0
      /\ pc = [w \in Workers |-> "idle"]
      /\ local = [w \in Workers |-> NoCall]
      /\ \A w \in Workers : Idle(w)
  BY DEF Init, Idle
<1>6. AdminTypeOK
  <2>1. rows \in [Items -> Rows]
    BY <1>1, <1>3
  <2>2. local \in [Workers -> Locals]
    BY <1>5, NoCallFields
  <2> QED BY <1>4, <1>5, <2>1, <2>2 DEF AdminTypeOK
<1>7. HandlersInv
  BY <1>5 DEF HandlersInv
<1>8. SerialInv
  <2>1. \A x \in Items : Settles(rows[x], OpenOf(x))
    BY <1>3, <1>5 DEF Settles, Awaits, OpenOf
  <2> QED BY <1>5, <2>1 DEF SerialInv, Alone
<1> QED BY <1>6, <1>7, <1>8 DEF AdminInv

LEMMA NextKeeps ==
    ASSUME AdminInv, [Next]_vars
    PROVE  AdminInv'
<1>1. CASE Next
  <2>1. AdminTypeOK
    BY DEF AdminInv
  <2>2. PICK w \in Workers :
           \/ HandlerStep(w)
           \/ Fitting(w)
           \/ Placing(w)
           \/ \E x \in Items, user \in Submitters : CreateContract(w, x, user)
    BY <1>1, <2>1, EveryStep
  <2>3. CASE HandlerStep(w)
    BY <2>3, WriteKeeps, RecordKeeps, FindKeeps, InsertRequestKeeps, MarkKeeps,
       LookKeeps, CloseKeeps, ApplyKeeps, FailKeeps DEF HandlerStep
  <2>4. CASE Fitting(w)
    BY <2>4, BeginKeeps
  <2>5. CASE Placing(w)
    BY <2>5, PlacingKeeps
  <2>6. CASE \E x \in Items, user \in Submitters : CreateContract(w, x, user)
    BY <2>6, CreateContractKeeps
  <2> QED BY <2>2, <2>3, <2>4, <2>5, <2>6
<1>2. CASE UNCHANGED vars
  BY <1>2 DEF vars, AdminInv, AdminTypeOK, HandlersInv, SerialInv, Alone, Untouched,
              Idle, OpenOf
<1> QED BY <1>1, <1>2

\* The invariant of every behaviour, whatever overlaps and whatever dies.
THEOREM AdminInvariant == Spec => []AdminInv
<1>1. Init => AdminInv
  BY InitKeeps
<1>2. AdminInv /\ [Next]_vars => AdminInv'
  BY NextKeeps
<1> QED BY <1>1, <1>2, PTL DEF Spec

-----------------------------------------------------------------------------
(***************************************************************************)
(* What the registers promise.                                             *)
(***************************************************************************)

\* Whenever no handler is at work in a clean behaviour, a row says that it awaits a
\* validation exactly when it has an open request, and has no two: no statement
\* writes both tables, and no sequence of whole calls makes them disagree.
THEOREM RequestsAlwaysAgree == Spec => []RequestsAgree
<1>1. ASSUME AdminInv
      PROVE  RequestsAgree
  <2> SUFFICES ASSUME clean, Quiet, NEW x \in Items
               PROVE  /\ IsPending(x) <=> OpenOf(x) # {}
                      /\ \A p, q \in OpenOf(x) : p = q
    BY DEF RequestsAgree
  <2>1. Untouched(x)
    BY DEF Untouched, Quiet
  <2>2. Settles(rows[x], OpenOf(x))
    BY <1>1, <2>1 DEF AdminInv, SerialInv
  <2> QED BY <2>2 DEF Settles, Awaits, IsPending
<1> QED BY <1>1, AdminInvariant, PTL

\* Whenever no handler is at work in a clean behaviour, what was submitted for a row
\* that awaits its validation still makes sense: none of the operations that the
\* services accept on such a row takes away the condition it was submitted under,
\* but for the three doors that StillMakesSense names.
THEOREM PendingIsSensible == Spec => []PendingStaysSensible
<1>1. ASSUME AdminInv
      PROVE  PendingStaysSensible
  <2> SUFFICES ASSUME clean, Quiet, NEW x \in Items, IsPending(x)
               PROVE  StillMakesSense(rows[x])
    BY DEF PendingStaysSensible
  <2>1. Untouched(x)
    BY DEF Untouched, Quiet
  <2>2. Settles(rows[x], OpenOf(x))
    BY <1>1, <2>1 DEF AdminInv, SerialInv
  <2>3. Sensible(rows[x])
    BY <2>2 DEF Settles, Awaits, IsPending
  <2> QED BY <2>3 DEF Sensible
<1> QED BY <1>1, AdminInvariant, PTL

(***************************************************************************)
(* What the changes promise.  A step is careful with a row when it takes   *)
(* no decision, and leaves the archive alone in a clean behaviour; every   *)
(* step is careful with every row, but for an approval with the row it is  *)
(* about.                                                                  *)
(***************************************************************************)
Careful(old, new) ==
    /\ ~NeedsADecision(old, new)
    /\ clean => Keeps(old, new)

LEMMA CarefulChange ==
    ASSUME AdminTypeOK, NEW x \in Items, NEW row, rows' = [rows EXCEPT ![x] = row],
           Careful(rows[x], row)
    PROVE  \A y \in Items : Careful(rows[y], rows'[y])
<1>1. ASSUME NEW y \in Items
      PROVE  Careful(rows[y], rows'[y])
  <2>1. rows'[x] = row /\ (y # x => rows'[y] = rows[y])
    BY DEF AdminTypeOK
  <2>2. CASE y = x
    BY <2>1, <2>2
  <2>3. CASE y # x
    BY <2>1, <2>3, SameStatusKeeps DEF Careful, NeedsADecision
  <2> QED BY <2>2, <2>3
<1> QED BY <1>1

LEMMA NoChange ==
    ASSUME rows' = rows
    PROVE  \A y \in Items : Careful(rows[y], rows'[y])
  BY SameStatusKeeps DEF Careful, NeedsADecision

LEMMA WriteIsCareful ==
    ASSUME AdminInv, NEW w \in Workers, Write(w)
    PROVE  \A y \in Items : Careful(rows[y], rows'[y])
<1>w. ~Idle(w)
  BY DEF Write, Idle
<1>h. PICK h \in Locals : h = local[w]
  BY <1>w, AtWork
<1>x. PICK x \in Items : x = h.item
  BY <1>w, <1>h, AtWork
<1>1. pc[w] = "write" /\ rows' = [rows EXCEPT ![x] = Patched(@, h.patch)]
  BY <1>h, <1>x DEF Write
<1>2. /\ h.patch \in Patches
      /\ RowOK(rows[x]) /\ HandlerOK("write", h, rows[x])
      /\ rows \in [Items -> Rows]
  BY <1>1, <1>w, <1>h, <1>x, AtWork
<1> DEFINE old == rows[x]
           row == Patched(old, h.patch)
<1>3. rows' = [rows EXCEPT ![x] = row]
  BY <1>1, <1>2
<1>4. /\ row.kind = old.kind /\ row.validation = old.validation
      /\ row.status = IF h.patch.status = "keep" THEN old.status ELSE h.patch.status
  BY <1>2, PatchedFields DEF RowOK
<1>5. clean => Keeps(old, row)
  <2>1. HAVE clean
  <2>2. Fits("write", h, old, OpenOf(x))
    BY <1>1, <1>h, <1>x, <1>w, <2>1 DEF AdminInv, SerialInv
  <2> QED BY <2>2 DEF Fits
<1>6. old.kind \in DOMAIN DecidedStatuses => h.patch.status \notin DecidedStatuses[old.kind]
  BY <1>2 DEF HandlerOK, Approves, Reviews
<1> HIDE DEF row
<1>7. Careful(old, row)
  BY <1>4, <1>5, <1>6 DEF Careful, NeedsADecision
<1> QED BY <1>3, <1>7, CarefulChange DEF AdminInv

LEMMA RecordIsCareful ==
    ASSUME AdminInv, NEW w \in Workers, Record(w)
    PROVE  \A y \in Items : Careful(rows[y], rows'[y])
<1>w. ~Idle(w)
  BY DEF Record, Idle
<1>h. PICK h \in Locals : h = local[w]
  BY <1>w, AtWork
<1>x. PICK x \in Items : x = h.item
  BY <1>w, <1>h, AtWork
<1>1. /\ pc[w] = "record"
      /\ rows' = [rows EXCEPT ![x] =
            [Patched(@, h.patch) EXCEPT !.validation = "PENDING_VALIDATION",
                                        !.action = h.action]]
  BY <1>h, <1>x DEF Record
<1>2. /\ RowOK(rows[x]) /\ HandlerOK("record", h, rows[x])
      /\ rows \in [Items -> Rows]
  BY <1>1, <1>w, <1>h, <1>x, AtWork
<1> DEFINE old == rows[x]
           row == Recorded(old, h)
<1>3. rows' = [rows EXCEPT ![x] = row]
  BY <1>1, <1>2 DEF Recorded
<1>4. /\ row.kind = old.kind /\ row.validation = "PENDING_VALIDATION"
      /\ row.status = IF h.patch.status = "keep" THEN old.status ELSE h.patch.status
  BY <1>2, RecordedFields DEF RowOK
<1>5. clean => Keeps(old, row)
  <2>1. HAVE clean
  <2>2. Fits("record", h, old, OpenOf(x))
    BY <1>1, <1>h, <1>x, <1>w, <2>1 DEF AdminInv, SerialInv
  <2> QED BY <2>2 DEF Fits
<1>6. old.kind \in DOMAIN DecidedStatuses => h.patch.status \notin DecidedStatuses[old.kind]
  BY <1>2 DEF HandlerOK, Approves, Reviews
<1> HIDE DEF row
<1>7. Careful(old, row)
  BY <1>4, <1>5, <1>6 DEF Careful, NeedsADecision
<1> QED BY <1>3, <1>7, CarefulChange DEF AdminInv

LEMMA MarkIsCareful ==
    ASSUME AdminInv, NEW w \in Workers, Mark(w)
    PROVE  \A y \in Items : Careful(rows[y], rows'[y])
<1>w. ~Idle(w)
  BY DEF Mark, Idle
<1>h. PICK h \in Locals : h = local[w]
  BY <1>w, AtWork
<1>x. PICK x \in Items : x = h.item
  BY <1>w, <1>h, AtWork
<1>1. rows' = [rows EXCEPT ![x].validation = "PENDING_VALIDATION",
                           ![x].action = h.action,
                           ![x].payload = h.payload]
  BY <1>h, <1>x DEF Mark
<1>2. RowOK(rows[x]) /\ rows \in [Items -> Rows]
  BY <1>w, <1>h, <1>x, AtWork
<1> DEFINE old == rows[x]
           row == Marked(old, h)
<1>3. rows' = [rows EXCEPT ![x] = row]
  BY <1>1, <1>2 DEF Marked
<1>4. row.status = old.status /\ row.validation = "PENDING_VALIDATION"
  BY <1>2, MarkedFields DEF RowOK
<1> HIDE DEF row
<1>5. Careful(old, row)
  BY <1>4, SameStatusKeeps DEF Careful, NeedsADecision
<1> QED BY <1>3, <1>5, CarefulChange DEF AdminInv

LEMMA CreationIsCareful ==
    ASSUME AdminInv, NEW w \in Workers,
           Placing(w) \/ \E x \in Items, user \in Submitters : CreateContract(w, x, user)
    PROVE  \A y \in Items : Careful(rows[y], rows'[y])
<1>1. rows \in [Items -> Rows] /\ \A x \in Items : RowOK(rows[x])
  BY DEF AdminInv, AdminTypeOK
<1>2. ASSUME NEW x \in Items, NEW patch \in Patches, MayPlace(rows[x], patch),
             Insert(w, x, patch)
      PROVE  \A y \in Items : Careful(rows[y], rows'[y])
  <2> DEFINE old == rows[x]
             row == Patched(old, patch)
  <2>1. rows' = [rows EXCEPT ![x] = row] /\ old.status = "absent"
    BY <1>1, <1>2 DEF Insert, Exists
  <2>2. /\ row.kind = old.kind /\ row.validation = old.validation
        /\ row.status = IF patch.status = "keep" THEN old.status ELSE patch.status
    BY <1>1, PatchedFields
  <2>3. /\ old.kind \in DOMAIN DecidedStatuses =>
              patch.status \notin DecidedStatuses[old.kind]
        /\ ~NeedsADecisionWhenRead(old, row)
    BY <1>2 DEF MayPlace
  <2> HIDE DEF row
  <2>4. Careful(old, row)
    BY <2>1, <2>2, <2>3 DEF Careful, NeedsADecision, Keeps
  <2> QED BY <2>1, <2>4, CarefulChange DEF AdminInv
<1>3. ASSUME NEW x \in Items, NEW user \in Submitters, CreateContract(w, x, user)
      PROVE  \A y \in Items : Careful(rows[y], rows'[y])
  <2> DEFINE old == rows[x]
             row == [old EXCEPT !.status = "BROUILLON",
                                !.validation = "PENDING_VALIDATION",
                                !.action = "CREATION"]
  <2>1. rows' = [rows EXCEPT ![x].status = "BROUILLON",
                             ![x].validation = "PENDING_VALIDATION",
                             ![x].action = "CREATION"]
        /\ old.kind = Contract /\ old.status = "absent"
    BY <1>3 DEF CreateContract, IsNew, Exists
  <2>2. rows' = [rows EXCEPT ![x] = row]
    BY <1>1, <2>1
  <2>3. row.kind = Contract /\ row.status = "BROUILLON"
        /\ row.validation = "PENDING_VALIDATION"
    BY <1>1, <2>1, ContractRowFields
  <2> HIDE DEF row
  <2>4. ~NeedsADecision(old, row)
    BY <2>3 DEF NeedsADecision, DecidedStatuses, Contract
  <2>5. Keeps(old, row)
    BY <2>1, <2>3 DEF Keeps, NeedsADecisionWhenRead, Contract
  <2>6. Careful(old, row)
    BY <2>4, <2>5 DEF Careful
  <2> QED BY <2>2, <2>6, CarefulChange DEF AdminInv
<1> QED BY <1>2, <1>3 DEF Placing

\* The update that ends a review is careful, or the approval by another of a row that
\* was submitted; what awaits a decision in a clean behaviour is not archived.
LEMMA ApplyDecides ==
    ASSUME AdminInv, NEW w \in Workers, Apply(w), NEW y \in Items
    PROVE  \/ Careful(rows[y], rows'[y])
           \/ /\ DecidedByAnother(y)
              /\ clean /\ rows[y].kind # "SUPPLIER_CONTRACT" =>
                    rows[y].status \notin {"ARCHIVE", "ARCHIVEE"}
<1>w. ~Idle(w)
  BY DEF Apply, Idle
<1>h. PICK h \in Locals : h = local[w]
  BY <1>w, AtWork
<1>x. PICK x \in Items : x = h.item
  BY <1>w, <1>h, AtWork
<1>1. pc[w] = "apply" /\ rows' = [rows EXCEPT ![x] = Applied(@, h)]
  BY <1>h, <1>x DEF Apply
<1>2. /\ RowOK(rows[x]) /\ HandlerOK("apply", h, rows[x])
      /\ h.patch \in Patches
      /\ rows \in [Items -> Rows]
  BY <1>1, <1>w, <1>h, <1>x, AtWork
<1> DEFINE old == rows[x]
           row == Applied(old, h)
<1>3. rows' = [rows EXCEPT ![x] = row]
  BY <1>1, <1>2
<1>4. clean => Awaits(old) /\ Sensible(old) /\ Outcome(old, h)
  <2>1. HAVE clean
  <2>2. Fits("apply", h, old, OpenOf(x))
    BY <1>1, <1>h, <1>x, <1>w, <2>1 DEF AdminInv, SerialInv
  <2> QED BY <2>2 DEF Fits
<1>5. CASE h.verdict # "APPROVED"
  <2>1. /\ row.kind = old.kind /\ row.status = Patched(old, h.patch).status
        /\ row.validation = h.verdict
    BY <1>2, AppliedRows
  <2>2. /\ Patched(old, h.patch).kind = old.kind
        /\ Patched(old, h.patch).status =
              IF h.patch.status = "keep" THEN old.status ELSE h.patch.status
    BY <1>2, PatchedFields DEF RowOK
  <2>3. old.kind \in DOMAIN DecidedStatuses =>
           h.patch.status \notin DecidedStatuses[old.kind]
    BY <1>2, <1>5 DEF HandlerOK, Approves
  <2>4. clean => Keeps(old, row)
    <3>1. HAVE clean
    <3>2. Keeps(old, Patched(old, h.patch))
      BY <1>4, <1>5, <3>1 DEF Outcome
    <3>3. row.kind = Patched(old, h.patch).kind
      BY <2>1, <2>2
    <3> HIDE DEF row
    <3> QED BY <2>1, <3>2, <3>3, KeepsByColumns
  <2> HIDE DEF row
  <2>5. Careful(old, row)
    BY <1>5, <2>1, <2>2, <2>3, <2>4 DEF Careful, NeedsADecision
  <2> QED BY <1>3, <2>5, CarefulChange DEF AdminInv
<1>6. CASE h.verdict = "APPROVED"
  <2>1. CASE y = x
    <3>1. h.request.of = h.item /\ h.request.by # h.user
      BY <1>2 DEF HandlerOK
    <3>2. DecidedByAnother(y)
      BY <1>1, <1>6, <1>h, <1>x, <2>1, <3>1 DEF DecidedByAnother
    <3>3. clean /\ old.kind # "SUPPLIER_CONTRACT" =>
             old.status \notin {"ARCHIVE", "ARCHIVEE"}
      BY <1>2, <1>4, SensibleIsNotArchived
    <3> QED BY <2>1, <3>2, <3>3
  <2>2. CASE y # x
    <3>1. rows'[y] = rows[y]
      BY <1>2, <1>3, <2>2
    <3> QED BY <3>1, SameStatusKeeps DEF Careful, NeedsADecision
  <2> QED BY <2>1, <2>2
<1> QED BY <1>5, <1>6

LEMMA EveryStepIsCareful ==
    ASSUME AdminInv, [Next]_vars, NEW y \in Items
    PROVE  \/ Careful(rows[y], rows'[y])
           \/ /\ DecidedByAnother(y)
              /\ clean /\ rows[y].kind # "SUPPLIER_CONTRACT" =>
                    rows[y].status \notin {"ARCHIVE", "ARCHIVEE"}
<1>1. CASE Next
  <2>1. AdminTypeOK
    BY DEF AdminInv
  <2>2. PICK w \in Workers :
           \/ HandlerStep(w)
           \/ Fitting(w)
           \/ Placing(w)
           \/ \E x \in Items, user \in Submitters : CreateContract(w, x, user)
    BY <1>1, <2>1, EveryStep
  <2>3. CASE HandlerStep(w)
    <3>1. CASE Write(w)
      BY <3>1, WriteIsCareful
    <3>2. CASE Record(w)
      BY <3>2, RecordIsCareful
    <3>3. CASE Mark(w)
      BY <3>3, MarkIsCareful
    <3>4. CASE Apply(w)
      BY <3>4, ApplyDecides
    <3>5. CASE Find(w) \/ InsertRequest(w) \/ Look(w) \/ Close(w) \/ Fail(w)
      <4>1. rows' = rows
        BY <3>5 DEF Find, InsertRequest, Look, Close, Fail, Refuse
      <4> QED BY <4>1, NoChange
    <3> QED BY <2>3, <3>1, <3>2, <3>3, <3>4, <3>5 DEF HandlerStep
  <2>4. CASE Fitting(w)
    <3>1. rows' = rows
      BY <2>4 DEF Fitting, Begin
    <3> QED BY <3>1, NoChange
  <2>5. CASE Placing(w) \/ \E x \in Items, user \in Submitters : CreateContract(w, x, user)
    BY <2>5, CreationIsCareful
  <2> QED BY <2>2, <2>3, <2>4, <2>5
<1>2. CASE UNCHANGED vars
  BY <1>2, NoChange DEF vars
<1> QED BY <1>1, <1>2

\* No step activates or terminates a contract, submits or finalises a procedure,
\* disposes of an asset or archives it, or marks a row as approved, but the update
\* that ends the review, by somebody else, of a request of that row: whatever the
\* handlers overlap with and wherever they die.  In a clean behaviour no step makes
\* the changes that are to be decided when the row says so either.
THEOREM ChangesAreDecided == Spec => SensitiveChangesAreDecided
<1>1. ASSUME AdminInv, [Next]_vars
      PROVE  [\A x \in Items :
                 \/ NeedsADecision(rows[x], rows'[x])
                 \/ clean /\ NeedsADecisionWhenRead(rows[x], rows'[x])
                 => DecidedByAnother(x)]_vars
  <2> SUFFICES ASSUME NEW x \in Items,
                      \/ NeedsADecision(rows[x], rows'[x])
                      \/ clean /\ NeedsADecisionWhenRead(rows[x], rows'[x])
               PROVE  DecidedByAnother(x)
    OBVIOUS
  <2> QED BY <1>1, EveryStepIsCareful DEF Careful, Keeps
<1> QED BY <1>1, AdminInvariant, PTL DEF Spec, SensitiveChangesAreDecided

\* Nothing but a contract comes back from the archive in a clean behaviour: no update
\* writes a status on an archived row, and an approval finds none, because no archive
\* is accepted while a validation is pending nor a validation asked for afterwards.
THEOREM ArchiveIsFinal == Spec => ArchivedStaysArchived
<1>1. ASSUME AdminInv, [Next]_vars
      PROVE  [\A x \in Items :
                 /\ clean
                 /\ rows[x].status \in {"ARCHIVE", "ARCHIVEE"}
                 /\ rows[x].kind # "SUPPLIER_CONTRACT"
                 => rows'[x].status = rows[x].status]_vars
  <2> SUFFICES ASSUME NEW x \in Items, clean,
                      rows[x].status \in {"ARCHIVE", "ARCHIVEE"},
                      rows[x].kind # "SUPPLIER_CONTRACT"
               PROVE  rows'[x].status = rows[x].status
    OBVIOUS
  <2> QED BY <1>1, EveryStepIsCareful DEF Careful, Keeps
<1> QED BY <1>1, AdminInvariant, PTL DEF Spec, ArchivedStaysArchived

-----------------------------------------------------------------------------
(***************************************************************************)
(* What the pages offer.  A window shows a row it has just read, so        *)
(* between two handlers of a clean behaviour what it offers rests on the   *)
(* two tables being settled, and on whoever submitted a request not being  *)
(* among those who may decide it.                                          *)
(***************************************************************************)
SubmittersInv == \A q \in pending : q.by \in Submitters

LEMMA SubmittersStay ==
    ASSUME AdminInv, SubmittersInv, [Next]_vars
    PROVE  SubmittersInv'
<1>1. ASSUME pending' \subseteq pending
      PROVE  SubmittersInv'
  BY <1>1 DEF SubmittersInv
<1>2. CASE Next
  <2>1. PICK w \in Workers :
           \/ HandlerStep(w)
           \/ Fitting(w)
           \/ Placing(w)
           \/ \E x \in Items, user \in Submitters : CreateContract(w, x, user)
    BY <1>2, EveryStep DEF AdminInv
  <2>2. CASE InsertRequest(w)
    <3>1. pc[w] = "insert"
      BY <2>2 DEF InsertRequest
    <3>2. ~Idle(w)
      BY <3>1 DEF Idle
    <3>3. HandlerOK("insert", local[w], rows[local[w].item])
      BY <3>1, <3>2, AtWork
    <3>4. local[w].user \in Submitters
      BY <3>3 DEF HandlerOK
    <3>5. PICK n \in 1..MaxIds :
             pending' = pending \cup {[id |-> n, of |-> local[w].item, by |-> local[w].user]}
      BY <2>2 DEF InsertRequest
    <3> QED BY <3>4, <3>5 DEF SubmittersInv
  <2>3. CASE HandlerStep(w) /\ ~InsertRequest(w)
    <3>1. pending' \subseteq pending
      BY <2>3 DEF HandlerStep, Write, Record, Find, Mark, Look, Close, Apply, Fail, Refuse
    <3> QED BY <1>1, <3>1
  <2>4. CASE Fitting(w) \/ Placing(w)
    <3>1. pending' = pending
      BY <2>4 DEF Fitting, Begin, Placing, Insert
    <3> QED BY <1>1, <3>1
  <2>5. ASSUME NEW x \in Items, NEW user \in Submitters, CreateContract(w, x, user)
        PROVE  SubmittersInv'
    <3>1. PICK n \in 1..MaxIds : pending' = pending \cup {[id |-> n, of |-> x, by |-> user]}
      BY <2>5 DEF CreateContract
    <3> QED BY <3>1 DEF SubmittersInv
  <2> QED BY <2>1, <2>2, <2>3, <2>4, <2>5
<1>3. CASE UNCHANGED vars
  BY <1>1, <1>3 DEF vars
<1> QED BY <1>2, <1>3

\* What a page may assume of a row it has just read.
LEMMA JustRead ==
    ASSUME AdminInv, clean, Quiet, NEW x \in Items
    PROVE  /\ RowOK(rows[x])
           /\ Settles(rows[x], OpenOf(x))
           /\ OpenOf(x) \subseteq ValidationRequests
<1>1. Untouched(x)
  BY DEF Untouched, Quiet
<1> QED BY <1>1 DEF AdminInv, AdminTypeOK, SerialInv, OpenOf

\* A row that awaits nothing may be submitted.
LEMMA NothingIsOpen ==
    ASSUME AdminInv, clean, Quiet, NEW x \in Items, Unreviewed(x)
    PROVE  CreateAccepts(x)
<1>1. OpenOf(x) = {}
  BY JustRead DEF Settles, Awaits, Unreviewed
<1> QED BY <1>1 DEF CreateAccepts, FindPendingFor

\* The latest open request is the only one, and of somebody who does not decide.
LEMMA OneIsOpen ==
    ASSUME AdminInv, SubmittersInv, clean, Quiet, NEW x \in Items, OpenOf(x) # {},
           NEW user \in Supervisors
    PROVE  ReviewAccepts(x, user) /\ Awaits(rows[x]) /\ Exists(x)
<1>1. /\ \A p, q \in OpenOf(x) : p = q
      /\ Awaits(rows[x])
  BY JustRead DEF Settles
<1>2. PICK q \in OpenOf(x) : TRUE
  OBVIOUS
<1>3. q.id \in Nat /\ q \in pending
  <2>1. q \in ValidationRequests
    BY <1>2, JustRead
  <2> QED BY <1>2, <2>1 DEF ValidationRequests, OpenOf
<1>4. \A p \in OpenOf(x) : p.id <= q.id
  <2> TAKE p \in OpenOf(x)
  <2>1. p = q
    BY <1>1, <1>2
  <2> QED BY <1>3, <2>1
<1>5. q \in FindPendingFor(x)
  BY <1>2, <1>4 DEF FindPendingFor
<1>6. MayReview(user, q)
  BY <1>3, UsersByRole DEF SubmittersInv, MayReview
<1>7. rows[x].status # "absent"
  BY <1>1, JustRead DEF RowOK, Awaits
<1> QED BY <1>1, <1>5, <1>6, <1>7 DEF ReviewAccepts, Exists

LEMMA ContractOffers ==
    ASSUME AdminInv, clean, Quiet, NEW x \in Items, Is(Contract, x), NEW user,
           NEW call \in ContractButtons(rows[x])
    PROVE  ContractAccepts(x, user, call)
<1> DEFINE row == rows[x]
<1>1. \/ call.button = "edit"
      \/ /\ Unreviewed(x)
         /\ \/ row.status = "BROUILLON" /\ call.button = "CREATION"
            \/ /\ row.status \notin {"BROUILLON", "ARCHIVE", "RESILIE"}
               /\ call.button \in {"RENEWAL", "TERMINATION", "archive"}
  BY DEF ContractButtons, PendingValidation, Unreviewed, When, Click, Calls
<1>2. CASE call.button \in {"edit", "archive"}
  BY <1>2 DEF ContractAccepts
<1>3. CASE call.button \notin {"edit", "archive"}
  <2>1. Unreviewed(x) /\ CreateAccepts(x)
    BY <1>1, <1>3, NothingIsOpen
  <2>2. ContractAllows(row, call.button)
    BY <1>1, <1>3 DEF ContractAllows
  <2>3. CanSubmitContract(x, call.button)
    BY <2>1, <2>2 DEF CanSubmitContract
  <2>4. call.button \notin {"edit", "archive", "approve", "reject", "request-changes"}
    BY <1>1, <1>3
  <2> QED BY <2>1, <2>3, <2>4 DEF ContractAccepts
<1> QED BY <1>2, <1>3

LEMMA ProcedureOffers ==
    ASSUME AdminInv, clean, Quiet, NEW x \in Items, Is(Procedure, x), NEW user,
           NEW call \in ProcedureButtons(rows[x])
    PROVE  ProcedureAccepts(x, user, call)
<1> DEFINE row == rows[x]
<1>1. \/ call.button = "edit" /\ call.input \in ProcedureFormStatuses(row)
      \/ /\ Unreviewed(x)
         /\ \/ /\ row.status \in {"A_PREPARER", "EN_COURS", "SOUMIS", "EN_ATTENTE_REPONSE"}
               /\ call.button = "submit"
            \/ /\ row.status # "ARCHIVE"
               /\ call.button \in {"RENEWAL", "ARCHIVE", "archive"}
  BY DEF ProcedureButtons, PendingValidation, Unreviewed, When, Click, Calls
<1>2. CASE call.button = "edit"
  <2>1. /\ call.input \in AllStatuses \cup {"keep"}
        /\ call.input # "keep" =>
              {row.status, call.input} \subseteq MANUALLY_SETTABLE_STATUSES
    BY <1>1, <1>2, ProcedureKind DEF ProcedureFormStatuses, MANUALLY_SETTABLE_STATUSES
  <2>2. SetStatus(call.input).status = call.input
    BY <2>1 DEF SetStatus, NoPatch
  <2>3. CanUpdateProcedure(x, SetStatus(call.input))
    BY <2>1, <2>2 DEF CanUpdateProcedure
  <2> QED BY <1>2, <2>3 DEF ProcedureAccepts
<1>3. CASE call.button = "archive"
  <2>1. CanArchiveProcedure(x)
    BY <1>1, <1>3 DEF CanArchiveProcedure
  <2> QED BY <1>3, <2>1 DEF ProcedureAccepts
<1>4. CASE call.button = "submit"
  <2>1. Unreviewed(x) /\ CreateAccepts(x)
    BY <1>1, <1>4, NothingIsOpen
  <2>2. ProcedureAllows(row, "SUBMISSION") \/ ProcedureAllows(row, "FINALIZATION")
    BY <1>1, <1>4 DEF ProcedureAllows
  <2>3. \E action \in {"SUBMISSION", "FINALIZATION"} : CanSubmitProcedure(x, action)
    BY <2>1, <2>2 DEF CanSubmitProcedure
  <2> QED BY <1>4, <2>1, <2>3 DEF ProcedureAccepts
<1>5. CASE call.button \in {"RENEWAL", "ARCHIVE"}
  <2>1. Unreviewed(x) /\ CreateAccepts(x)
    BY <1>1, <1>5, NothingIsOpen
  <2>2. ProcedureAllows(row, call.button)
    BY <1>1, <1>5 DEF ProcedureAllows
  <2>3. CanSubmitProcedure(x, call.button)
    BY <2>1, <2>2 DEF CanSubmitProcedure
  <2> QED BY <1>5, <2>1, <2>3 DEF ProcedureAccepts
<1> QED BY <1>1, <1>2, <1>3, <1>4, <1>5

LEMMA TicketOffers ==
    ASSUME AdminInv, clean, Quiet, NEW x \in Items, Is(Ticket, x), NEW user,
           NEW call \in TicketButtons(rows[x])
    PROVE  TicketAccepts(x, user, call)
<1> DEFINE row == rows[x]
<1>1. \/ call.button = "edit"
      \/ call.button = "submit" /\ Unreviewed(x)
      \/ call.button = "close" /\ row.class # "CRITIQUE"
  BY DEF TicketButtons, PendingValidation, Unreviewed, When, Click, Calls
<1>2. CASE call.button = "edit"
  <2>1. [NoPatch EXCEPT !.class = call.input].status = "keep"
    BY DEF NoPatch
  <2>2. CanUpdateTicket(x, [NoPatch EXCEPT !.class = call.input])
    BY <2>1 DEF CanUpdateTicket
  <2> QED BY <1>2, <2>2 DEF TicketAccepts
<1>3. CASE call.button = "submit"
  BY <1>1, <1>3, NothingIsOpen DEF TicketAccepts
<1>4. CASE call.button = "close"
  BY <1>1, <1>4 DEF TicketAccepts, CanCloseTicket
<1> QED BY <1>1, <1>2, <1>3, <1>4

LEMMA AssetOffers ==
    ASSUME AdminInv, clean, Quiet, NEW x \in Items, Is(Asset, x), NEW user,
           NEW call \in AssetButtons(rows[x])
    PROVE  AssetAccepts(x, user, call)
<1> DEFINE row == rows[x]
<1>1. /\ row.status # "ARCHIVE"
      /\ \/ call.button = "edit"
         \/ call.button \in {"assign", "transfer", "disposal", "archive"} /\ Unreviewed(x)
  BY DEF AssetButtons, PendingValidation, Unreviewed, When, Click, Calls
<1>2. CASE call.button = "edit"
  <2>1. [NoPatch EXCEPT !.class = call.input].status = "keep"
    BY DEF NoPatch
  <2>2. CanUpdateAsset(x, [NoPatch EXCEPT !.class = call.input])
    BY <2>1 DEF CanUpdateAsset
  <2> QED BY <1>2, <2>2 DEF AssetAccepts
<1>3. CASE call.button \in {"assign", "transfer", "disposal", "archive"}
  <2>1. CanHandleAsset(x)
    BY <1>1, <1>3 DEF CanHandleAsset
  <2>2. CreateAccepts(x)
    BY <1>1, <1>3, NothingIsOpen
  <2> QED BY <1>3, <2>1, <2>2 DEF AssetAccepts
<1> QED BY <1>1, <1>2, <1>3

LEMMA EntryOffers ==
    ASSUME AdminInv, clean, Quiet, NEW x \in Items, Is(Entry, x), NEW user,
           NEW call \in EntryButtons(rows[x])
    PROVE  EntryAccepts(x, user, call)
<1> DEFINE row == rows[x]
<1>1. /\ row.status # "ARCHIVEE"
      /\ \/ call.button = "edit"
         \/ /\ Unreviewed(x)
            /\ \/ row.status \in {"PREVUE", "REFUSEE"} /\ call.button = "check-in"
               \/ row.status = "PRESENT" /\ call.button = "check-out"
               \/ row.status = "PREVUE" /\ call.button \in {"cancel", "refuse"}
               \/ call.button = "archive"
  BY DEF EntryButtons, PendingValidation, Unreviewed, When, Click, Calls
<1>2. CASE call.button = "edit"
  BY <1>1, <1>2 DEF EntryAccepts, CanUpdateEntry
<1>3. CASE call.button # "edit"
  <2>1. Unreviewed(x) /\ CreateAccepts(x)
    BY <1>1, <1>3, NothingIsOpen
  <2>2. /\ call.button = "check-in" => CanCheckIn(x)
        /\ call.button = "check-out" => CanCheckOut(x)
        /\ call.button = "cancel" => CanCancelEntry(x)
        /\ call.button = "refuse" => CanRefuseEntry(x)
        /\ call.button = "archive" => CanArchiveEntry(x)
    BY <1>1, <1>3 DEF CanCheckIn, CanCheckOut, CanCancelEntry, CanRefuseEntry, CanArchiveEntry
  <2>3. call.button \in {"check-in", "check-out", "cancel", "refuse", "archive"}
    BY <1>1, <1>3
  <2> QED BY <2>1, <2>2, <2>3 DEF EntryAccepts
<1> QED BY <1>2, <1>3

LEMMA MovementOffers ==
    ASSUME AdminInv, clean, Quiet, NEW x \in Items, Is(Movement, x), NEW user,
           NEW call \in MovementButtons(rows[x])
    PROVE  MovementAccepts(x, user, call)
<1> DEFINE row == rows[x]
<1>1. /\ row.status # "ARCHIVE"
      /\ Unreviewed(x)
      /\ \/ row.status = "SORTI" /\ call.button = "return"
         \/ call.button = "archive"
  BY DEF MovementButtons, PendingValidation, Unreviewed, When, Click, Calls
<1>2. CreateAccepts(x)
  BY <1>1, NothingIsOpen
<1>3. CASE call.button = "return"
  BY <1>1, <1>3 DEF MovementAccepts, CanRecordReturn
<1>4. CASE call.button = "archive"
  BY <1>1, <1>2, <1>4 DEF MovementAccepts, CanArchiveMovement
<1> QED BY <1>1, <1>3, <1>4

\* The decisions, from a window or from the list of the pending validations.
LEMMA DecisionOffers ==
    ASSUME AdminInv, SubmittersInv, clean, Quiet, NEW x \in Items,
           NEW user \in Supervisors, NEW call \in Offered(x, user)
    PROVE  Accepted(x, user, call)
<1> DEFINE row == rows[x]
<1>1. user \notin Directors
  BY RolesAssumption
<1>2. /\ row.kind \in GENERIC_DECIDERS
      /\ Awaits(row) \/ OpenOf(x) # {}
      /\ call.button \in {"approve", "reject", "request-changes"}
  BY <1>1 DEF Offered, Decisions, ListedDecisions, PendingValidation, Awaits, When, Click, Calls
<1>3. OpenOf(x) # {}
  BY <1>2, JustRead DEF Settles
<1>4. ReviewAccepts(x, user) /\ Awaits(row) /\ Exists(x)
  BY <1>3, OneIsOpen
<1>5. Named(row.kind, row.action)
  BY <1>4, JustRead DEF RowOK
<1>6. CASE row.kind = "SUPPLIER_CONTRACT"
  BY <1>2, <1>4, <1>6 DEF Accepted, ContractAccepts, Is, Contract
<1>7. CASE row.kind = "ADMINISTRATIVE_PROCEDURE"
  BY <1>2, <1>4, <1>7 DEF Accepted, ProcedureAccepts, Is, Procedure
<1>8. CASE row.kind = "MAINTENANCE_TICKET"
  BY <1>2, <1>4, <1>8 DEF Accepted, TicketAccepts, Is, Ticket
<1>9. CASE row.kind = "INVENTORY_ASSET"
  BY <1>2, <1>4, <1>5, <1>9 DEF Accepted, AssetAccepts, CanApproveAsset, Is, Asset, Named
<1>10. CASE row.kind = "ENTRY_LOG"
  BY <1>2, <1>4, <1>5, <1>10 DEF Accepted, EntryAccepts, CanApproveEntry, Is, Entry, Named
<1>11. CASE row.kind = "GOODS_MOVEMENT_LOG"
  BY <1>2, <1>4, <1>5, <1>11
     DEF Accepted, MovementAccepts, CanApproveMovement, Is, Movement, Named
<1> QED BY <1>2, <1>6, <1>7, <1>8, <1>9, <1>10, <1>11 DEF GENERIC_DECIDERS

LEMMA DirectorOffers ==
    ASSUME AdminInv, clean, Quiet, NEW x \in Items, Exists(x),
           NEW user \in Directors, NEW call \in Offered(x, user)
    PROVE  Accepted(x, user, call)
<1> DEFINE row == rows[x]
<1>1. CASE row.kind = "SUPPLIER_CONTRACT"
  <2>1. Is(Contract, x) /\ call \in ContractButtons(row)
    BY <1>1 DEF Offered, Is, Contract
  <2> QED BY <1>1, <2>1, ContractOffers DEF Accepted
<1>2. CASE row.kind = "ADMINISTRATIVE_PROCEDURE"
  <2>1. Is(Procedure, x) /\ call \in ProcedureButtons(row)
    BY <1>2 DEF Offered, Is, Procedure
  <2> QED BY <1>2, <2>1, ProcedureOffers DEF Accepted
<1>3. CASE row.kind = "MAINTENANCE_TICKET"
  <2>1. Is(Ticket, x) /\ call \in TicketButtons(row)
    BY <1>3 DEF Offered, Is, Ticket
  <2> QED BY <1>3, <2>1, TicketOffers DEF Accepted
<1>4. CASE row.kind = "INVENTORY_ASSET"
  <2>1. Is(Asset, x) /\ call \in AssetButtons(row)
    BY <1>4 DEF Offered, Is, Asset
  <2> QED BY <1>4, <2>1, AssetOffers DEF Accepted
<1>5. CASE row.kind = "ENTRY_LOG"
  <2>1. Is(Entry, x) /\ call \in EntryButtons(row)
    BY <1>5 DEF Offered, Is, Entry
  <2> QED BY <1>5, <2>1, EntryOffers DEF Accepted
<1>6. CASE row.kind = "GOODS_MOVEMENT_LOG"
  <2>1. Is(Movement, x) /\ call \in MovementButtons(row)
    BY <1>6 DEF Offered, Is, Movement
  <2> QED BY <1>6, <2>1, MovementOffers DEF Accepted
<1>7. \/ row.kind = "SUPPLIER_CONTRACT"
      \/ row.kind = "ADMINISTRATIVE_PROCEDURE"
      \/ row.kind = "MAINTENANCE_TICKET"
      \/ row.kind = "INVENTORY_ASSET"
      \/ row.kind = "ENTRY_LOG"
      \/ row.kind = "GOODS_MOVEMENT_LOG"
  BY DEF Offered
<1> QED BY <1>1, <1>2, <1>3, <1>4, <1>5, <1>6, <1>7

\* Whenever no handler is at work in a clean behaviour, every button that a window or
\* the list of the pending validations shows for a row just read, with whatever its
\* form may send, is a call that the service accepts: the conditions written in the
\* pages imply those of the services, submissions find no open request and decisions
\* find one of somebody else.
THEOREM OffersAreAccepted == Spec => []OfferedIsAccepted
<1>1. Init => SubmittersInv
  BY DEF Init, SubmittersInv
<1>2. AdminInv /\ SubmittersInv /\ [Next]_vars => SubmittersInv'
  BY SubmittersStay
<1>3. AdminInv /\ SubmittersInv => OfferedIsAccepted
  BY DecisionOffers, DirectorOffers DEF OfferedIsAccepted
<1> QED BY <1>1, <1>2, <1>3, AdminInvariant, PTL DEF Spec
=============================================================================
