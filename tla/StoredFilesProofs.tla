---------------------------- MODULE StoredFilesProofs ----------------------------
(***************************************************************************)
(* What StoredFiles guarantees for any rows, any number of files and any   *)
(* number of handlers that overlap or die.                                 *)
(***************************************************************************)
EXTENDS StoredFiles, TLAPS

(***************************************************************************)
(* Plans: the steps an operation begins with, and those it may have left.  *)
(* The provers know them by the facts of PlanFacts.                        *)
(***************************************************************************)
DeleteUploadWrite == <<"delete", "upload", "write">>
UploadWriteCleanUp == <<"upload", "write", "clean-up">>
UploadWrite == <<"upload", "write">>
WriteCleanUp == <<"write", "clean-up">>
DeleteUnname == <<"delete", "unname">>
DeleteDrop == <<"delete", "drop">>
DropCleanUp == <<"drop", "clean-up">>
JustWrite == <<"write">>
JustCleanUp == <<"clean-up">>
JustUnname == <<"unname">>
JustDrop == <<"drop">>

\* One of the plans of the slots, with the steps left of it.
OnPlan(full, left) ==
    \/ full = UploadWrite /\ left \in {UploadWrite, JustWrite}
    \/ full = DeleteUploadWrite /\ left \in {DeleteUploadWrite, UploadWrite, JustWrite}
    \/ full = UploadWriteCleanUp /\ left \in {UploadWriteCleanUp, WriteCleanUp, JustCleanUp}
    \/ full = DeleteUnname /\ left \in {DeleteUnname, JustUnname}
    \/ full = DeleteDrop /\ left \in {DeleteDrop, JustDrop}
    \/ full = JustDrop /\ left = JustDrop
    \/ full = DropCleanUp /\ left \in {DropCleanUp, JustCleanUp}

\* The last step of a plan.
IsLast(left) == Len(left) = 1

LEMMA PlanFacts ==
    /\ Head(DeleteUploadWrite) = "delete" /\ Tail(DeleteUploadWrite) = UploadWrite
    /\ Head(UploadWriteCleanUp) = "upload" /\ Tail(UploadWriteCleanUp) = WriteCleanUp
    /\ Head(UploadWrite) = "upload" /\ Tail(UploadWrite) = JustWrite
    /\ Head(WriteCleanUp) = "write" /\ Tail(WriteCleanUp) = JustCleanUp
    /\ Head(DeleteUnname) = "delete" /\ Tail(DeleteUnname) = JustUnname
    /\ Head(DeleteDrop) = "delete" /\ Tail(DeleteDrop) = JustDrop
    /\ Head(DropCleanUp) = "drop" /\ Tail(DropCleanUp) = JustCleanUp
    /\ Head(JustWrite) = "write" /\ Tail(JustWrite) = <<>>
    /\ Head(JustCleanUp) = "clean-up" /\ Tail(JustCleanUp) = <<>>
    /\ Head(JustUnname) = "unname" /\ Tail(JustUnname) = <<>>
    /\ Head(JustDrop) = "drop" /\ Tail(JustDrop) = <<>>
  BY DEF DeleteUploadWrite, UploadWriteCleanUp, UploadWrite, WriteCleanUp, DeleteUnname,
         DeleteDrop, DropCleanUp, JustWrite, JustCleanUp, JustUnname, JustDrop

LEMMA PlanLengths ==
    /\ \A s \in {JustWrite, JustCleanUp, JustUnname, JustDrop} : IsLast(s) /\ s # <<>>
    /\ \A s \in {DeleteUploadWrite, UploadWriteCleanUp, UploadWrite, WriteCleanUp,
                 DeleteUnname, DeleteDrop, DropCleanUp} : ~ IsLast(s) /\ s # <<>>
<1> USE DEF IsLast
<1>1. \A s \in {JustWrite, JustCleanUp, JustUnname, JustDrop} : IsLast(s) /\ s # <<>>
  BY DEF JustWrite, JustCleanUp, JustUnname, JustDrop
<1>2. \A s \in {DeleteUploadWrite, UploadWriteCleanUp, UploadWrite, WriteCleanUp,
                 DeleteUnname, DeleteDrop, DropCleanUp} : ~ IsLast(s) /\ s # <<>>
  BY SMTT(30) DEF DeleteUploadWrite, UploadWriteCleanUp, UploadWrite, WriteCleanUp, DeleteUnname,
         DeleteDrop, DropCleanUp
<1> HIDE DEF IsLast
<1>3. QED
  BY <1>1, <1>2

\* What the next step may be, by where in its plan a handler is.
LEMMA PlanSteps ==
    ASSUME NEW full, NEW left, OnPlan(full, left)
    PROVE  /\ left # <<>>
           /\ Head(left) = "delete" => Head(full) = "delete"
           /\ Head(left) \in {"delete", "upload"} => ~ IsLast(left)
           /\ Head(left) \in {"clean-up", "unname"} => IsLast(left)
           /\ Head(left) = "clean-up" => left = JustCleanUp /\ Head(full) # "delete"
  BY PlanFacts, PlanLengths DEF OnPlan

\* One step on in a plan.
LEMMA PlanGoesOn ==
    ASSUME NEW full, NEW left, OnPlan(full, left)
    PROVE  /\ IsLast(left) => Tail(left) = <<>>
           /\ ~ IsLast(left) =>
                 /\ OnPlan(full, Tail(left))
                 /\ Tail(left) # full
                 /\ Head(Tail(left)) = "write" => Head(left) = "upload"
                 /\ Tail(left) = JustCleanUp => Head(left) \in {"write", "drop"}
  BY PlanFacts, PlanLengths DEF OnPlan

\* Every operation of every kind of slot follows one of the plans, and those that
\* delete first are those that RowsHaveTheirFiles excuses.
LEMMA PlanBegins ==
    ASSUME NEW kind \in SlotKinds, NEW op \in FileOps, kind[op] # None
    PROVE  /\ OnPlan(kind[op], kind[op])
           /\ Head(kind[op]) # "write"
           /\ kind[op] # JustCleanUp
           /\ Head(kind[op]) = "delete" => MayDeleteFirst(kind, op)
<1> DEFINE Goal(k, o) ==
       k[o] # None =>
          /\ OnPlan(k[o], k[o])
          /\ Head(k[o]) # "write"
          /\ k[o] # JustCleanUp
          /\ Head(k[o]) = "delete" => MayDeleteFirst(k, o)
<1>1. \A s \in {DeleteUploadWrite, UploadWriteCleanUp, UploadWrite, DeleteUnname,
                DeleteDrop, DropCleanUp, JustDrop} :
         OnPlan(s, s) /\ Head(s) # "write" /\ s # JustCleanUp
  BY PlanFacts DEF OnPlan
<1>2. \A s \in {UploadWriteCleanUp, UploadWrite, DropCleanUp, JustDrop} : Head(s) # "delete"
  BY PlanFacts
<1>3. /\ IncidentAttachment = Kind(None, DeleteUploadWrite, None, DeleteDrop)
      /\ Justificatif = Kind(None, DeleteUploadWrite, None, DeleteDrop)
      /\ ProcurementDocument = Kind(None, UploadWriteCleanUp, DeleteUnname, DeleteDrop)
      /\ ContactPhoto = Kind(None, UploadWriteCleanUp, DeleteUnname, None)
      /\ StaffFile = Kind(None, UploadWrite, None, None)
      /\ AttendanceProof = Kind(None, UploadWrite, None, None)
      /\ CandidateFile = Kind(None, UploadWrite, None, None)
      /\ Document = Kind(UploadWrite, None, None, DeleteDrop)
      /\ StaffDocument = Kind(UploadWrite, None, None, JustDrop)
      /\ CandidateDocument = Kind(UploadWrite, None, None, JustDrop)
      /\ ChildDocument = Kind(UploadWrite, UploadWrite, None, DropCleanUp)
  BY DEF IncidentAttachment, Justificatif, ProcurementDocument, ContactPhoto, StaffFile,
         AttendanceProof, CandidateFile, Document, StaffDocument, CandidateDocument,
         ChildDocument, DeleteUploadWrite, UploadWriteCleanUp, UploadWrite, DeleteUnname,
         DeleteDrop, DropCleanUp, JustDrop
<1>4. \A a, b, c, d : LET k == Kind(a, b, c, d) IN
         k["create"] = a /\ k["replace"] = b /\ k["clear"] = c /\ k["remove"] = d
  BY DEF Kind
<1>5. Goal(kind, "create")
  BY <1>1, <1>2, <1>3, <1>4
  DEF SlotKinds, SpaceDocument, ContractDocument, ProcedureDocument, AssetDocument,
      EntryDocument, MovementDocument, TicketAttachment, StockItemDocument,
      CampaignDocument, UploadedReport
<1>6. Goal(kind, "replace")
  BY <1>1, <1>2, <1>3, <1>4
  DEF SlotKinds, SpaceDocument, ContractDocument, ProcedureDocument, AssetDocument,
      EntryDocument, MovementDocument, TicketAttachment, StockItemDocument,
      CampaignDocument, UploadedReport, MayDeleteFirst
<1>7. Goal(kind, "clear")
  BY <1>1, <1>2, <1>3, <1>4
  DEF SlotKinds, SpaceDocument, ContractDocument, ProcedureDocument, AssetDocument,
      EntryDocument, MovementDocument, TicketAttachment, StockItemDocument,
      CampaignDocument, UploadedReport, MayDeleteFirst
<1>8. Goal(kind, "remove")
  BY <1>1, <1>2, <1>3, <1>4
  DEF SlotKinds, SpaceDocument, ContractDocument, ProcedureDocument, AssetDocument,
      EntryDocument, MovementDocument, TicketAttachment, StockItemDocument,
      CampaignDocument, UploadedReport, MayDeleteFirst
<1>9. QED
  BY <1>5, <1>6, <1>7, <1>8 DEF FileOps

(***************************************************************************)
(* The inductive invariant.  RowsHaveTheirFiles speaks of rows and of the  *)
(* storage; what makes it hold is that a key is of one slot for ever, and  *)
(* of nobody but its handler before it is written.                         *)
(***************************************************************************)
FilesTypeOK ==
    /\ kindOf \in [Slots -> SlotKinds]
    /\ there \in [Slots -> BOOLEAN]
    /\ used \in Nat
    /\ named \in [Slots -> 0..used]
    /\ DOMAIN fileSteps = FileWorkers
    /\ handling \in [FileWorkers ->
          [slot : Slots, op : FileOps, old : 0..used, new : 0..used] \cup {NoFileCall}]

Busy(w) == handling[w] # NoFileCall

\* A busy handler is on the plan of its operation.
HandlersFollowPlans ==
    \A w \in FileWorkers : Busy(w) =>
       /\ StepsOf(handling[w].slot, handling[w].op) # None
       /\ OnPlan(StepsOf(handling[w].slot, handling[w].op), fileSteps[w])

IdleHandlersHaveNoSteps ==
    \A w \in FileWorkers : ~ Busy(w) => fileSteps[w] = <<>>

\* No two slots name one key.
KeysAreOfOneSlot ==
    \A s, t \in Slots : s # t => named[s] = NoKey \/ named[s] # named[t]

\* The key a handler read is of no other slot by now.
OldKeysStay ==
    \A w \in FileWorkers, s \in Slots :
       Busy(w) /\ s # handling[w].slot /\ handling[w].old # NoKey =>
          named[s] # handling[w].old

\* The key a handler is about to write is stored, and nobody else's.
NewKeysAreFresh ==
    \A w \in FileWorkers : IsAtStep(w, "write") =>
       /\ handling[w].new # NoKey
       /\ handling[w].new \in stored
       /\ \A s \in Slots : named[s] # handling[w].new
       /\ \A v \in FileWorkers : handling[v].old # handling[w].new
       /\ \A v \in FileWorkers :
             v # w /\ IsAtStep(v, "write") => handling[v].new # handling[w].new

\* A file about to be cleaned up is no longer named.
CleanedUpIsUnnamed ==
    \A w \in FileWorkers, s \in Slots :
       fileSteps[w] = JustCleanUp /\ handling[w].old # NoKey => named[s] # handling[w].old

FilesInv ==
    /\ FilesTypeOK
    /\ HandlersFollowPlans
    /\ IdleHandlersHaveNoSteps
    /\ KeysAreOfOneSlot
    /\ OldKeysStay
    /\ NewKeysAreFresh
    /\ CleanedUpIsUnnamed
    /\ RowsHaveTheirFiles

(***************************************************************************)
(* What a handler at one of its steps is known to be.                      *)
(***************************************************************************)
LEMMA HandlerAtStep ==
    ASSUME FilesInv, NEW w \in FileWorkers, NEW step, IsAtStep(w, step)
    PROVE  LET h == handling[w]
               full == StepsOf(h.slot, h.op)
           IN  /\ h \in [slot : Slots, op : FileOps, old : 0..used, new : 0..used]
               /\ h # NoFileCall
               /\ full # None
               /\ OnPlan(full, fileSteps[w])
               /\ Head(fileSteps[w]) = step
               /\ Head(full) = "delete" => MayDeleteFirst(kindOf[h.slot], h.op)
<1> USE DEF FilesInv, FilesTypeOK
<1>1. Busy(w)
  BY DEF IdleHandlersHaveNoSteps, IsAtStep
<1>2. handling[w] \in [slot : Slots, op : FileOps, old : 0..used, new : 0..used]
  BY <1>1 DEF Busy
<1>3. kindOf[handling[w].slot] \in SlotKinds /\ handling[w].op \in FileOps
  BY <1>2
<1>4. QED
  BY <1>1, <1>2, <1>3, PlanBegins DEF Busy, HandlersFollowPlans, IsAtStep, StepsOf

\* The step that ends a call, or leads to the next: what is left of the plan.
LEMMA HandlerMovesOn ==
    ASSUME FilesInv, NEW w \in FileWorkers, NEW step, IsAtStep(w, step),
           NextStep(w), KeepsOrEnds(w)
    PROVE  /\ DOMAIN fileSteps' = FileWorkers
           /\ handling' \in [FileWorkers ->
                 [slot : Slots, op : FileOps, old : 0..used, new : 0..used] \cup {NoFileCall}]
           /\ HandlersFollowPlans'
           /\ IdleHandlersHaveNoSteps'
           /\ \A v \in FileWorkers \ {w} :
                 handling'[v] = handling[v] /\ fileSteps'[v] = fileSteps[v]
           /\ IF IsLast(fileSteps[w])
              THEN handling'[w] = NoFileCall /\ fileSteps'[w] = <<>>
              ELSE handling'[w] = handling[w] /\ fileSteps'[w] = Tail(fileSteps[w])
           /\ IsAtStep(w, "write")' => step = "upload"
           /\ fileSteps'[w] = JustCleanUp => step \in {"write", "drop"}
<1> DEFINE left == fileSteps[w]
<1> DEFINE full == StepsOf(handling[w].slot, handling[w].op)
<1> USE DEF FilesInv, FilesTypeOK
<1>1. /\ handling[w] # NoFileCall /\ full # None /\ OnPlan(full, left) /\ Head(left) = step
      /\ handling[w] \in [slot : Slots, op : FileOps, old : 0..used, new : 0..used]
  BY HandlerAtStep
<1>2. kindOf' = kindOf /\ fileSteps' = [fileSteps EXCEPT ![w] = Tail(left)]
  BY DEF NextStep
<1>3. handling' = [handling EXCEPT ![w] = IF IsLast(left) THEN NoFileCall ELSE handling[w]]
  BY DEF KeepsOrEnds, IsLast
<1>4. /\ IsLast(left) => Tail(left) = <<>>
      /\ ~ IsLast(left) =>
            /\ OnPlan(full, Tail(left))
            /\ Head(Tail(left)) = "write" => step = "upload"
            /\ Tail(left) = JustCleanUp => step \in {"write", "drop"}
  BY <1>1, PlanGoesOn
<1>5. /\ \A v \in FileWorkers \ {w} :
            handling'[v] = handling[v] /\ fileSteps'[v] = fileSteps[v]
      /\ IF IsLast(left)
         THEN handling'[w] = NoFileCall /\ fileSteps'[w] = <<>>
         ELSE handling'[w] = handling[w] /\ fileSteps'[w] = Tail(left)
  BY <1>2, <1>3, <1>4
<1>6. HandlersFollowPlans'
  BY <1>1, <1>2, <1>4, <1>5 DEF HandlersFollowPlans, Busy, StepsOf
<1>7. IdleHandlersHaveNoSteps'
  BY <1>1, <1>4, <1>5 DEF IdleHandlersHaveNoSteps, Busy
<1>8. IsAtStep(w, "write")' => step = "upload"
  BY <1>4, <1>5 DEF IsAtStep
<1>9. fileSteps'[w] = JustCleanUp => step \in {"write", "drop"}
  BY <1>4, <1>5, PlanLengths
<1>10. DOMAIN fileSteps' = FileWorkers
  BY <1>2
<1>11. handling' \in [FileWorkers ->
          [slot : Slots, op : FileOps, old : 0..used, new : 0..used] \cup {NoFileCall}]
  BY <1>1, <1>3
<1>12. QED
  BY <1>5, <1>6, <1>7, <1>8, <1>9, <1>10, <1>11

\* A handler that does not step, in a step that keeps the kinds.
LEMMA OthersHaveStillDeletedFirst ==
    ASSUME NEW v \in FileWorkers, kindOf' = kindOf,
           handling'[v] = handling[v], fileSteps'[v] = fileSteps[v]
    PROVE  HasDeletedFirst(v)' <=> HasDeletedFirst(v)
  BY DEF HasDeletedFirst, StepsOf

(***************************************************************************)
(* Every action keeps the invariant.                                       *)
(***************************************************************************)
LEMMA FilesInitOK == FilesInit => FilesInv
<1> SUFFICES ASSUME FilesInit PROVE FilesInv
  OBVIOUS
<1> USE FilesAssumption DEF FilesInit
<1>1. FilesTypeOK
  BY DEF FilesTypeOK, NoKey
<1>2. \A w \in FileWorkers : ~ Busy(w) /\ fileSteps[w] = <<>>
  BY DEF Busy
<1>3. \A w \in FileWorkers : \A step : ~ IsAtStep(w, step)
  BY DEF IsAtStep
<1>4. QED
  BY <1>1, <1>2, <1>3, PlanLengths
  DEF FilesInv, HandlersFollowPlans, IdleHandlersHaveNoSteps, KeysAreOfOneSlot, OldKeysStay,
      NewKeysAreFresh, CleanedUpIsUnnamed, RowsHaveTheirFiles

LEMMA StartFileCallOK ==
    ASSUME FilesInv, NEW w \in FileWorkers, NEW s \in Slots, NEW op \in FileOps,
           StartFileCall(w, s, op)
    PROVE  FilesInv'
<1> DEFINE call == [slot |-> s, op |-> op, old |-> named[s], new |-> NoKey]
<1> USE DEF FilesInv, FilesTypeOK
<1>1. /\ ~ Busy(w) /\ StepsOf(s, op) # None
      /\ fileSteps' = [fileSteps EXCEPT ![w] = StepsOf(s, op)]
      /\ handling' = [handling EXCEPT ![w] = call]
      /\ UNCHANGED <<kindOf, there, named, stored, used, lost>>
  BY DEF StartFileCall, Busy
<1>2. /\ kindOf[s] \in SlotKinds
      /\ call \in [slot : Slots, op : FileOps, old : 0..used, new : 0..used]
      /\ call # NoFileCall
  BY FilesAssumption DEF NoKey, NoFileCall
<1>3. /\ OnPlan(StepsOf(s, op), StepsOf(s, op))
      /\ Head(StepsOf(s, op)) # "write"
      /\ StepsOf(s, op) # JustCleanUp
  BY <1>1, <1>2, PlanBegins DEF StepsOf
<1>4. /\ \A v \in FileWorkers \ {w} :
            handling'[v] = handling[v] /\ fileSteps'[v] = fileSteps[v]
      /\ handling'[w] = call /\ fileSteps'[w] = StepsOf(s, op)
  BY <1>1
<1>5. FilesTypeOK'
  BY <1>1, <1>2
<1>6. HandlersFollowPlans'
  BY <1>1, <1>3, <1>4 DEF HandlersFollowPlans, Busy, StepsOf
<1>7. IdleHandlersHaveNoSteps'
  BY <1>2, <1>4 DEF IdleHandlersHaveNoSteps, Busy
<1>8. KeysAreOfOneSlot'
  BY <1>1 DEF KeysAreOfOneSlot
<1>9. OldKeysStay'
  <2> SUFFICES ASSUME NEW v \in FileWorkers, NEW t \in Slots, Busy(v)',
                      t # handling'[v].slot, handling'[v].old # NoKey
               PROVE  named[t] # handling'[v].old
    BY <1>1 DEF OldKeysStay
  <2>1. CASE v = w
    BY <1>4, <2>1 DEF KeysAreOfOneSlot
  <2>2. CASE v # w
    BY <1>4, <2>2 DEF OldKeysStay, Busy
  <2>3. QED
    BY <2>1, <2>2
<1>10. NewKeysAreFresh'
  <2>1. ~ IsAtStep(w, "write")'
    BY <1>3, <1>4 DEF IsAtStep
  <2>2. \A v \in FileWorkers \ {w} : IsAtStep(v, "write")' <=> IsAtStep(v, "write")
    BY <1>4 DEF IsAtStep
  <2>3. QED
    BY <1>1, <1>4, <2>1, <2>2 DEF NewKeysAreFresh
<1>11. CleanedUpIsUnnamed'
  BY <1>1, <1>3, <1>4 DEF CleanedUpIsUnnamed
<1>12. RowsHaveTheirFiles'
  <2>1. ~ HasDeletedFirst(w)
    BY <1>1 DEF HasDeletedFirst, Busy
  <2>2. \A v \in FileWorkers \ {w} : HasDeletedFirst(v)' <=> HasDeletedFirst(v)
    BY <1>1, <1>4, OthersHaveStillDeletedFirst
  <2>3. QED
    BY <1>1, <1>4, <2>1, <2>2 DEF RowsHaveTheirFiles
<1>13. QED
  BY <1>5, <1>6, <1>7, <1>8, <1>9, <1>10, <1>11, <1>12

LEMMA DeleteOldFileOK ==
    ASSUME FilesInv, NEW w \in FileWorkers, DeleteOldFile(w)
    PROVE  FilesInv'
<1> DEFINE h == handling[w]
<1> DEFINE full == StepsOf(h.slot, h.op)
<1> USE DEF FilesInv, FilesTypeOK
<1>1. PICK step \in {"delete", "clean-up"} : IsAtStep(w, step)
  BY DEF DeleteOldFile
<1>2. /\ stored' = stored \ {h.old} /\ NextStep(w) /\ KeepsOrEnds(w)
      /\ UNCHANGED <<there, named, used>> /\ UNCHANGED <<kindOf, lost>>
  BY DEF DeleteOldFile, NextStep
<1>3. /\ h # NoFileCall /\ OnPlan(full, fileSteps[w]) /\ Head(fileSteps[w]) = step
      /\ h \in [slot : Slots, op : FileOps, old : 0..used, new : 0..used]
      /\ Head(full) = "delete" => MayDeleteFirst(kindOf[h.slot], h.op)
  BY <1>1, HandlerAtStep
<1>4. /\ DOMAIN fileSteps' = FileWorkers
      /\ handling' \in [FileWorkers ->
            [slot : Slots, op : FileOps, old : 0..used, new : 0..used] \cup {NoFileCall}]
      /\ HandlersFollowPlans' /\ IdleHandlersHaveNoSteps'
      /\ \A v \in FileWorkers \ {w} :
            handling'[v] = handling[v] /\ fileSteps'[v] = fileSteps[v]
      /\ IF IsLast(fileSteps[w])
         THEN handling'[w] = NoFileCall /\ fileSteps'[w] = <<>>
         ELSE handling'[w] = h /\ fileSteps'[w] = Tail(fileSteps[w])
      /\ ~ IsAtStep(w, "write")'
      /\ fileSteps'[w] # JustCleanUp
  BY <1>1, <1>2, HandlerMovesOn
<1>5. FilesTypeOK'
  BY <1>2, <1>4
<1>6. KeysAreOfOneSlot'
  BY <1>2 DEF KeysAreOfOneSlot
<1>7. OldKeysStay'
  BY <1>2, <1>4 DEF OldKeysStay, Busy
<1>8. NewKeysAreFresh'
  <2>1. \A v \in FileWorkers \ {w} : IsAtStep(v, "write")' <=> IsAtStep(v, "write")
    BY <1>4 DEF IsAtStep
  <2>2. handling'[w].old \in {h.old, NoKey}
    BY <1>4 DEF NoFileCall
  <2> SUFFICES ASSUME NEW u \in FileWorkers \ {w}, IsAtStep(u, "write")
               PROVE  /\ handling'[u].new # NoKey
                      /\ handling'[u].new \in stored'
                      /\ \A s \in Slots : named'[s] # handling'[u].new
                      /\ \A v \in FileWorkers : handling'[v].old # handling'[u].new
                      /\ \A v \in FileWorkers :
                            v # u /\ IsAtStep(v, "write")' => handling'[v].new # handling'[u].new
    BY <1>4, <2>1 DEF NewKeysAreFresh
  <2>3. handling'[u] = handling[u]
    BY <1>4
  <2>4. \A v \in FileWorkers : handling'[v].old # handling'[u].new
    BY <1>4, <2>2, <2>3 DEF NewKeysAreFresh
  <2>5. handling'[u].new \in stored'
    BY <1>2, <2>3 DEF NewKeysAreFresh
  <2>6. QED
    BY <1>2, <1>4, <2>1, <2>3, <2>4, <2>5 DEF NewKeysAreFresh
<1>9. CleanedUpIsUnnamed'
  BY <1>2, <1>4 DEF CleanedUpIsUnnamed
<1>10. RowsHaveTheirFiles'
  <2>1. \A v \in FileWorkers \ {w} : HasDeletedFirst(v)' <=> HasDeletedFirst(v)
    BY <1>2, <1>4, OthersHaveStillDeletedFirst
  <2>2. CASE step = "delete"
    <3>0. OnPlan(full, fileSteps[w]) /\ Head(fileSteps[w]) = "delete"
      BY <1>3, <2>2
    <3>1. /\ ~ IsLast(fileSteps[w]) /\ Head(full) = "delete" /\ Tail(fileSteps[w]) # full
      <4> HIDE DEF full, FilesInv, FilesTypeOK
      <4>1. ~ IsLast(fileSteps[w]) /\ Head(full) = "delete"
        BY <3>0, PlanSteps
      <4>2. Tail(fileSteps[w]) # full
        BY <3>0, <4>1, PlanGoesOn
      <4>3. QED  BY <4>1, <4>2
    <3>2. HasDeletedFirst(w)' /\ handling'[w] = h
      BY <1>2, <1>3, <1>4, <3>1 DEF HasDeletedFirst, StepsOf
    <3>3. QED
      BY <1>2, <1>4, <2>1, <3>2 DEF RowsHaveTheirFiles
  <2>3. CASE step = "clean-up"
    <3>1. fileSteps[w] = JustCleanUp /\ Head(full) # "delete"
      BY <1>3, <2>3, PlanSteps
    <3>2. ~ HasDeletedFirst(w)
      BY <3>1 DEF HasDeletedFirst
    <3>3. \A s \in Slots : named[s] = NoKey \/ named[s] # h.old
      BY <3>1 DEF CleanedUpIsUnnamed
    <3>4. QED
      BY <1>2, <1>4, <2>1, <3>2, <3>3 DEF RowsHaveTheirFiles
  <2>4. QED
    BY <2>2, <2>3
<1>11. QED
  BY <1>4, <1>5, <1>6, <1>7, <1>8, <1>9, <1>10

LEMMA UploadFileOK ==
    ASSUME FilesInv, NEW w \in FileWorkers, UploadFile(w)
    PROVE  FilesInv'
<1> DEFINE h == handling[w]
<1> DEFINE full == StepsOf(h.slot, h.op)
<1> USE DEF FilesInv, FilesTypeOK
<1>1. /\ IsAtStep(w, "upload")
      /\ used' = used + 1 /\ stored' = stored \cup {used + 1}
      /\ handling' = [handling EXCEPT ![w].new = used + 1]
      /\ fileSteps' = [fileSteps EXCEPT ![w] = Tail(fileSteps[w])]
      /\ UNCHANGED <<kindOf, there, named, lost>>
  BY DEF UploadFile, NextStep
<1>2. /\ h # NoFileCall /\ full # None /\ OnPlan(full, fileSteps[w])
      /\ h \in [slot : Slots, op : FileOps, old : 0..used, new : 0..used]
      /\ Head(fileSteps[w]) = "upload"
      /\ Head(full) = "delete" => MayDeleteFirst(kindOf[h.slot], h.op)
  BY <1>1, HandlerAtStep
<1>3. /\ OnPlan(full, Tail(fileSteps[w]))
      /\ Tail(fileSteps[w]) # full
      /\ Tail(fileSteps[w]) # JustCleanUp
  <2>1. ~ IsLast(fileSteps[w])
    BY <1>2, PlanSteps
  <2>2. QED
    BY <1>2, <2>1, PlanGoesOn
<1>4. /\ \A v \in FileWorkers \ {w} :
            handling'[v] = handling[v] /\ fileSteps'[v] = fileSteps[v]
      /\ handling'[w] = [slot |-> h.slot, op |-> h.op, old |-> h.old, new |-> used + 1]
      /\ fileSteps'[w] = Tail(fileSteps[w])
  BY <1>1, <1>2
<1>5. /\ handling'[w] \in [slot : Slots, op : FileOps, old : 0..used', new : 0..used']
      /\ handling'[w].slot = h.slot /\ handling'[w].op = h.op /\ handling'[w].old = h.old
      /\ handling'[w].new = used + 1
      /\ handling'[w] # NoFileCall
  BY <1>1, <1>2, <1>4, FilesAssumption DEF NoFileCall
<1>6. FilesTypeOK'
  <2>1. named' \in [Slots -> 0..used']
    BY <1>1
  <2>2. \A v \in FileWorkers : handling'[v] \in
           [slot : Slots, op : FileOps, old : 0..used', new : 0..used'] \cup {NoFileCall}
    <3> SUFFICES ASSUME NEW v \in FileWorkers \ {w}
                 PROVE  handling'[v] \in
           [slot : Slots, op : FileOps, old : 0..used', new : 0..used'] \cup {NoFileCall}
      BY <1>5
    <3>1. 0..used \subseteq 0..used'
      BY <1>1
    <3>2. QED
      BY <1>4, <3>1
  <2>3. /\ kindOf' \in [Slots -> SlotKinds] /\ there' \in [Slots -> BOOLEAN] /\ used' \in Nat
        /\ DOMAIN fileSteps' = FileWorkers
    BY <1>1
  <2>4. handling' = [v \in FileWorkers |-> handling'[v]]
    BY <1>1
  <2>5. QED
    BY <2>1, <2>2, <2>3, <2>4
<1>7. HandlersFollowPlans'
  BY <1>1, <1>2, <1>3, <1>4, <1>5 DEF HandlersFollowPlans, Busy, StepsOf
<1>8. IdleHandlersHaveNoSteps'
  BY <1>4, <1>5 DEF IdleHandlersHaveNoSteps, Busy
<1>9. KeysAreOfOneSlot'
  BY <1>1 DEF KeysAreOfOneSlot
<1>10. OldKeysStay'
  BY <1>1, <1>2, <1>4, <1>5 DEF OldKeysStay, Busy
<1>11. NewKeysAreFresh'
  <2>1. \A v \in FileWorkers : /\ handling[v].old \in 0..used /\ handling[v].new \in 0..used
                               /\ handling'[v].old = handling[v].old
    BY <1>4, <1>5 DEF NoFileCall, NoKey
  <2>2. \A v \in FileWorkers \ {w} : IsAtStep(v, "write")' <=> IsAtStep(v, "write")
    BY <1>4 DEF IsAtStep
  <2>3. \A s \in Slots : named'[s] = named[s] /\ named[s] # used + 1
    BY <1>1
  <2>4. \A v \in FileWorkers : handling[v].old # used + 1 /\ handling[v].new # used + 1
    BY <2>1
  <2>5. used + 1 # NoKey
    BY DEF NoKey
  <2> SUFFICES ASSUME NEW u \in FileWorkers, IsAtStep(u, "write")'
               PROVE  /\ handling'[u].new # NoKey
                      /\ handling'[u].new \in stored'
                      /\ \A s \in Slots : named'[s] # handling'[u].new
                      /\ \A v \in FileWorkers : handling'[v].old # handling'[u].new
                      /\ \A v \in FileWorkers :
                            v # u /\ IsAtStep(v, "write")' => handling'[v].new # handling'[u].new
    BY DEF NewKeysAreFresh
  <2>6. CASE u = w
    BY <1>1, <1>4, <1>5, <2>1, <2>3, <2>4, <2>5, <2>6
  <2>7. CASE u # w
    BY <1>1, <1>4, <1>5, <2>1, <2>2, <2>3, <2>4, <2>7 DEF NewKeysAreFresh
  <2>8. QED
    BY <2>6, <2>7
<1>12. CleanedUpIsUnnamed'
  BY <1>1, <1>3, <1>4 DEF CleanedUpIsUnnamed
<1>13. RowsHaveTheirFiles'
  <2>1. \A v \in FileWorkers \ {w} : HasDeletedFirst(v)' <=> HasDeletedFirst(v)
    BY <1>1, <1>4, OthersHaveStillDeletedFirst
  <2>2. HasDeletedFirst(w) => HasDeletedFirst(w)'
    BY <1>1, <1>3, <1>4, <1>5 DEF HasDeletedFirst, StepsOf
  <2>3. QED
    BY <1>1, <1>4, <1>5, <2>1, <2>2 DEF RowsHaveTheirFiles
<1>14. QED
  BY <1>6, <1>7, <1>8, <1>9, <1>10, <1>11, <1>12, <1>13

\* The three ways to write the row: with a key that is fresh, or with none.
LEMMA WriteRowOK ==
    ASSUME FilesInv, NEW w \in FileWorkers, NEW step \in {"write", "unname", "drop"},
           IsAtStep(w, step), NEW key, NEW isThere \in BOOLEAN,
           IF step = "write" THEN key = handling[w].new ELSE key = NoKey,
           WriteRow(w, handling[w].slot, key, isThere)
    PROVE  FilesInv'
<1> DEFINE h == handling[w]
<1> USE DEF FilesInv, FilesTypeOK
<1>1. /\ named' = [named EXCEPT ![h.slot] = key]
      /\ there' = [there EXCEPT ![h.slot] = isThere]
      /\ NextStep(w) /\ KeepsOrEnds(w)
      /\ UNCHANGED <<stored, used>> /\ UNCHANGED <<kindOf, lost>>
  BY DEF WriteRow, NextStep
<1>2. /\ h # NoFileCall
      /\ h \in [slot : Slots, op : FileOps, old : 0..used, new : 0..used]
  BY HandlerAtStep
<1>3. /\ DOMAIN fileSteps' = FileWorkers
      /\ handling' \in [FileWorkers ->
            [slot : Slots, op : FileOps, old : 0..used, new : 0..used] \cup {NoFileCall}]
      /\ HandlersFollowPlans' /\ IdleHandlersHaveNoSteps'
      /\ \A v \in FileWorkers \ {w} :
            handling'[v] = handling[v] /\ fileSteps'[v] = fileSteps[v]
      /\ handling'[w] \in {h, NoFileCall}
      /\ ~ IsAtStep(w, "write")'
  BY <1>1, HandlerMovesOn
<1>4. /\ \A s \in Slots \ {h.slot} : named'[s] = named[s]
      /\ named'[h.slot] = key
  BY <1>1, <1>2
\* The key is none, or stored and of nobody else.
<1>5. \/ key = NoKey
      \/ /\ key # NoKey /\ key \in stored
         /\ \A s \in Slots : named[s] # key
         /\ \A v \in FileWorkers : handling[v].old # key
         /\ \A v \in FileWorkers : v # w /\ IsAtStep(v, "write") => handling[v].new # key
  BY DEF NewKeysAreFresh
<1>6. FilesTypeOK'
  BY <1>1, <1>2, <1>3 DEF NoKey
<1>7. KeysAreOfOneSlot'
  BY <1>4, <1>5 DEF KeysAreOfOneSlot
<1>8. OldKeysStay'
  <2> SUFFICES ASSUME NEW v \in FileWorkers, NEW t \in Slots, Busy(v)',
                      t # handling'[v].slot, handling'[v].old # NoKey
               PROVE  named'[t] # handling'[v].old
    BY DEF OldKeysStay
  <2>1. handling'[v] = handling[v] /\ Busy(v)
    BY <1>2, <1>3 DEF Busy
  <2>2. CASE t = h.slot
    BY <1>4, <1>5, <2>1, <2>2
  <2>3. CASE t # h.slot
    BY <1>4, <2>1, <2>3 DEF OldKeysStay
  <2>4. QED
    BY <2>2, <2>3
<1>9. NewKeysAreFresh'
  <2>1. \A v \in FileWorkers \ {w} : IsAtStep(v, "write")' <=> IsAtStep(v, "write")
    BY <1>3 DEF IsAtStep
  <2>2. \A v \in FileWorkers : handling'[v].old \in {handling[v].old, NoKey}
    BY <1>3 DEF NoFileCall
  <2> SUFFICES ASSUME NEW u \in FileWorkers \ {w}, IsAtStep(u, "write")
               PROVE  /\ handling'[u].new # NoKey
                      /\ handling'[u].new \in stored'
                      /\ \A s \in Slots : named'[s] # handling'[u].new
                      /\ \A v \in FileWorkers : handling'[v].old # handling'[u].new
                      /\ \A v \in FileWorkers :
                            v # u /\ IsAtStep(v, "write")' => handling'[v].new # handling'[u].new
    BY <1>3, <2>1 DEF NewKeysAreFresh
  <2>3. \A s \in Slots : named'[s] # handling'[u].new
    BY <1>3, <1>4, <1>5 DEF NewKeysAreFresh
  <2>4. \A v \in FileWorkers : handling'[v].old # handling'[u].new
    BY <1>3, <2>2 DEF NewKeysAreFresh
  <2>5. QED
    BY <1>1, <1>3, <2>1, <2>3, <2>4 DEF NewKeysAreFresh
<1>10. CleanedUpIsUnnamed'
  <2> SUFFICES ASSUME NEW v \in FileWorkers, NEW s \in Slots,
                      fileSteps'[v] = JustCleanUp, handling'[v].old # NoKey
               PROVE  named'[s] # handling'[v].old
    BY DEF CleanedUpIsUnnamed
  <2>1. handling'[v] = handling[v]
    BY <1>3 DEF NoFileCall
  <2>2. CASE s = h.slot
    BY <1>4, <1>5, <2>1, <2>2
  <2>3. CASE s # h.slot /\ v = w
    BY <1>2, <1>4, <2>1, <2>3 DEF OldKeysStay, Busy
  <2>4. CASE s # h.slot /\ v # w
    BY <1>3, <1>4, <2>1, <2>4 DEF CleanedUpIsUnnamed
  <2>5. QED
    BY <2>2, <2>3, <2>4
<1>11. RowsHaveTheirFiles'
  <2> SUFFICES ASSUME NEW s \in Slots
               PROVE  \/ named'[s] \in stored' \cup lost' \cup {NoKey}
                      \/ \E v \in FileWorkers : HasDeletedFirst(v)' /\ handling'[v].old = named'[s]
    BY DEF RowsHaveTheirFiles
  <2>1. CASE s = h.slot
    BY <1>1, <1>4, <1>5, <2>1
  <2>2. CASE s # h.slot
    <3>1. CASE named[s] \in stored \cup lost \cup {NoKey}
      BY <1>1, <1>4, <2>2, <3>1
    <3>2. ASSUME NEW v \in FileWorkers, HasDeletedFirst(v), handling[v].old = named[s],
                 named[s] # NoKey
          PROVE  HasDeletedFirst(v)' /\ handling'[v].old = named'[s]
      <4>1. v # w
        BY <1>2, <2>2, <3>2 DEF OldKeysStay, Busy
      <4>2. QED
        BY <1>1, <1>3, <1>4, <2>2, <3>2, <4>1, OthersHaveStillDeletedFirst
    <3>3. QED
      BY <3>1, <3>2 DEF RowsHaveTheirFiles
  <2>3. QED
    BY <2>1, <2>2
<1>12. QED
  BY <1>3, <1>6, <1>7, <1>8, <1>9, <1>10, <1>11

LEMMA FileCallDiesOK ==
    ASSUME FilesInv, NEW w \in FileWorkers, FileCallDies(w)
    PROVE  FilesInv'
<1> USE DEF FilesInv, FilesTypeOK
<1>1. /\ handling[w] # NoFileCall
      /\ lost' = IF HasDeletedFirst(w) THEN lost \cup {handling[w].old} ELSE lost
      /\ fileSteps' = [fileSteps EXCEPT ![w] = <<>>]
      /\ handling' = [handling EXCEPT ![w] = NoFileCall]
      /\ UNCHANGED <<kindOf, there, named, stored, used>>
  BY DEF FileCallDies
<1>2. /\ \A v \in FileWorkers \ {w} :
            handling'[v] = handling[v] /\ fileSteps'[v] = fileSteps[v]
      /\ handling'[w] = NoFileCall /\ fileSteps'[w] = <<>>
  BY <1>1
<1>3. FilesTypeOK'
  BY <1>1
<1>4. HandlersFollowPlans' /\ IdleHandlersHaveNoSteps'
  BY <1>1, <1>2 DEF HandlersFollowPlans, IdleHandlersHaveNoSteps, Busy, StepsOf
<1>5. KeysAreOfOneSlot' /\ OldKeysStay'
  BY <1>1, <1>2 DEF KeysAreOfOneSlot, OldKeysStay, Busy
<1>6. NewKeysAreFresh'
  <2>1. \A v \in FileWorkers \ {w} : IsAtStep(v, "write")' <=> IsAtStep(v, "write")
    BY <1>2 DEF IsAtStep
  <2>2. ~ IsAtStep(w, "write")'
    BY <1>2 DEF IsAtStep
  <2>3. handling'[w].old = NoKey
    BY <1>2 DEF NoFileCall
  <2>4. QED
    BY <1>1, <1>2, <2>1, <2>2, <2>3 DEF NewKeysAreFresh
<1>7. CleanedUpIsUnnamed'
  BY <1>1, <1>2, PlanLengths DEF CleanedUpIsUnnamed
<1>8. RowsHaveTheirFiles'
  <2>1. \A v \in FileWorkers \ {w} : HasDeletedFirst(v)' <=> HasDeletedFirst(v)
    BY <1>1, <1>2, OthersHaveStillDeletedFirst
  <2>2. QED
    BY <1>1, <1>2, <2>1 DEF RowsHaveTheirFiles
<1>9. QED
  BY <1>3, <1>4, <1>5, <1>6, <1>7, <1>8

LEMMA FilesStepOK == FilesInv /\ [FilesNext]_fileVars => FilesInv'
<1> SUFFICES ASSUME FilesInv, [FilesNext]_fileVars PROVE FilesInv'
  OBVIOUS
<1>1. ASSUME NEW w \in FileWorkers, NEW s \in Slots, NEW op \in FileOps,
             StartFileCall(w, s, op)
      PROVE  FilesInv'
  BY <1>1, StartFileCallOK
<1>2. ASSUME NEW w \in FileWorkers, DeleteOldFile(w) PROVE FilesInv'
  BY <1>2, DeleteOldFileOK
<1>3. ASSUME NEW w \in FileWorkers, UploadFile(w) PROVE FilesInv'
  BY <1>3, UploadFileOK
<1>4. ASSUME NEW w \in FileWorkers, WriteKey(w) PROVE FilesInv'
  BY <1>4, WriteRowOK DEF WriteKey
<1>5. ASSUME NEW w \in FileWorkers, UnnameKey(w) PROVE FilesInv'
  BY <1>5, WriteRowOK DEF UnnameKey
<1>6. ASSUME NEW w \in FileWorkers, DropRow(w) PROVE FilesInv'
  BY <1>6, WriteRowOK DEF DropRow
<1>7. ASSUME NEW w \in FileWorkers, FileCallDies(w) PROVE FilesInv'
  BY <1>7, FileCallDiesOK
<1>8. CASE UNCHANGED fileVars
  BY <1>8
  DEF fileVars, FilesInv, FilesTypeOK, HandlersFollowPlans, IdleHandlersHaveNoSteps, Busy,
      StepsOf, KeysAreOfOneSlot, OldKeysStay, NewKeysAreFresh, IsAtStep, CleanedUpIsUnnamed,
      RowsHaveTheirFiles, HasDeletedFirst
<1>9. QED
  BY <1>1, <1>2, <1>3, <1>4, <1>5, <1>6, <1>7, <1>8 DEF FilesNext

(***************************************************************************)
(* A row names a file that is no longer stored only because of the         *)
(* operations that delete first, however many handlers overlap and         *)
(* wherever they die.                                                      *)
(***************************************************************************)
THEOREM FilesAreThere == FilesSpec => []RowsHaveTheirFiles
<1>1. FilesInv => RowsHaveTheirFiles
  BY DEF FilesInv
<1>2. QED
  BY <1>1, FilesInitOK, FilesStepOK, PTL DEF FilesSpec
=============================================================================
