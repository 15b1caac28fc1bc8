------------------------------ MODULE StoredFiles ------------------------------
(***************************************************************************)
(* The files of hadoum_api: objects of the storage that rows of the        *)
(* database name by their key.  UploadService writes and deletes objects,  *)
(* each service writes its rows, nothing does both at once, and the        *)
(* services do not do it in the same order.  A slot is a place of a row    *)
(* that names a file, or a row that is there for nothing else.             *)
(*                                                                         *)
(* Every object has a key of its own (randomUUID).  A handler reads the    *)
(* slot, then deletes, uploads and writes one awaited call at a time, and  *)
(* may die, or see its call fail, before any of them.  A slot is for one   *)
(* row: another that is created meanwhile would be another slot's.         *)
(***************************************************************************)
EXTENDS Naturals, Sequences

CONSTANTS
    Slots,
    NoSlot,        \* of an idle handler
    MaxKeys,       \* bound: files uploaded
    FileWorkers,   \* handlers that may overlap
    FileSlots      \* the kind of every slot, in every behaviour

(***************************************************************************)
(* The steps of each operation of a slot, or none if there is no such      *)
(* operation: create makes the row, clear leaves it without a file, remove *)
(* drops it.  delete and clean-up are of the old file.                     *)
(***************************************************************************)
FileOps == {"create", "replace", "clear", "remove"}

Kind(create, replace, clear, remove) ==
    [create |-> create, replace |-> replace, clear |-> clear, remove |-> remove]

None == <<>>

\* Columns of a row, which is there before the file is and may outlive it.
IncidentAttachment ==
    Kind(None, <<"delete", "upload", "write">>, None, <<"delete", "drop">>)

Justificatif ==
    Kind(None, <<"delete", "upload", "write">>, None, <<"delete", "drop">>)

\* Mutant: the old document is deleted before the new one is there.
ProcurementDocumentDeletedFirst ==
    Kind(None, <<"delete", "upload", "write">>, <<"delete", "unname">>,
         <<"delete", "drop">>)

\* The purchase order, the invoice and the delivery note of an expense.
ProcurementDocument ==
    Kind(None, <<"upload", "write", "clean-up">>, <<"delete", "unname">>,
         <<"delete", "drop">>)

ContactPhoto == Kind(None, <<"upload", "write", "clean-up">>, <<"delete", "unname">>, None)

\* A curriculum and a schedule, the proof of an absence, a candidate's curriculum.
StaffFile == Kind(None, <<"upload", "write">>, None, None)
AttendanceProof == Kind(None, <<"upload", "write">>, None, None)
CandidateFile == Kind(None, <<"upload", "write">>, None, None)

\* Rows that are there for the file.
Document == Kind(<<"upload", "write">>, None, None, <<"delete", "drop">>)

SpaceDocument == Document
ContractDocument == Document
ProcedureDocument == Document
AssetDocument == Document
EntryDocument == Document
MovementDocument == Document
TicketAttachment == Document
StockItemDocument == Document
CampaignDocument == Document
UploadedReport == Document

StaffDocument == Kind(<<"upload", "write">>, None, None, <<"drop">>)
CandidateDocument == Kind(<<"upload", "write">>, None, None, <<"drop">>)

\* The one replaced is left in the storage, the one removed is not.
ChildDocument ==
    Kind(<<"upload", "write">>, <<"upload", "write">>, None, <<"drop", "clean-up">>)

SlotKinds ==
    {IncidentAttachment, Justificatif, ProcurementDocument, ContactPhoto, StaffFile,
     AttendanceProof, CandidateFile, SpaceDocument, ContractDocument, ProcedureDocument,
     AssetDocument, EntryDocument, MovementDocument, TicketAttachment,
     StockItemDocument, CampaignDocument, UploadedReport, StaffDocument,
     CandidateDocument, ChildDocument}

ASSUME FilesAssumption ==
    /\ MaxKeys \in Nat
    /\ NoSlot \notin Slots
    /\ FileSlots \subseteq [Slots -> SlotKinds]

VARIABLES
    kindOf,     \* the kind of every slot
    there,      \* whether the row of every slot is there
    named,      \* the key it names
    stored,     \* the objects of the storage
    used,       \* keys given so far: 1..used
    lost,       \* history: files an operation that deletes first has deleted
                \* before it died
    fileSteps,  \* the steps that every handler has left
    handling    \* what it holds in memory

fileVars == <<kindOf, there, named, stored, used, lost, fileSteps, handling>>

\* Keys are never given twice.
Keys == 1..MaxKeys

NoKey == 0

\* What a handler holds: the slot, the key it read there, the key it uploaded.
FileCalls ==
    [slot : Slots, op : FileOps, old : Keys \cup {NoKey}, new : Keys \cup {NoKey}]

NoFileCall == [slot |-> NoSlot, op |-> "none", old |-> NoKey, new |-> NoKey]

(***************************************************************************)
(* Handlers.                                                               *)
(***************************************************************************)
StepsOf(s, op) == kindOf[s][op]

StartFileCall(w, s, op) ==
    /\ handling[w] = NoFileCall
    /\ StepsOf(s, op) # None
    /\ there[s] <=> op # "create"
    /\ op = "create" => \A v \in FileWorkers : handling[v].slot # s
    /\ fileSteps' = [fileSteps EXCEPT ![w] = StepsOf(s, op)]
    /\ handling' = [handling EXCEPT ![w] =
          [slot |-> s, op |-> op, old |-> named[s], new |-> NoKey]]
    /\ UNCHANGED <<kindOf, there, named, stored, used, lost>>

IsAtStep(w, step) == fileSteps[w] # <<>> /\ Head(fileSteps[w]) = step

\* One step done; after the last the handler is idle.
NextStep(w) ==
    /\ fileSteps' = [fileSteps EXCEPT ![w] = Tail(@)]
    /\ UNCHANGED <<kindOf, lost>>

KeepsOrEnds(w) ==
    handling' = [handling EXCEPT ![w] = IF Len(fileSteps[w]) = 1 THEN NoFileCall ELSE @]

DeleteOldFile(w) ==
    /\ IsAtStep(w, "delete") \/ IsAtStep(w, "clean-up")
    /\ stored' = stored \ {handling[w].old}
    /\ NextStep(w)
    /\ KeepsOrEnds(w)
    /\ UNCHANGED <<there, named, used>>

UploadFile(w) ==
    /\ IsAtStep(w, "upload")
    /\ used < MaxKeys
    /\ used' = used + 1
    /\ stored' = stored \cup {used + 1}
    /\ handling' = [handling EXCEPT ![w].new = used + 1]
    /\ NextStep(w)
    /\ UNCHANGED <<there, named>>

\* An insert, or the update of a row: that of one no longer there fails.
WriteRow(w, s, key, isThere) ==
    /\ named' = [named EXCEPT ![s] = key]
    /\ there' = [there EXCEPT ![s] = isThere]
    /\ NextStep(w)
    /\ KeepsOrEnds(w)
    /\ UNCHANGED <<stored, used>>

WriteKey(w) ==
    LET h == handling[w]
    IN  /\ IsAtStep(w, "write")
        /\ there[h.slot] \/ h.op = "create"
        /\ WriteRow(w, h.slot, h.new, TRUE)

UnnameKey(w) ==
    LET h == handling[w]
    IN  /\ IsAtStep(w, "unname")
        /\ there[h.slot]
        /\ WriteRow(w, h.slot, NoKey, TRUE)

DropRow(w) ==
    LET h == handling[w]
    IN  /\ IsAtStep(w, "drop")
        /\ there[h.slot]
        /\ WriteRow(w, h.slot, NoKey, FALSE)

\* Which operations delete a file while a row still names it, and a handler
\* that has done so.
MayDeleteFirst(kind, op) ==
    op \in {"clear", "remove"} \/ kind \in {IncidentAttachment, Justificatif}

HasDeletedFirst(w) ==
    LET h == handling[w]
    IN  /\ h # NoFileCall
        /\ MayDeleteFirst(kindOf[h.slot], h.op)
        /\ Head(StepsOf(h.slot, h.op)) = "delete"
        /\ fileSteps[w] # StepsOf(h.slot, h.op)

FileCallDies(w) ==
    /\ handling[w] # NoFileCall
    /\ lost' = IF HasDeletedFirst(w) THEN lost \cup {handling[w].old} ELSE lost
    /\ fileSteps' = [fileSteps EXCEPT ![w] = <<>>]
    /\ handling' = [handling EXCEPT ![w] = NoFileCall]
    /\ UNCHANGED <<kindOf, there, named, stored, used>>

FilesInit ==
    /\ kindOf \in FileSlots
    /\ there = [s \in Slots |-> StepsOf(s, "create") = None]
    /\ named = [s \in Slots |-> NoKey]
    /\ stored = {}
    /\ used = 0
    /\ lost = {}
    /\ fileSteps = [w \in FileWorkers |-> <<>>]
    /\ handling = [w \in FileWorkers |-> NoFileCall]

FilesNext ==
    \E w \in FileWorkers :
       \/ \E s \in Slots, op \in FileOps : StartFileCall(w, s, op)
       \/ DeleteOldFile(w)
       \/ UploadFile(w)
       \/ WriteKey(w)
       \/ UnnameKey(w)
       \/ DropRow(w)
       \/ FileCallDies(w)

FilesSpec == FilesInit /\ [][FilesNext]_fileVars

(***************************************************************************)
(* A row names a file that is no longer stored only because of the         *)
(* operations that delete first, while one of them runs or after it died:  *)
(* removals, and the replacement of an incident's attachment or of a       *)
(* justificatif.  The replacement of a photo or of a document of an        *)
(* expense never does, whatever overlaps and wherever it dies.             *)
(***************************************************************************)
RowsHaveTheirFiles ==
    \A s \in Slots :
       \/ named[s] \in stored \cup lost \cup {NoKey}
       \/ \E w \in FileWorkers : HasDeletedFirst(w) /\ handling[w].old = named[s]
=============================================================================
