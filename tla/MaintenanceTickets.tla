-------------------------- MODULE MaintenanceTickets --------------------------
(***************************************************************************)
(* MaintenanceTicketsService.  The class of a ticket is its urgency: the   *)
(* closure of a critical one is to be validated.                           *)
(***************************************************************************)
EXTENDS ReviewedResources

Ticket == "MAINTENANCE_TICKET"

RoutineTicketStatuses == {"OUVERT", "ASSIGNE", "EN_COURS", "EN_ATTENTE"}

Urgencies == {"CRITIQUE", "MOYENNE"}

CreateTicket(w, x, urgency) ==
    /\ IsNew(Ticket, x)
    /\ Insert(w, x, [SetStatus("OUVERT") EXCEPT !.class = urgency])

\* The urgency changes at any time, of a critical ticket too.
CanUpdateTicket(x, patch) ==
    /\ Is(Ticket, x)
    /\ patch.status # "keep" =>
          {rows[x].status, patch.status} \subseteq RoutineTicketStatuses

UpdateTicket(w, x, patch) == CanUpdateTicket(x, patch) /\ StartWrite(w, x, patch)

AssignTicket(w, x) ==
    /\ Is(Ticket, x)
    /\ StartWrite(w, x,
          SetStatus(IF rows[x].status = "OUVERT" THEN "ASSIGNE" ELSE rows[x].status))

CanCloseTicket(x) == Is(Ticket, x) /\ rows[x].class # "CRITIQUE"

CloseTicket(w, x) == CanCloseTicket(x) /\ StartWrite(w, x, SetStatus("FERME"))

\* Nothing but create looks whether one is pending, nor at the status.
SubmitTicket(w, x, user) ==
    /\ Is(Ticket, x)
    /\ StartSubmit(w, x, user, "none", "none")

ApproveTicket(w, x, user) ==
    /\ Is(Ticket, x)
    /\ StartReview(w, x, user, "APPROVED", SetStatus("FERME"), FALSE)

RefuseTicket(w, x, user, verdict) ==
    /\ Is(Ticket, x)
    /\ StartReview(w, x, user, verdict, NoPatch, FALSE)

TicketPatches ==
    {[NoPatch EXCEPT !.class = urgency] : urgency \in Urgencies} \cup
    {SetStatus(s) : s \in RoutineTicketStatuses}

TicketsNext(w) ==
    \E x \in Items :
       \/ \E urgency \in Urgencies : CreateTicket(w, x, urgency)
       \/ \E patch \in TicketPatches : UpdateTicket(w, x, patch)
       \/ AssignTicket(w, x)
       \/ CloseTicket(w, x)
       \/ \E user \in Directors : SubmitTicket(w, x, user)
       \/ \E user \in Supervisors :
             \/ ApproveTicket(w, x, user)
             \/ \E verdict \in Verdicts \ {"APPROVED"} : RefuseTicket(w, x, user, verdict)
=============================================================================
