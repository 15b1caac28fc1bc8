---------------------------------- MODULE Alerts ----------------------------------
(***************************************************************************)
(* The alerts of hadoum_api that are sent once: stock that runs low,       *)
(* contracts that expire, goods that do not come back, and so on.  No      *)
(* clock sends them.  Whoever reads the list of a service makes it look,   *)
(* for every row and every condition in turn that the row meets, for a     *)
(* notification about it, to whomever; if there is none, it sends one to   *)
(* every director, all at once and each by a statement of its own          *)
(* (NotificationsService.createForRole).  Nothing is locked.  A reading    *)
(* here is a request with all its statements: it ends with the last.       *)
(*                                                                         *)
(* A behaviour is about one row of one service.                            *)
(***************************************************************************)
EXTENDS Naturals, FiniteSets

CONSTANTS
    MaxAlertTypes,   \* alerts of a row, in the order they are looked for
    Recipients,      \* the directors
    AlertReaders     \* readings of the list that may overlap

ASSUME AlertsAssumption == MaxAlertTypes \in Nat

VARIABLES
    swallows,   \* whether the service goes on when an alert cannot be sent
    inbox,      \* how many notifications of each alert every director has
    readings,   \* what every reading has left to do, and under way
    dealtWith,  \* history: alerts that a reading found, or sent
    crossing,   \* history: alerts looked for while another reading sent them
    unsent      \* history: notifications that could not be created

alertVars == <<swallows, inbox, readings, dealtWith, crossing, unsent>>

AlertTypes == 1..MaxAlertTypes

\* due: conditions met when the list was read, still to be dealt with.
\* creations: the statements that are under way, of an alert for a director.
NoReading == [due |-> {}, creations |-> {}]

IsCurrent(w, t) == t \in readings[w].due /\ \A u \in readings[w].due : t <= u

Sends(w, t) == \E r \in Recipients : <<t, r>> \in readings[w].creations

\* findAll: the conditions follow from the row and the date, which change at will.
ReadAlerts(w, types) ==
    /\ readings[w] = NoReading
    /\ types # {}
    /\ readings' = [readings EXCEPT ![w].due = types]
    /\ UNCHANGED <<swallows, inbox, dealtWith, crossing, unsent>>

Sent(t) == {r \in Recipients : inbox[t][r] > 0}

\* Mutant: for a notification of any kind about the row.
AlreadyNotifiedOfAnything(t) == \E u \in AlertTypes : Sent(u) # {}

AlreadyNotified(t) == Sent(t) # {}

\* findFirst, and the directors, who do not change.
LookForAlert(w, t) ==
    /\ IsCurrent(w, t)
    /\ ~ Sends(w, t)
    /\ IF AlreadyNotified(t)
       THEN /\ readings' = [readings EXCEPT ![w].due = @ \ {t}]
            /\ dealtWith' = dealtWith \cup {t}
            /\ UNCHANGED crossing
       ELSE /\ readings' = [readings EXCEPT ![w].creations = @ \cup {t} \X Recipients]
            /\ crossing' = crossing \cup {u \in {t} : \E v \in AlertReaders : Sends(v, t)}
            /\ UNCHANGED dealtWith
    /\ UNCHANGED <<swallows, inbox, unsent>>

(***************************************************************************)
(* Promise.all: the reading goes on after the last creation, or as soon as *)
(* one fails, to the next alert, or to none if the service lets that fail  *)
(* the reading.  The creations that it then no longer waits for go on.     *)
(***************************************************************************)
AlertSentTo(w, t, r, failed) ==
    LET h == readings[w]
        rest == h.creations \ {<<t, r>>}
        goesOn == failed \/ \A q \in Recipients : <<t, q>> \notin rest
        due == IF ~ goesOn \/ t \notin h.due THEN h.due
               ELSE IF failed /\ ~ swallows THEN {}
               ELSE h.due \ {t}
    IN  /\ readings' = [readings EXCEPT ![w] = [due |-> due, creations |-> rest]]
        /\ dealtWith' = IF goesOn THEN dealtWith \cup {t} ELSE dealtWith

CreateAlert(w, t, r) ==
    /\ <<t, r>> \in readings[w].creations
    /\ inbox' = [inbox EXCEPT ![t][r] = @ + 1]
    /\ AlertSentTo(w, t, r, FALSE)
    /\ UNCHANGED <<swallows, crossing, unsent>>

CreateAlertFails(w, t, r) ==
    /\ <<t, r>> \in readings[w].creations
    /\ unsent' = unsent \cup {<<t, r>>}
    /\ AlertSentTo(w, t, r, TRUE)
    /\ UNCHANGED <<swallows, inbox, crossing>>

\* With the creations it no longer waits for.
ReadingDies(w) ==
    /\ readings[w] # NoReading
    /\ unsent' = unsent \cup readings[w].creations
    /\ readings' = [readings EXCEPT ![w] = NoReading]
    /\ UNCHANGED <<swallows, inbox, dealtWith, crossing>>

AlertsInit ==
    /\ swallows \in BOOLEAN
    /\ inbox = [t \in AlertTypes |-> [r \in Recipients |-> 0]]
    /\ readings = [w \in AlertReaders |-> NoReading]
    /\ dealtWith = {}
    /\ crossing = {}
    /\ unsent = {}

AlertsNext ==
    \E w \in AlertReaders :
       \/ \E types \in SUBSET AlertTypes : ReadAlerts(w, types)
       \/ \E t \in AlertTypes : LookForAlert(w, t)
       \/ \E t \in AlertTypes, r \in Recipients :
             CreateAlert(w, t, r) \/ CreateAlertFails(w, t, r)
       \/ ReadingDies(w)

(***************************************************************************)
(* No director is told twice of one thing, unless two readings of the list *)
(* overlapped, or one that failed left creations behind.  And no reading   *)
(* passes over an alert that somebody has not received, unless it is being *)
(* created for him or could not be: then he never will receive it, if a    *)
(* colleague has, since one notification is enough for the alert to count  *)
(* as sent.                                                                *)
(***************************************************************************)
AlertsComeOnce ==
    \A t \in AlertTypes, r \in Recipients :
       /\ inbox[t][r] > 1 => t \in crossing
       /\ t \in dealtWith =>
             \/ inbox[t][r] > 0
             \/ <<t, r>> \in unsent
             \/ \E w \in AlertReaders : <<t, r>> \in readings[w].creations
=============================================================================
