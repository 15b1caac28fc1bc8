---------------------------------- MODULE Menus ----------------------------------
(***************************************************************************)
(* Sessions and menus: a browser in which users log in and out, the pages  *)
(* that the menu of their role offers, the calls each page sends as it     *)
(* opens, and what the guards of hadoum_api make of them (JwtAuthGuard,    *)
(* then RolesGuard).  A demo session has no token; the token of another    *)
(* expires in the end.  Calls stay in flight when their page closes, when  *)
(* their user logs out, and when another logs in.                          *)
(***************************************************************************)
EXTENDS Naturals, FiniteSets

CONSTANTS
    UserRoles,
    MaxLogins,   \* bound: sessions of the browser
    MaxVisits    \* bound: pages opened

ASSUME UserRolesAssumption ==
    UserRoles = {"director", "educator", "supervisor", "board"}

VARIABLES
    session,      \* the session of the browser
    onPage,       \* the page open
    attempts,     \* logins under way: demo or real, and the role
    submitting,   \* whether the login form is held
    expired,      \* sessions whose token has expired
    unanswered,   \* calls in flight
    opened,       \* sessions opened so far
    visits        \* pages opened so far

menuVars ==
    <<session, onPage, attempts, submitting, expired, unanswered, opened, visits>>

Login == "login"

NoSession == [number |-> 0, role |-> "none", token |-> FALSE]

(***************************************************************************)
(* Who may call what.                                                      *)
(***************************************************************************)
OfTheOffice == {"director", "supervisor"}

Allowed(endpoint) ==
    CASE endpoint \in {"staff", "children", "incidents", "finances", "operations",
                       "validations", "donors", "spaces", "administration", "reports"} ->
            OfTheOffice
      [] endpoint = "budget-defaults" -> {"supervisor"}
      [] endpoint = "dashboard" -> OfTheOffice \cup {"board"}
      [] endpoint = "notifications" -> UserRoles

NAV_BY_ROLE(role) ==
    {"dashboard"} \cup
    CASE role = "director" ->
            {"children", "team", "reports", "incidents", "finances", "donateurs",
             "administration"}
      [] role = "supervisor" ->
            {"validations", "incidents", "reports", "finances", "donateurs",
             "administration"}
      [] role = "educator" -> {"classes", "attendance", "activities", "messages"}
      [] role = "board" -> {"indicators", "reports", "exports"}

DashboardCalls(role) ==
    CASE role = "director" -> {"dashboard", "operations", "finances"}
      [] role = "supervisor" -> {"dashboard", "operations", "validations"}
      [] role = "board" -> {"dashboard"}
      [] role = "educator" -> {}

\* Mutant: the default lines of the budget are seeded whoever opens the page.
FinancesCallsOfAnyone(role) == {"budget-defaults"}

FinancesCalls(role) == IF role = "supervisor" THEN {"budget-defaults"} ELSE {"finances"}

Loads(role, p) ==
    CASE p = "dashboard" -> DashboardCalls(role)
      [] p = "finances" -> FinancesCalls(role)
      [] p = "children" -> {"children"}
      [] p = "team" -> {"staff"}
      [] p = "incidents" -> {"incidents", "children", "staff", "spaces"}
      [] p = "reports" -> {"reports"}
      [] p = "validations" -> {"validations"}
      [] p = "administration" -> {"administration"}
      [] p = "donateurs" -> IF role = "board" THEN {} ELSE {"donors"}
      [] OTHER -> {}

\* The finances are loaded after the default lines, whatever became of these.
ThenLoads(endpoints) == IF "budget-defaults" \in endpoints THEN {"finances"} ELSE {}

(***************************************************************************)
(* Calls.  What a page sends together is in flight together, and counts as *)
(* one call, answered when its last answer is in, or its first refusal.    *)
(* It is sent with the session of the moment, which for one that follows   *)
(* another may not be that of its page.                                    *)
(***************************************************************************)
Calls(endpoints, p, by, as) ==
    IF endpoints = {} THEN {}
    ELSE {[endpoints |-> endpoints, page |-> p, by |-> by, as |-> as]}

Visit(s, p, endpoints) ==
    /\ onPage' = p
    /\ unanswered' = unanswered \cup Calls(endpoints, p, s.number, s)

IsLive(s) == s.token /\ s.number \notin expired

OpenPage(p) ==
    /\ p # onPage
    /\ visits < MaxVisits
    /\ visits' = visits + 1
    /\ Visit(session, p, Loads(session.role, p))
    /\ UNCHANGED <<session, attempts, submitting, expired, opened>>

\* The browser forgets what it had in flight, and reads the session it stored.
ReloadPage ==
    /\ onPage # Login
    /\ visits < MaxVisits
    /\ visits' = visits + 1
    /\ unanswered' = Calls(Loads(session.role, onPage) \cup {"notifications"}, onPage,
                            session.number, session)
    /\ attempts' = {}
    /\ UNCHANGED <<session, onPage, submitting, expired, opened>>

(***************************************************************************)
(* Sessions.                                                               *)
(***************************************************************************)
\* The demo profiles stay at hand while the form is held.
TryLogin(kind, role) ==
    /\ onPage = Login
    /\ kind = "real" => ~ submitting
    /\ opened + Cardinality(attempts) < MaxLogins
    /\ attempts' = attempts \cup {<<kind, role>>}
    /\ submitting' = TRUE
    /\ UNCHANGED <<session, onPage, expired, unanswered, opened, visits>>

\* The form it was sent from may have given way to another.
LoginRefused(role) ==
    /\ <<"real", role>> \in attempts
    /\ attempts' = attempts \ {<<"real", role>>}
    /\ submitting' \in {submitting, FALSE}
    /\ UNCHANGED <<session, onPage, expired, unanswered, opened, visits>>

\* Whatever session there is by then.  The login page gives way to the dashboard.
LoggedIn(kind, role) ==
    LET s == [number |-> opened + 1, role |-> role, token |-> kind = "real"]
    IN  /\ <<kind, role>> \in attempts
        /\ opened < MaxLogins
        /\ opened' = opened + 1
        /\ session' = s
        /\ attempts' = attempts \ {<<kind, role>>}
        /\ submitting' = FALSE
        /\ IF onPage \in {Login, "dashboard"}
           THEN Visit(s, "dashboard", DashboardCalls(role) \cup
                         IF onPage = Login THEN {"notifications"} ELSE {})
           ELSE UNCHANGED <<onPage, unanswered>>
        /\ UNCHANGED <<expired, visits>>

Logout ==
    /\ onPage # Login
    /\ session' = NoSession
    /\ onPage' = Login
    /\ UNCHANGED <<attempts, submitting, expired, unanswered, opened, visits>>

TokenExpires ==
    /\ IsLive(session)
    /\ expired' = expired \cup {session.number}
    /\ UNCHANGED <<session, onPage, attempts, submitting, unanswered, opened, visits>>

(***************************************************************************)
(* Answers.                                                                *)
(***************************************************************************)
Rest(c) == unanswered \ {c}

Following(c) == Calls(ThenLoads(c.endpoints), c.page, c.by, session)

\* RolesGuard: forbidden for the role.
Answered(c) ==
    /\ IsLive(c.as)
    /\ unanswered' = Rest(c) \cup Following(c)
    /\ UNCHANGED <<session, onPage, attempts, submitting, expired, opened, visits>>

\* JwtAuthGuard: the browser drops its session and loads the login page anew,
\* whoever uses it by now.
Unauthorized(c) ==
    /\ ~ IsLive(c.as)
    /\ session' = NoSession
    /\ IF onPage = Login
       THEN /\ unanswered' = Rest(c) \cup Following(c)
            /\ UNCHANGED <<onPage, attempts, submitting>>
       ELSE /\ unanswered' = {}
            /\ onPage' = Login
            /\ attempts' = {}
            /\ submitting' = FALSE
    /\ UNCHANGED <<expired, opened, visits>>

NotReceived(c) ==
    /\ unanswered' = Rest(c) \cup Following(c)
    /\ UNCHANGED <<session, onPage, attempts, submitting, expired, opened, visits>>

MenusInit ==
    /\ session = NoSession
    /\ onPage = Login
    /\ attempts = {}
    /\ submitting = FALSE
    /\ expired = {}
    /\ unanswered = {}
    /\ opened = 0
    /\ visits = 0

MenusNext ==
    \/ \E role \in UserRoles :
          \/ \E kind \in {"demo", "real"} : TryLogin(kind, role) \/ LoggedIn(kind, role)
          \/ LoginRefused(role)
    \/ Logout
    \/ TokenExpires
    \/ onPage # Login /\ \E p \in NAV_BY_ROLE(session.role) : OpenPage(p)
    \/ ReloadPage
    \/ \E c \in unanswered : Answered(c) \/ Unauthorized(c) \/ NotReceived(c)

(***************************************************************************)
(* A page opened from the menu is refused nothing as it loads, but for the *)
(* reports of the board: its menu has them, their controller does not let  *)
(* it in.  And no call of its own can throw out a user whose token is      *)
(* valid: only the belated one of a session that came before on the same   *)
(* browser.                                                                *)
(***************************************************************************)
OffersAll(c) ==
    \A e \in c.endpoints :
       c.as.role \in Allowed(e) \/ (c.as.role = "board" /\ e = "reports")

MenuPagesLoad ==
    \A c \in unanswered :
       /\ IsLive(c.as) /\ c.by = c.as.number /\ c.page \in NAV_BY_ROLE(c.as.role) =>
             OffersAll(c)
       /\ IsLive(session) /\ ~ IsLive(c.as) => c.by < session.number
=============================================================================
