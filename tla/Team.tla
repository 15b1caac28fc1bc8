---------------------------------- MODULE Team ----------------------------------
(***************************************************************************)
(* The people of the orphanage: members of the staff, candidates and       *)
(* former members are rows of three tables, and a person goes from one to  *)
(* another (StaffService, one transaction: a row is created in one table   *)
(* and deleted in the other).  The team page of hadoum_frontend loads the  *)
(* three lists at once, each by a call of its own, and from then on moves  *)
(* and patches what it shows by hand, after chains of up to four calls.    *)
(*                                                                         *)
(* One browser has the page open, with calls in flight; others change the  *)
(* tables meanwhile.  A call may fail, or its handler die, before any step.*)
(***************************************************************************)
EXTENDS Naturals, FiniteSets, Sequences

CONSTANTS
    MaxTeamRows,    \* bound: rows of the three tables
    MaxTeamEdits,   \* bound: versions of a row
    TeamCalls       \* calls of the page that may be in flight together

ASSUME TeamAssumption == MaxTeamRows \in Nat

VARIABLES
    tableOf,     \* the table of every row
    version,     \* its version, 0 if it is not there
    origin,      \* the row its person was entered as
    listed,      \* the version of every row on the page, 0 if it is not shown
    readTables,  \* the lists the page has read; it is open with all three
    chain,       \* the steps that every call has left
    member,      \* what it holds in memory
    teamAstray   \* history: what the page cannot know of, or was not told

teamVars ==
    <<tableOf, version, origin, listed, readTables, chain, member, teamAstray>>

Tables == {"staff", "candidate", "former"}
TeamRows == 1..MaxTeamRows

There(r) == version[r] > 0
IsFreeRow(r) == tableOf[r] = "none" /\ \A q \in TeamRows : q < r => tableOf[q] # "none"
PageIsOpen == readTables = Tables

\* Bound: once the page has gone astray nothing new begins, and what is in flight
\* goes on.
IsFollowed == ~ teamAstray

\* from: the row a call is about.  to: the row it made, if any, and otherwise the
\* same.  into: the table a row is made in.  seen: the version to show.
NoTeamCall == [from |-> 0, to |-> 0, into |-> "none", seen |-> 0]

(***************************************************************************)
(* The chains.  move: the transaction.  edit: updates of the row, with the *)
(* uploads of its files.  get: the row is read again.  show: the lists of  *)
(* the page are changed.                                                   *)
(***************************************************************************)
Exit(r, c) == tableOf[r] = "staff" /\ c = <<"move", "show">>

Integrate(r, c) ==
    tableOf[r] = "candidate" /\ c \in {<<"move", "edit", "get", "show">>, <<"edit", "show">>}

IntegrateNow(r, c) == tableOf[r] = "candidate" /\ c = <<"move", "get", "show">>

Reintegrate(r, c) ==
    tableOf[r] = "former" /\ c \in {<<"move", "edit", "get", "show">>, <<"edit", "show">>}

ReintegrateNow(r, c) == tableOf[r] = "former" /\ c = <<"move", "get", "show">>

EditMember(r, c) == tableOf[r] = "staff" /\ c = <<"edit", "edit", "get", "show">>

EditCandidate(r, c) ==
    tableOf[r] = "candidate" /\ c \in {<<"edit", "show">>, <<"edit", "edit", "show">>}

\* A candidate whose files fail is shown as created.
AddMember(t, c) == t = "staff" /\ c = <<"create", "edit", "get", "show">>

AddCandidate(t, c) ==
    t = "candidate" /\ c \in {<<"create", "show">>, <<"create", "edit", "show">>}

Chains ==
    {<<"move", "show">>, <<"move", "get", "show">>, <<"move", "edit", "get", "show">>,
     <<"edit", "show">>, <<"edit", "edit", "show">>, <<"edit", "edit", "get", "show">>}

NewChains ==
    {<<"create", "show">>, <<"create", "edit", "show">>, <<"create", "edit", "get", "show">>}

\* What each list of the page offers for its rows.
ActiveTab(r, c) == Exit(r, c) \/ EditMember(r, c)
CandidatesTab(r, c) == Integrate(r, c) \/ IntegrateNow(r, c) \/ EditCandidate(r, c)
FormerTab(r, c) == Reintegrate(r, c) \/ ReintegrateNow(r, c)

About(r, c) == ActiveTab(r, c) \/ CandidatesTab(r, c) \/ FormerTab(r, c)

\* promote and reintegrate make members, exitStaff makes former members.
MovesTo(t) == IF t = "staff" THEN "former" ELSE "staff"

(***************************************************************************)
(* What the server does.  A transaction fails if the row it deletes is     *)
(* gone since it was read.                                                 *)
(***************************************************************************)
Enter(r, t) ==
    /\ IsFreeRow(r)
    /\ tableOf' = [tableOf EXCEPT ![r] = t]
    /\ version' = [version EXCEPT ![r] = 1]
    /\ origin' = [origin EXCEPT ![r] = r]

MoveInto(from, r, t) ==
    /\ IsFreeRow(r)
    /\ tableOf' = [tableOf EXCEPT ![r] = t]
    /\ version' = [version EXCEPT ![r] = 1, ![from] = 0]
    /\ origin' = [origin EXCEPT ![r] = origin[from]]

\* Mutant: the row that is left need not be there any more (deleteMany).
MoveThoughGone(from, r, t) == MoveInto(from, r, t)

Move(from, r, t) == There(from) /\ MoveInto(from, r, t)

Edit(r) ==
    /\ version[r] \in 1..(MaxTeamEdits - 1)
    /\ version' = [version EXCEPT ![r] = @ + 1]
    /\ UNCHANGED <<tableOf, origin>>

\* By another browser: the page cannot know of it, if it has read the list.
Elsewhere(tables) ==
    /\ IsFollowed
    /\ teamAstray' = (tables \cap readTables # {})
    /\ UNCHANGED <<listed, readTables, chain, member>>

EnterElsewhere(r, t) == Enter(r, t) /\ t # "former" /\ Elsewhere({t})

MoveElsewhere(from, r) ==
    /\ tableOf[from] # "none"
    /\ Move(from, r, MovesTo(tableOf[from]))
    /\ Elsewhere({tableOf[from], MovesTo(tableOf[from])})

EditElsewhere(r) == Edit(r) /\ Elsewhere({tableOf[r]})

(***************************************************************************)
(* The calls of the page.                                                  *)
(***************************************************************************)
StartTeamCall(c, call, steps) ==
    /\ PageIsOpen
    /\ IsFollowed
    /\ chain[c] = <<>>
    /\ chain' = [chain EXCEPT ![c] = steps]
    /\ member' = [member EXCEPT ![c] = call]
    /\ UNCHANGED <<tableOf, version, origin, listed, readTables>>

InFlightAbout(r) ==
    {d \in TeamCalls : chain[d] # <<>> /\ r \in {member[d].from, member[d].to}}

\* Two calls about one row, which overlap, are answered in any order.
CallAbout(c, r, steps) ==
    /\ listed[r] > 0
    /\ About(r, steps)
    /\ StartTeamCall(c, [from |-> r, to |-> r, into |-> MovesTo(tableOf[r]), seen |-> 0],
                      steps)
    /\ teamAstray' = (teamAstray \/ InFlightAbout(r) # {})

CallToAdd(c, t, steps) ==
    /\ AddMember(t, steps) \/ AddCandidate(t, steps)
    /\ StartTeamCall(c, [NoTeamCall EXCEPT !.into = t], steps)
    /\ UNCHANGED teamAstray

IsAt(c, step) == chain[c] # <<>> /\ Head(chain[c]) = step

Sees(c, r, v) ==
    /\ member' = [member EXCEPT ![c].to = r, ![c].seen = v]
    /\ chain' = [chain EXCEPT ![c] = Tail(@)]
    /\ UNCHANGED <<listed, readTables, teamAstray>>

CreateRow(c, r) == IsAt(c, "create") /\ Enter(r, member[c].into) /\ Sees(c, r, 1)

MoveRow(c, r) ==
    /\ IsAt(c, "move")
    /\ Move(member[c].from, r, member[c].into)
    /\ Sees(c, r, 1)

EditRow(c) ==
    LET r == member[c].to
    IN  IsAt(c, "edit") /\ Edit(r) /\ Sees(c, r, version[r] + 1)

GetRow(c) ==
    LET r == member[c].to
    IN  /\ IsAt(c, "get")
        /\ There(r)
        /\ Sees(c, r, version[r])
        /\ UNCHANGED <<tableOf, version, origin>>

EndTeamCall(c) ==
    /\ chain' = [chain EXCEPT ![c] = <<>>]
    /\ member' = [member EXCEPT ![c] = NoTeamCall]
    /\ UNCHANGED <<tableOf, version, origin, readTables>>

\* A row made is put first, the row it was made of is taken out; a row edited is
\* put in its place, if it still has one.
ShowMember(c) ==
    LET m == member[c]
    IN  /\ IsAt(c, "show")
        /\ listed' = [r \in TeamRows |->
              IF r = m.to /\ (m.from # m.to \/ listed[r] # 0) THEN m.seen
              ELSE IF r = m.from THEN 0
              ELSE listed[r]]
        /\ EndTeamCall(c)
        /\ UNCHANGED teamAstray

\* The page is told of a failure, not of what the call did before it.
TeamCallDies(c) ==
    /\ chain[c] # <<>>
    /\ teamAstray' = (teamAstray \/ member[c].seen # 0)
    /\ EndTeamCall(c)
    /\ UNCHANGED listed

\* The three calls of the page as it opens.
ReadTable(t) ==
    /\ t \notin readTables
    /\ readTables' = readTables \cup {t}
    /\ listed' = [r \in TeamRows |-> IF tableOf[r] = t THEN version[r] ELSE listed[r]]
    /\ UNCHANGED <<tableOf, version, origin, chain, member, teamAstray>>

TeamInit ==
    /\ \E n \in 0..MaxTeamRows, t \in Tables :
          /\ n < 2
          /\ tableOf = [r \in TeamRows |-> IF r <= n THEN t ELSE "none"]
          /\ version = [r \in TeamRows |-> IF r <= n THEN 1 ELSE 0]
          /\ origin = [r \in TeamRows |-> IF r <= n THEN r ELSE 0]
    /\ listed = [r \in TeamRows |-> 0]
    /\ readTables = {}
    /\ chain = [c \in TeamCalls |-> <<>>]
    /\ member = [c \in TeamCalls |-> NoTeamCall]
    /\ teamAstray = FALSE

TeamNext ==
    \/ \E t \in Tables : ReadTable(t)
    \/ \E r \in TeamRows :
          \/ \E t \in Tables : EnterElsewhere(r, t)
          \/ \E from \in TeamRows : MoveElsewhere(from, r)
          \/ EditElsewhere(r)
    \/ \E c \in TeamCalls :
          \/ \E r \in TeamRows, steps \in Chains : CallAbout(c, r, steps)
          \/ \E t \in Tables, steps \in NewChains : CallToAdd(c, t, steps)
          \/ \E r \in TeamRows : CreateRow(c, r) \/ MoveRow(c, r)
          \/ EditRow(c)
          \/ GetRow(c)
          \/ ShowMember(c)
          \/ TeamCallDies(c)

(***************************************************************************)
(* Whoever was entered is on one list, and on one only, whatever overlaps  *)
(* and wherever it dies.  And a page with nothing in flight shows the      *)
(* lists as they are, unless a call of another browser changed one it had  *)
(* read, two calls about one row overlapped, or a chain failed half-way.   *)
(***************************************************************************)
EveryoneIsOnOneList ==
    /\ \A r \in TeamRows :
          origin[r] = r => Cardinality({q \in TeamRows : origin[q] = r /\ There(q)}) = 1
    /\ PageIsOpen /\ ~ teamAstray /\ (\A c \in TeamCalls : chain[c] = <<>>) =>
          listed = version
=============================================================================
