------------------------------ MODULE ScreensProofs ------------------------------
(***************************************************************************)
(* Proofs about the screens: the box that looks for a contact, the         *)
(* sessions with their menus, the page of the team, and the pages that     *)
(* show a list.  Each part has an inductive invariant, one lemma for each  *)
(* action or group of actions, and its theorems.                           *)
(***************************************************************************)
EXTENDS ContactSearch, Menus, Team, ListPages, FiniteSetTheorems, TLAPS

(***************************************************************************)
(* ContactSearch: the request that is out, or listed, is that of the box.  *)
(***************************************************************************)
SearchTypeOK ==
    /\ restriction \in SUBSET Categories
    /\ categoriesRead \in BOOLEAN
    /\ box \in Boxes
    /\ waiting \in [latest : Requests \cup {NoRequest}, before : SUBSET Requests]

\* What an open list that does not pause has asked for, or has been told.
ListFollowsTheBox ==
    box.open /\ ~ box.pausing =>
       IF waiting.latest # NoRequest
       THEN waiting.latest = Request(box, categoriesRead)
       ELSE listedFor \in {NoRequest, Request(box, categoriesRead)}

\* A category is chosen among those the caller wants.
ChosenIsWanted ==
    box.filter # NoCategory =>
       categoriesRead /\ (restriction # {} => box.filter \in restriction)

SearchInv ==
    /\ SearchTypeOK
    /\ ListFollowsTheBox
    /\ ChosenIsWanted

LEMMA NonEmptyIsCounted ==
    ASSUME NEW S \in SUBSET Categories
    PROVE  /\ Cardinality(S) \in Nat
           /\ Cardinality(S) = 0 <=> S = {}
<1>1. IsFiniteSet(S)
  BY SearchAssumption, FS_Subset
<1>2. QED
  BY <1>1, FS_EmptySet, FS_CardinalityType

LEMMA RequestType ==
    ASSUME restriction \in SUBSET Categories, NEW b \in Boxes, NEW read \in BOOLEAN
    PROVE  /\ Request(b, read) \in Requests
           /\ Request(b, read) # NoRequest
<1>1. Wanted(read) \in SUBSET Categories
  BY DEF Wanted
<1>2. Cardinality(Wanted(read)) = 1 => (CHOOSE c \in Wanted(read) : TRUE) \in Categories
  BY <1>1, NonEmptyIsCounted
<1>3. Request(b, read) \in Requests
  BY <1>2 DEF Request, Requests, Boxes
<1>4. \A q \in Requests : q # NoRequest
  BY SearchAssumption DEF Requests, NoRequest
<1>5. QED
  BY <1>3, <1>4

\* The box as it is rendered, whatever was changed of it.
LEMMA RenderBoxOK ==
    ASSUME SearchInv, NEW b \in Boxes, NEW read \in BOOLEAN, RenderBox(b, read),
           categoriesRead' = read, UNCHANGED <<restriction, waiting, listedFor>>,
           b.filter # NoCategory => read /\ (restriction # {} => b.filter \in restriction)
    PROVE  SearchInv'
<1> PICK pause \in BOOLEAN :
       pause = (/\ b.open
                /\ \/ box.pausing
                   \/ ~ box.open
                   \/ Request(b, read) # Request(box, categoriesRead))
  OBVIOUS
<1>1. box' = [b EXCEPT !.pausing = pause]
  BY DEF RenderBox
<1>2. /\ box' \in Boxes /\ box'.open = b.open /\ box'.pausing = pause
      /\ box'.text = b.text /\ box'.filter = b.filter
  BY <1>1 DEF Boxes
<1>3. Request(box, categoriesRead)' = Request(b, read)
  BY <1>2 DEF Request, Wanted
<1>4. SearchTypeOK'
  BY <1>2 DEF SearchInv, SearchTypeOK
<1>5. b.open /\ ~ pause =>
         box.open /\ ~ box.pausing /\ Request(b, read) = Request(box, categoriesRead)
  BY DEF SearchInv, SearchTypeOK, Boxes
<1>6. ListFollowsTheBox'
  BY <1>2, <1>3, <1>5 DEF SearchInv, ListFollowsTheBox
<1>7. ChosenIsWanted'
  BY <1>2 DEF ChosenIsWanted
<1>8. QED
  BY <1>4, <1>6, <1>7 DEF SearchInv

\* What the box leaves alone when it opens, closes, or takes a text.
LEMMA BoxEdits ==
    ASSUME NEW x \in Boxes, NEW t \in Texts, NEW isOpen \in BOOLEAN
    PROVE  /\ [x EXCEPT !.open = isOpen, !.text = t] \in Boxes
           /\ [x EXCEPT !.open = isOpen, !.text = t].filter = x.filter
           /\ [x EXCEPT !.open = isOpen] \in Boxes
           /\ [x EXCEPT !.open = isOpen].filter = x.filter
           /\ [x EXCEPT !.text = t, !.open = isOpen] \in Boxes
           /\ [x EXCEPT !.text = t, !.open = isOpen].filter = x.filter
           /\ [x EXCEPT !.open = FALSE, !.form = TRUE, !.text = t] \in Boxes
           /\ [x EXCEPT !.open = FALSE, !.form = TRUE, !.text = t].filter = x.filter
           /\ [x EXCEPT !.form = FALSE, !.open = TRUE, !.text = t] \in Boxes
           /\ [x EXCEPT !.form = FALSE, !.open = TRUE, !.text = t].filter = x.filter
  BY DEF Boxes

LEMMA ActOK ==
    ASSUME SearchInv, NEW b \in Boxes, b.filter = box.filter, Act(b)
    PROVE  SearchInv'
<1>1. categoriesRead \in BOOLEAN
  BY DEF SearchInv, SearchTypeOK
<1>2. /\ RenderBox(b, categoriesRead)
      /\ UNCHANGED <<restriction, categoriesRead, waiting, listedFor>>
  BY DEF Act
<1>3. b.filter # NoCategory =>
         categoriesRead /\ (restriction # {} => b.filter \in restriction)
  BY DEF SearchInv, ChosenIsWanted
<1>4. QED
  BY <1>1, <1>2, <1>3, RenderBoxOK

LEMMA ChooseCategoryOK ==
    ASSUME SearchInv, NEW c \in Categories \cup {NoCategory}, ChooseCategory(c)
    PROVE  SearchInv'
<1>1. box \in Boxes /\ categoriesRead \in BOOLEAN
  BY DEF SearchInv, SearchTypeOK
<1> PICK b : b = [box EXCEPT !.filter = c]
  OBVIOUS
<1>2. b \in Boxes /\ b.filter = c
  BY <1>1 DEF Boxes
<1>3. /\ RenderBox(b, categoriesRead)
      /\ UNCHANGED <<restriction, categoriesRead, waiting, listedFor>>
      /\ c \in ChipCategories \cup {NoCategory}
  BY DEF ChooseCategory, Act
<1>4. c # NoCategory => categoriesRead /\ (restriction # {} => c \in restriction)
  BY <1>3 DEF ChipCategories
<1>5. QED
  BY <1>1, <1>2, <1>3, <1>4, RenderBoxOK

LEMMA AskOK ==
    ASSUME SearchInv, Ask
    PROVE  SearchInv'
<1>1. /\ restriction \in SUBSET Categories /\ categoriesRead \in BOOLEAN /\ box \in Boxes
      /\ waiting \in [latest : Requests \cup {NoRequest}, before : SUBSET Requests]
  BY DEF SearchInv, SearchTypeOK
<1> PICK q : q = Request(box, categoriesRead)
  OBVIOUS
<1>2. q \in Requests /\ q # NoRequest
  BY <1>1, RequestType
<1>3. /\ box' = [box EXCEPT !.pausing = FALSE]
      /\ waiting' = [latest |-> q, before |-> waiting.before \cup ({waiting.latest} \ {NoRequest})]
      /\ UNCHANGED <<restriction, categoriesRead, listedFor>>
  BY DEF Ask
<1>4. /\ box' \in Boxes /\ box'.text = box.text /\ box'.filter = box.filter
      /\ waiting'.latest = q
      /\ waiting' \in [latest : Requests \cup {NoRequest}, before : SUBSET Requests]
  BY <1>1, <1>2, <1>3 DEF Boxes
<1>5. Request(box, categoriesRead)' = q
  BY <1>3, <1>4 DEF Request, Wanted
<1>6. SearchTypeOK' /\ ListFollowsTheBox'
  BY <1>1, <1>2, <1>3, <1>4, <1>5 DEF SearchTypeOK, ListFollowsTheBox
<1>7. ChosenIsWanted'
  BY <1>3, <1>4 DEF SearchInv, ChosenIsWanted
<1>8. QED
  BY <1>6, <1>7 DEF SearchInv

\* An answer, of the latest request or of one before it.
LEMMA AnswerOK ==
    ASSUME SearchInv, AnswerLatest \/ \E q \in Requests : AnswerOvertaken(q)
    PROVE  SearchInv'
<1>1. /\ waiting \in [latest : Requests \cup {NoRequest}, before : SUBSET Requests]
      /\ UNCHANGED <<restriction, categoriesRead, box>>
  BY DEF SearchInv, SearchTypeOK, AnswerLatest, AnswerOvertaken, Overtaken
<1>2. Request(box, categoriesRead)' = Request(box, categoriesRead)
  BY <1>1 DEF Request, Wanted
<1>3. CASE AnswerLatest
  <2>1. /\ waiting' \in [latest : Requests \cup {NoRequest}, before : SUBSET Requests]
        /\ waiting'.latest = NoRequest
        /\ waiting.latest # NoRequest
        /\ listedFor' \in {waiting.latest, NoRequest}
    BY <1>1, <1>3 DEF AnswerLatest
  <2>2. QED
    BY <1>1, <1>2, <2>1
    DEF SearchInv, SearchTypeOK, ListFollowsTheBox, ChosenIsWanted
<1>4. ASSUME NEW q \in Requests, AnswerOvertaken(q) PROVE SearchInv'
  <2>1. /\ waiting' \in [latest : Requests \cup {NoRequest}, before : SUBSET Requests]
        /\ waiting'.latest = waiting.latest
        /\ UNCHANGED listedFor
    BY <1>1, <1>4 DEF AnswerOvertaken, Overtaken
  <2>2. QED
    BY <1>1, <1>2, <2>1
    DEF SearchInv, SearchTypeOK, ListFollowsTheBox, ChosenIsWanted
<1>5. QED
  BY <1>3, <1>4

LEMMA SearchInitOK == SearchInit => SearchInv
<1> SUFFICES ASSUME SearchInit PROVE SearchInv
  OBVIOUS
<1>1. box \in Boxes /\ box.open = FALSE /\ box.filter = NoCategory
  BY DEF SearchInit, Boxes
<1>2. waiting \in [latest : Requests \cup {NoRequest}, before : SUBSET Requests]
  BY DEF SearchInit
<1>3. QED
  BY <1>1, <1>2 DEF SearchInit, SearchInv, SearchTypeOK, ListFollowsTheBox, ChosenIsWanted

LEMMA SearchStepOK == SearchInv /\ [SearchNext]_searchVars => SearchInv'
<1> SUFFICES ASSUME SearchInv, [SearchNext]_searchVars PROVE SearchInv'
  OBVIOUS
<1>1. box \in Boxes /\ categoriesRead \in BOOLEAN
  BY DEF SearchInv, SearchTypeOK
<1>2. ASSUME NEW t \in Texts,
             Type(t) \/ CloseDropdown(t) \/ CommitSelection(t) \/ OpenCreate(t)
      PROVE  SearchInv'
  BY <1>1, <1>2, BoxEdits, ActOK
  DEF Type, CloseDropdown, CommitSelection, OpenCreate
<1>3. ASSUME NEW t \in Texts, NEW isOpen \in BOOLEAN, Clear(t, isOpen) PROVE SearchInv'
  <2> PICK open \in BOOLEAN : open = (box.open \/ isOpen)
    OBVIOUS
  <2>1. Act([box EXCEPT !.text = t, !.open = open])
    BY <1>3 DEF Clear
  <2>2. QED
    BY <1>1, <2>1, BoxEdits, ActOK
<1>4. CASE OpenDropdown
  <2> PICK b : b = [box EXCEPT !.open = TRUE]
    OBVIOUS
  <2>1. b \in Boxes /\ b.filter = box.filter
    BY <1>1 DEF Boxes
  <2>2. Act(b)
    BY <1>4 DEF OpenDropdown
  <2>3. QED
    BY <2>1, <2>2, ActOK
<1>5. ASSUME NEW t \in Texts, CloseCreate(t) PROVE SearchInv'
  <2> PICK b : b = [box EXCEPT !.form = FALSE, !.open = TRUE, !.text = t]
    OBVIOUS
  <2>1. b \in Boxes /\ b.filter = box.filter
    BY <1>1, BoxEdits
  <2>2. /\ RenderBox(b, categoriesRead)
        /\ UNCHANGED <<restriction, categoriesRead, waiting, listedFor>>
    BY <1>5 DEF CloseCreate
  <2>3. b.filter # NoCategory =>
           categoriesRead /\ (restriction # {} => b.filter \in restriction)
    BY <2>1 DEF SearchInv, ChosenIsWanted
  <2>4. QED
    BY <1>1, <2>1, <2>2, <2>3, RenderBoxOK
<1>6. ASSUME NEW c \in Categories \cup {NoCategory}, ChooseCategory(c) PROVE SearchInv'
  BY <1>6, ChooseCategoryOK
<1>7. CASE ReadCategories
  <2>1. /\ RenderBox(box, TRUE) /\ categoriesRead' = TRUE
        /\ UNCHANGED <<restriction, waiting, listedFor>>
        /\ box.filter = NoCategory
    BY <1>7 DEF ReadCategories, SearchInv, ChosenIsWanted
  <2>2. QED
    BY <1>1, <2>1, RenderBoxOK
<1>8. CASE Ask
  BY <1>8, AskOK
<1>9. CASE AnswerLatest \/ \E q \in Requests : AnswerOvertaken(q)
  BY <1>9, AnswerOK
<1>10. CASE UNCHANGED searchVars
  BY <1>10
  DEF searchVars, SearchInv, SearchTypeOK, ListFollowsTheBox, ChosenIsWanted, Request,
      Wanted
<1>11. QED
  BY <1>2, <1>3, <1>4, <1>5, <1>6, <1>7, <1>8, <1>9, <1>10 DEF SearchNext

\* The answer to the request of the box has none but the contacts that are wanted.
LEMMA OnlyTheWantedAreListed ==
    ASSUME SearchInv, listedFor = Request(box, categoriesRead), categoriesRead,
           restriction # {}
    PROVE  ListedCategories \subseteq restriction
<1>1. /\ restriction \in SUBSET Categories
      /\ Wanted(categoriesRead) = restriction
  BY DEF SearchInv, SearchTypeOK, Wanted
<1>2. Cardinality(restriction) \in Nat /\ Cardinality(restriction) # 0
  BY <1>1, NonEmptyIsCounted
<1>3. SUFFICES ASSUME NEW c \in ListedCategories PROVE c \in restriction
  OBVIOUS
<1>4. /\ listedFor.category \in {NoCategory, c}
      /\ Cardinality(restriction) > 1 /\ box.filter = NoCategory => c \in restriction
      /\ c \in Categories
  BY <1>1 DEF ListedCategories
<1>5. CASE box.filter # NoCategory
  <2>1. listedFor.category = box.filter
    BY <1>5 DEF Request
  <2>2. box.filter \in restriction
    BY <1>5 DEF SearchInv, ChosenIsWanted
  <2>3. QED
    BY <1>4, <1>5, <2>1, <2>2
<1>6. CASE box.filter = NoCategory /\ Cardinality(restriction) = 1
  <2>1. listedFor.category = CHOOSE d \in restriction : TRUE
    BY <1>1, <1>6 DEF Request
  <2>2. (CHOOSE d \in restriction : TRUE) \in restriction
    BY <1>3
  <2>3. NoCategory \notin restriction
    BY <1>1, SearchAssumption
  <2>4. QED
    BY <1>4, <2>1, <2>2, <2>3
<1>7. QED
  BY <1>2, <1>4, <1>5, <1>6

(***************************************************************************)
(* An open list that waits for nothing lists what is asked for now, and    *)
(* nobody outside the categories the caller wants: however many requests   *)
(* were overtaken, and in whatever order they were answered.               *)
(***************************************************************************)
THEOREM ListsFollowTheBox ==
    SearchInit /\ [][SearchNext]_searchVars => []ListIsWhatIsAsked
<1>1. SearchInv => ListIsWhatIsAsked
  BY OnlyTheWantedAreListed DEF SearchInv, ListFollowsTheBox, ListIsWhatIsAsked
<1>2. QED
  BY SearchInitOK, SearchStepOK, <1>1, PTL

(***************************************************************************)
(* Menus: whose session a call was sent with, and from which page.         *)
(***************************************************************************)
UserSessions == [number : Nat \ {0}, role : UserRoles, token : BOOLEAN]

\* What a call in flight has, when s is the session and n were opened.
CallIsKept(c, s, n) ==
    /\ c.by \in 1..n
    /\ c.as \in UserSessions \cup {NoSession}
    /\ c.by = s.number => c.as = s
    /\ "budget-defaults" \in c.endpoints => c.page = "finances"
    /\ c.as.token /\ c.by = c.as.number /\ c.page \in NAV_BY_ROLE(c.as.role) => OffersAll(c)

SessionIsTheLast ==
    /\ opened \in Nat
    /\ session # NoSession => session \in UserSessions /\ session.number = opened
    /\ onPage # Login => session # NoSession

MenusInv ==
    /\ SessionIsTheLast
    /\ \A c \in unanswered : CallIsKept(c, session, opened)

\* The calls of a page, but for the reports of the board, are allowed to whom its
\* menu is offered.
LEMMA PagesLoadForTheirRole ==
    ASSUME NEW role \in UserRoles, NEW p \in NAV_BY_ROLE(role), NEW e \in Loads(role, p)
    PROVE  role \in Allowed(e) \/ (role = "board" /\ e = "reports")
<1>1. CASE role = "director"
  BY <1>1
  DEF NAV_BY_ROLE, Loads, DashboardCalls, FinancesCalls, Allowed, OfTheOffice
<1>2. CASE role = "supervisor"
  BY <1>2
  DEF NAV_BY_ROLE, Loads, DashboardCalls, FinancesCalls, Allowed, OfTheOffice
<1>3. CASE role = "educator"
  BY <1>3
  DEF NAV_BY_ROLE, Loads, DashboardCalls, FinancesCalls, Allowed, OfTheOffice
<1>4. CASE role = "board"
  BY <1>4
  DEF NAV_BY_ROLE, Loads, DashboardCalls, FinancesCalls, Allowed, OfTheOffice
<1>5. QED
  BY <1>1, <1>2, <1>3, <1>4, UserRolesAssumption

LEMMA EveryoneHasNotifications == \A role \in UserRoles : role \in Allowed("notifications")
  BY DEF Allowed

LEMMA DefaultsAreOfFinances ==
    ASSUME NEW role \in UserRoles, NEW p, "budget-defaults" \in Loads(role, p)
    PROVE  p = "finances"
<1>1. "budget-defaults" \notin DashboardCalls(role)
  BY UserRolesAssumption DEF DashboardCalls
<1>2. QED
  BY <1>1 DEF Loads

\* A page sends its calls as it opens.
LEMMA NewCallsAreKept ==
    ASSUME NEW s \in UserSessions, NEW p, NEW endpoints,
           endpoints \subseteq Loads(s.role, p) \cup {"notifications"},
           NEW c \in Calls(endpoints, p, s.number, s)
    PROVE  CallIsKept(c, s, s.number)
<1>1. c = [endpoints |-> endpoints, page |-> p, by |-> s.number, as |-> s]
  BY DEF Calls
<1>2. c.endpoints = endpoints /\ c.page = p /\ c.by = s.number /\ c.as = s
  BY <1>1
<1>3. s.role \in UserRoles /\ s.number \in Nat \ {0}
  BY DEF UserSessions
<1>4. "budget-defaults" \in endpoints => p = "finances"
  BY <1>3, DefaultsAreOfFinances
<1>5. p \in NAV_BY_ROLE(s.role) => OffersAll(c)
  BY <1>2, <1>3, PagesLoadForTheirRole, EveryoneHasNotifications DEF OffersAll
<1>6. QED
  BY <1>2, <1>3, <1>4, <1>5 DEF CallIsKept

\* A call stays as it is when the session of the browser ends, or another begins.
LEMMA CallsStayKept ==
    ASSUME NEW c, NEW s, NEW n \in Nat, CallIsKept(c, s, n), NEW t, NEW m \in Nat,
           \/ t = s /\ m = n
           \/ t = NoSession /\ m = n
           \/ t.number = n + 1 /\ m = n + 1
    PROVE  CallIsKept(c, t, m)
<1>1. NoSession.number = 0
  BY DEF NoSession
<1>2. QED
  BY <1>1 DEF CallIsKept

\* The finances are loaded with the session of the moment.
LEMMA FollowingCallsAreKept ==
    ASSUME MenusInv, NEW c \in unanswered, NEW d \in Following(c)
    PROVE  CallIsKept(d, session, opened)
<1>1. CallIsKept(c, session, opened) /\ SessionIsTheLast
  BY DEF MenusInv
<1>2. /\ "budget-defaults" \in c.endpoints
      /\ d = [endpoints |-> {"finances"}, page |-> c.page, by |-> c.by, as |-> session]
  BY DEF Following, ThenLoads, Calls
<1>3. d.endpoints = {"finances"} /\ d.page = "finances" /\ d.by = c.by /\ d.as = session
  BY <1>1, <1>2 DEF CallIsKept
<1>4. session.token => session \in UserSessions
  BY <1>1 DEF SessionIsTheLast, NoSession
<1>5. ASSUME session.token, "finances" \in NAV_BY_ROLE(session.role) PROVE OffersAll(d)
  <2>1. session.role \in UserRoles
    BY <1>4, <1>5 DEF UserSessions
  <2>2. session.role \in {"director", "supervisor"}
    BY <1>5, <2>1, UserRolesAssumption DEF NAV_BY_ROLE
  <2>3. session.role \in Allowed("finances")
    BY <2>2 DEF Allowed, OfTheOffice
  <2>4. QED
    BY <1>3, <2>3 DEF OffersAll
<1>6. QED
  BY <1>1, <1>3, <1>5 DEF CallIsKept, SessionIsTheLast

LEMMA VisitOK ==
    ASSUME MenusInv, NEW s \in UserSessions, NEW p, p # Login, NEW endpoints,
           endpoints \subseteq Loads(s.role, p) \cup {"notifications"}, Visit(s, p, endpoints),
           session' = s, s.number = opened',
           \/ s = session /\ UNCHANGED opened
           \/ opened' = opened + 1
    PROVE  MenusInv'
<1>1. /\ SessionIsTheLast
      /\ \A c \in unanswered : CallIsKept(c, session, opened)
  BY DEF MenusInv
<1>2. opened \in Nat /\ opened' \in Nat
  BY <1>1 DEF SessionIsTheLast
<1>3. unanswered' = unanswered \cup Calls(endpoints, p, s.number, s) /\ onPage' = p
  BY DEF Visit
<1>4. \A c \in unanswered : CallIsKept(c, s, opened')
  BY <1>1, <1>2, CallsStayKept
<1>5. \A c \in Calls(endpoints, p, s.number, s) : CallIsKept(c, s, opened')
  BY NewCallsAreKept
<1>6. SessionIsTheLast'
  <2>1. s # NoSession
    BY DEF UserSessions, NoSession
  <2>2. QED
    BY <1>2, <2>1 DEF SessionIsTheLast
<1>7. QED
  BY <1>3, <1>4, <1>5, <1>6 DEF MenusInv

LEMMA LoggedInOK ==
    ASSUME MenusInv, NEW kind \in {"demo", "real"}, NEW role \in UserRoles,
           LoggedIn(kind, role)
    PROVE  MenusInv'
<1> PICK token \in BOOLEAN : token = (kind = "real")
  OBVIOUS
<1> PICK s : s = [number |-> opened + 1, role |-> role, token |-> token]
  OBVIOUS
<1>1. /\ SessionIsTheLast /\ opened \in Nat
      /\ \A c \in unanswered : CallIsKept(c, session, opened)
  BY DEF MenusInv, SessionIsTheLast
<1>2. s \in UserSessions /\ s.number = opened + 1 /\ s.role = role
  BY <1>1 DEF UserSessions
<1>3. session' = s /\ opened' = opened + 1
  BY DEF LoggedIn
<1>4. CASE onPage \in {Login, "dashboard"}
  <2> PICK endpoints :
         endpoints = DashboardCalls(role) \cup IF onPage = Login THEN {"notifications"} ELSE {}
    OBVIOUS
  <2>1. Visit(s, "dashboard", endpoints)
    BY <1>4 DEF LoggedIn
  <2>2. endpoints \subseteq Loads(role, "dashboard") \cup {"notifications"}
    BY DEF Loads
  <2>3. "dashboard" # Login
    BY DEF Login
  <2>4. QED
    BY <1>2, <1>3, <2>1, <2>2, <2>3, VisitOK
<1>5. CASE onPage \notin {Login, "dashboard"}
  <2>1. UNCHANGED <<onPage, unanswered>>
    BY <1>5 DEF LoggedIn
  <2>2. \A c \in unanswered : CallIsKept(c, s, opened + 1)
    BY <1>1, <1>2, CallsStayKept
  <2>3. SessionIsTheLast'
    BY <1>1, <1>2, <1>3 DEF SessionIsTheLast, UserSessions, NoSession
  <2>4. QED
    BY <1>3, <2>1, <2>2, <2>3 DEF MenusInv
<1>6. QED
  BY <1>4, <1>5

LEMMA OpenPageOK ==
    ASSUME MenusInv, onPage # Login, NEW p \in NAV_BY_ROLE(session.role), OpenPage(p)
    PROVE  MenusInv'
<1>1. session \in UserSessions /\ session.number = opened
  BY DEF MenusInv, SessionIsTheLast
<1>2. session.role \in UserRoles
  BY <1>1 DEF UserSessions
<1>3. p # Login
  BY <1>2, UserRolesAssumption DEF NAV_BY_ROLE, Login
<1>4. /\ Visit(session, p, Loads(session.role, p))
      /\ UNCHANGED session /\ UNCHANGED opened
  BY DEF OpenPage
<1>5. QED
  BY <1>1, <1>3, <1>4, VisitOK

LEMMA ReloadPageOK ==
    ASSUME MenusInv, ReloadPage
    PROVE  MenusInv'
<1> PICK endpoints : endpoints = Loads(session.role, onPage) \cup {"notifications"}
  OBVIOUS
<1>1. /\ onPage # Login
      /\ unanswered' = Calls(endpoints, onPage, session.number, session)
      /\ UNCHANGED <<session, onPage, opened>>
  BY DEF ReloadPage
<1>2. SessionIsTheLast /\ session \in UserSessions /\ session.number = opened
  BY <1>1 DEF MenusInv, SessionIsTheLast
<1>3. \A c \in unanswered' : CallIsKept(c, session, opened)
  BY <1>1, <1>2, NewCallsAreKept
<1>4. SessionIsTheLast'
  BY <1>1, <1>2 DEF SessionIsTheLast
<1>5. QED
  BY <1>1, <1>3, <1>4 DEF MenusInv

\* A call is over, and may be followed by another.
LEMMA CallIsOverOK ==
    ASSUME MenusInv, NEW c \in unanswered, Answered(c) \/ Unauthorized(c) \/ NotReceived(c)
    PROVE  MenusInv'
<1>1. /\ SessionIsTheLast /\ opened \in Nat /\ UNCHANGED opened
      /\ \A d \in unanswered : CallIsKept(d, session, opened)
  BY DEF MenusInv, SessionIsTheLast, Answered, Unauthorized, NotReceived
<1>2. \/ UNCHANGED <<session, onPage>>
      \/ session' = NoSession /\ onPage' = Login
  BY DEF Answered, Unauthorized, NotReceived
<1>3. unanswered' \subseteq unanswered \cup Following(c)
  BY DEF Answered, Unauthorized, NotReceived, Rest
<1>4. \A d \in unanswered' : CallIsKept(d, session, opened)
  BY <1>1, <1>3, FollowingCallsAreKept
<1>5. \A d \in unanswered' : CallIsKept(d, session', opened)
  BY <1>1, <1>2, <1>4, CallsStayKept
<1>6. SessionIsTheLast'
  BY <1>1, <1>2 DEF SessionIsTheLast
<1>7. QED
  BY <1>1, <1>5, <1>6 DEF MenusInv

LEMMA MenusStepOK == MenusInv /\ [MenusNext]_menuVars => MenusInv'
<1> SUFFICES ASSUME MenusInv, [MenusNext]_menuVars PROVE MenusInv'
  OBVIOUS
<1>1. ASSUME NEW role \in UserRoles, NEW kind \in {"demo", "real"}, LoggedIn(kind, role)
      PROVE  MenusInv'
  BY <1>1, LoggedInOK
<1>2. CASE Logout
  <2>1. /\ session' = NoSession /\ onPage' = Login /\ UNCHANGED <<unanswered, opened>>
    BY <1>2 DEF Logout
  <2>2. opened \in Nat /\ \A c \in unanswered : CallIsKept(c, session, opened)
    BY DEF MenusInv, SessionIsTheLast
  <2>3. \A c \in unanswered : CallIsKept(c, NoSession, opened)
    BY <2>2, CallsStayKept
  <2>4. QED
    BY <2>1, <2>2, <2>3 DEF MenusInv, SessionIsTheLast
<1>3. CASE UNCHANGED <<session, onPage, unanswered, opened>>
  BY <1>3 DEF MenusInv, SessionIsTheLast
<1>4. ASSUME NEW role \in UserRoles, NEW kind \in {"demo", "real"},
             TryLogin(kind, role) \/ LoginRefused(role)
      PROVE  MenusInv'
  BY <1>3, <1>4 DEF TryLogin, LoginRefused
<1>5. CASE TokenExpires
  BY <1>3, <1>5 DEF TokenExpires
<1>6. CASE onPage # Login /\ \E p \in NAV_BY_ROLE(session.role) : OpenPage(p)
  BY <1>6, OpenPageOK
<1>7. CASE ReloadPage
  BY <1>7, ReloadPageOK
<1>8. CASE \E c \in unanswered : Answered(c) \/ Unauthorized(c) \/ NotReceived(c)
  BY <1>8, CallIsOverOK
<1>9. CASE UNCHANGED menuVars
  BY <1>3, <1>9 DEF menuVars
<1>10. QED
  BY <1>1, <1>2, <1>4, <1>5, <1>6, <1>7, <1>8, <1>9 DEF MenusNext

LEMMA MenusInitOK == MenusInit => MenusInv
  BY DEF MenusInit, MenusInv, SessionIsTheLast

(***************************************************************************)
(* A page opened from the menu is refused nothing as it loads but the      *)
(* reports of the board, and no call of its own throws out a user whose    *)
(* token is valid: for any number of sessions and pages, however late the  *)
(* calls of earlier ones are answered.                                     *)
(***************************************************************************)
THEOREM MenusOfferWhatLoads ==
    MenusInit /\ [][MenusNext]_menuVars => []MenuPagesLoad
<1>1. MenusInv => MenuPagesLoad
  <2> SUFFICES ASSUME MenusInv, NEW c \in unanswered
               PROVE  /\ IsLive(c.as) /\ c.by = c.as.number /\ c.page \in NAV_BY_ROLE(c.as.role)
                         => OffersAll(c)
                      /\ IsLive(session) /\ ~ IsLive(c.as) => c.by < session.number
    BY DEF MenuPagesLoad
  <2>1. CallIsKept(c, session, opened) /\ SessionIsTheLast
    BY DEF MenusInv
  <2>2. IsLive(session) => session.number = opened /\ opened \in Nat
    BY <2>1 DEF SessionIsTheLast, IsLive, NoSession
  <2>3. c.by = session.number => c.as = session
    BY <2>1 DEF CallIsKept
  <2>4. QED
    BY <2>1, <2>2, <2>3 DEF CallIsKept, IsLive
<1>2. QED
  BY MenusInitOK, MenusStepOK, <1>1, PTL

(***************************************************************************)
(* Team: where a person is, what every call has left to do, and what the   *)
(* page shows of what calls in flight have done.                           *)
(***************************************************************************)
OnlyShow == <<"show">>
GetShow == <<"get", "show">>
EditShow == <<"edit", "show">>
EditGetShow == <<"edit", "get", "show">>
EditTwiceShow == <<"edit", "edit", "show">>
EditTwiceGet == <<"edit", "edit", "get", "show">>
MoveShow == <<"move", "show">>
MoveGetShow == <<"move", "get", "show">>
MoveEditGet == <<"move", "edit", "get", "show">>
CreateShow == <<"create", "show">>
CreateEditShow == <<"create", "edit", "show">>
CreateEditGet == <<"create", "edit", "get", "show">>

\* Chains about a row that is there, and those that make one first.
OfARow == {OnlyShow, GetShow, EditShow, EditGetShow, EditTwiceShow, EditTwiceGet}
Moving == {MoveShow, MoveGetShow, MoveEditGet}
Creating == {CreateShow, CreateEditShow, CreateEditGet}

RowOrNone == TeamRows \cup {0}

TeamCallRecords ==
    [from : RowOrNone, to : RowOrNone, into : Tables \cup {"none"}, seen : Nat]

TableRowsOK ==
    /\ tableOf \in [TeamRows -> Tables \cup {"none"}]
    /\ version \in [TeamRows -> Nat]
    /\ origin \in [TeamRows -> RowOrNone]

TeamTypeOK ==
    /\ TableRowsOK
    /\ listed \in [TeamRows -> Nat]
    /\ readTables \in SUBSET Tables
    /\ chain \in [TeamCalls -> OfARow \cup Moving \cup Creating \cup {<<>>}]
    /\ member \in [TeamCalls -> TeamCallRecords]
    /\ teamAstray \in BOOLEAN

\* A person is in one row, and so is everyone who was entered.
PeopleInv ==
    /\ \A r \in TeamRows :
          /\ tableOf[r] = "none" => version[r] = 0 /\ origin[r] = 0
          /\ origin[r] # 0 =>
                /\ tableOf[origin[r]] # "none"
                /\ origin[origin[r]] = origin[r]
          /\ version[r] # 0 => origin[r] # 0
          /\ origin[r] = r => \E q \in TeamRows : origin[q] = r /\ version[q] # 0
    /\ \A p, q \in TeamRows :
          version[p] # 0 /\ version[q] # 0 /\ origin[p] = origin[q] => p = q

\* What a call is about, given the steps it has left and what it holds.
CallIsSound(s, m, isOpen, table) ==
    /\ s = <<>> => m.from = 0 /\ m.to = 0 /\ m.seen = 0
    /\ s # <<>> => isOpen /\ m.into \in Tables
    /\ s \in Moving => m.seen = 0 /\ m.from = m.to /\ m.from # 0
    /\ s \in Creating => m.seen = 0 /\ m.from = 0 /\ m.to = 0
    /\ s \in OfARow => m.to # 0 /\ (m.seen = 0 => m.from = m.to /\ s # OnlyShow)
    /\ m.to # 0 => table[m.to] # "none"
    /\ m.from # 0 => table[m.from] # "none"

CallsAreSound ==
    \A c \in TeamCalls : CallIsSound(chain[c], member[c], PageIsOpen, tableOf)

HasRow(m, r) == r = m.from \/ r = m.to

\* What a call has done that is not shown yet.
UnseenIsThere(m) ==
    m.seen # 0 =>
       /\ version[m.to] = m.seen
       /\ m.from \in TeamRows \ {m.to} => version[m.from] = 0
       /\ m.from = m.to => listed[m.to] # 0

ToShow(r) == IF tableOf[r] \in readTables THEN version[r] ELSE 0

PageInv ==
    ~ teamAstray =>
       /\ \A r \in TeamRows :
             \/ listed[r] = ToShow(r)
             \/ \E c \in TeamCalls : member[c].seen # 0 /\ HasRow(member[c], r)
       /\ \A c \in TeamCalls : UnseenIsThere(member[c])
       /\ \A c, d \in TeamCalls, r \in TeamRows :
             HasRow(member[c], r) /\ HasRow(member[d], r) => c = d

TeamInv ==
    /\ TeamTypeOK
    /\ PeopleInv
    /\ CallsAreSound
    /\ PageInv

LEMMA StepsOfARow ==
    /\ Head(OnlyShow) = "show" /\ Tail(OnlyShow) = <<>>
    /\ Head(GetShow) = "get" /\ Tail(GetShow) = OnlyShow
    /\ Head(EditShow) = "edit" /\ Tail(EditShow) = OnlyShow
    /\ Head(EditGetShow) = "edit" /\ Tail(EditGetShow) = GetShow
    /\ Head(EditTwiceShow) = "edit" /\ Tail(EditTwiceShow) = EditShow
    /\ Head(EditTwiceGet) = "edit" /\ Tail(EditTwiceGet) = EditGetShow
  BY DEF OnlyShow, GetShow, EditShow, EditGetShow, EditTwiceShow, EditTwiceGet

LEMMA FirstSteps ==
    /\ Head(MoveShow) = "move" /\ Tail(MoveShow) = OnlyShow
    /\ Head(MoveGetShow) = "move" /\ Tail(MoveGetShow) = GetShow
    /\ Head(MoveEditGet) = "move" /\ Tail(MoveEditGet) = EditGetShow
    /\ Head(CreateShow) = "create" /\ Tail(CreateShow) = OnlyShow
    /\ Head(CreateEditShow) = "create" /\ Tail(CreateEditShow) = EditShow
    /\ Head(CreateEditGet) = "create" /\ Tail(CreateEditGet) = EditGetShow
  BY DEF OnlyShow, GetShow, EditShow, EditGetShow, MoveShow, MoveGetShow, MoveEditGet,
         CreateShow, CreateEditShow, CreateEditGet

LEMMA ChainsOfARow ==
    \A s \in OfARow :
       /\ s # <<>>
       /\ Head(s) \in {"show", "get", "edit"}
       /\ IF Head(s) = "show" THEN s = OnlyShow /\ Tail(s) = <<>> ELSE Tail(s) \in OfARow
<1>1. \A s \in OfARow : s # <<>>
  BY DEF OfARow, OnlyShow, GetShow, EditShow, EditGetShow, EditTwiceShow, EditTwiceGet
<1>2. QED
  BY <1>1, StepsOfARow DEF OfARow

LEMMA ChainsThatBegin ==
    /\ \A s \in Moving : s # <<>> /\ Head(s) = "move" /\ Tail(s) \in OfARow
    /\ \A s \in Creating : s # <<>> /\ Head(s) = "create" /\ Tail(s) \in OfARow
<1>1. /\ \A s \in Moving : s # <<>>
      /\ \A s \in Creating : s # <<>>
  BY DEF Moving, MoveShow, MoveGetShow, MoveEditGet, Creating, CreateShow, CreateEditShow,
         CreateEditGet
<1>2. QED
  BY <1>1, FirstSteps DEF Moving, Creating, OfARow

LEMMA ChainsOfThePage ==
    /\ Chains \subseteq (OfARow \cup Moving) \ {OnlyShow}
    /\ NewChains \subseteq Creating
<1>1. /\ Chains = {MoveShow, MoveGetShow, MoveEditGet, EditShow, EditTwiceShow, EditTwiceGet}
      /\ NewChains = {CreateShow, CreateEditShow, CreateEditGet}
  BY DEF Chains, NewChains, MoveShow, MoveGetShow, MoveEditGet, EditShow, EditTwiceShow,
         EditTwiceGet, CreateShow, CreateEditShow, CreateEditGet
<1>2. OnlyShow \notin Chains
  BY <1>1, StepsOfARow, FirstSteps
<1>3. QED
  BY <1>1, <1>2 DEF OfARow, Moving, Creating

LEMMA RowNumbers == TeamRows \subseteq Nat \ {0} /\ 0 \notin TeamRows
  BY TeamAssumption DEF TeamRows

(***************************************************************************)
(* The tables.                                                             *)
(***************************************************************************)
LEMMA EnterOK ==
    ASSUME TableRowsOK, PeopleInv, NEW r \in TeamRows, NEW t \in Tables, Enter(r, t)
    PROVE  /\ TableRowsOK' /\ PeopleInv'
           /\ tableOf[r] = "none" /\ tableOf'[r] = t /\ version'[r] = 1
           /\ \A q \in TeamRows \ {r} : tableOf'[q] = tableOf[q] /\ version'[q] = version[q]
<1>1. /\ tableOf[r] = "none" /\ t # "none"
      /\ tableOf' = [tableOf EXCEPT ![r] = t]
      /\ version' = [version EXCEPT ![r] = 1]
      /\ origin' = [origin EXCEPT ![r] = r]
  BY DEF Enter, IsFreeRow, Tables
<1>2. /\ TableRowsOK'
      /\ tableOf'[r] = t /\ version'[r] = 1 /\ origin'[r] = r
      /\ \A q \in TeamRows \ {r} :
            tableOf'[q] = tableOf[q] /\ version'[q] = version[q] /\ origin'[q] = origin[q]
  BY <1>1 DEF TableRowsOK, RowOrNone
<1>3. /\ version[r] = 0 /\ origin[r] = 0
      /\ \A q \in TeamRows : origin[q] # r
  BY <1>1, RowNumbers DEF PeopleInv
<1>4. \A q \in TeamRows : origin[q] \in RowOrNone
  BY DEF TableRowsOK
<1>5. \A p \in TeamRows :
         /\ tableOf'[p] = "none" => version'[p] = 0 /\ origin'[p] = 0
         /\ origin'[p] # 0 =>
               /\ tableOf'[origin'[p]] # "none"
               /\ origin'[origin'[p]] = origin'[p]
         /\ version'[p] # 0 => origin'[p] # 0
         /\ origin'[p] = p => \E q \in TeamRows : origin'[q] = p /\ version'[q] # 0
  <2> TAKE p \in TeamRows
  <2>1. CASE p = r
    BY <1>1, <1>2, <2>1, RowNumbers
  <2>2. CASE p # r
    <3>1. \A q \in TeamRows : version[q] # 0 => q # r
      BY <1>3
    <3>2. QED
      BY <1>1, <1>2, <1>3, <1>4, <2>2, <3>1 DEF PeopleInv, RowOrNone
  <2>3. QED
    BY <2>1, <2>2
<1>6. \A p, q \in TeamRows :
         version'[p] # 0 /\ version'[q] # 0 /\ origin'[p] = origin'[q] => p = q
  BY <1>2, <1>3 DEF PeopleInv
<1>7. QED
  BY <1>1, <1>2, <1>5, <1>6 DEF PeopleInv

LEMMA MoveOK ==
    ASSUME TableRowsOK, PeopleInv, NEW from \in TeamRows, NEW r \in TeamRows,
           NEW t \in Tables, Move(from, r, t)
    PROVE  /\ TableRowsOK' /\ PeopleInv' /\ r # from
           /\ tableOf[r] = "none" /\ tableOf'[r] = t /\ version'[r] = 1
           /\ tableOf'[from] = tableOf[from] /\ version'[from] = 0
           /\ \A q \in TeamRows \ {r, from} :
                 tableOf'[q] = tableOf[q] /\ version'[q] = version[q]
<1> PICK o : o = origin[from]
  OBVIOUS
<1>1. /\ tableOf[r] = "none" /\ t # "none" /\ version[from] # 0
      /\ tableOf' = [tableOf EXCEPT ![r] = t]
      /\ version' = [version EXCEPT ![r] = 1, ![from] = 0]
      /\ origin' = [origin EXCEPT ![r] = o]
  BY DEF Move, There, MoveInto, IsFreeRow, Tables, TableRowsOK
<1>2. /\ version[r] = 0 /\ origin[r] = 0 /\ r # from
      /\ \A q \in TeamRows : origin[q] # r
  BY <1>1, RowNumbers DEF PeopleInv
<1>3. o \in TeamRows /\ o # r /\ tableOf[o] # "none" /\ origin[o] = o
  BY <1>1, <1>2 DEF PeopleInv, TableRowsOK, RowOrNone
<1>4. /\ TableRowsOK'
      /\ tableOf'[r] = t /\ version'[r] = 1 /\ origin'[r] = o
      /\ tableOf'[from] = tableOf[from] /\ version'[from] = 0 /\ origin'[from] = o
      /\ \A q \in TeamRows \ {r} : tableOf'[q] = tableOf[q] /\ origin'[q] = origin[q]
      /\ \A q \in TeamRows \ {r, from} : version'[q] = version[q]
  BY <1>1, <1>2, <1>3 DEF TableRowsOK, RowOrNone
<1>5. \A q \in TeamRows : origin[q] \in RowOrNone
  BY DEF TableRowsOK
<1>6. \A p \in TeamRows :
         /\ tableOf'[p] = "none" => version'[p] = 0 /\ origin'[p] = 0
         /\ origin'[p] # 0 =>
               /\ tableOf'[origin'[p]] # "none"
               /\ origin'[origin'[p]] = origin'[p]
         /\ version'[p] # 0 => origin'[p] # 0
         /\ origin'[p] = p => \E q \in TeamRows : origin'[q] = p /\ version'[q] # 0
  <2> TAKE p \in TeamRows
  <2>1. CASE p = r
    BY <1>1, <1>3, <1>4, <2>1, RowNumbers
  <2>2. CASE p # r
    <3>1. tableOf'[p] = "none" => version'[p] = 0 /\ origin'[p] = 0
      BY <1>1, <1>4, <2>2 DEF PeopleInv
    <3>2. origin'[p] # 0 => /\ tableOf'[origin'[p]] # "none"
                            /\ origin'[origin'[p]] = origin'[p]
      BY <1>1, <1>2, <1>4, <1>5, <2>2 DEF PeopleInv, RowOrNone
    <3>3. version'[p] # 0 => origin'[p] # 0
      BY <1>1, <1>4, <2>2 DEF PeopleInv
    <3>4. ASSUME origin'[p] = p PROVE \E q \in TeamRows : origin'[q] = p /\ version'[q] # 0
      <4>1. PICK q \in TeamRows : origin[q] = p /\ version[q] # 0
        BY <1>4, <2>2, <3>4 DEF PeopleInv
      <4>2. CASE q = from
        BY <1>4, <4>1, <4>2
      <4>3. CASE q # from
        BY <1>2, <1>4, <4>1, <4>3
      <4>4. QED
        BY <4>2, <4>3
    <3>5. QED
      BY <3>1, <3>2, <3>3, <3>4
  <2>3. QED
    BY <2>1, <2>2
<1>7. \A p, q \in TeamRows :
         version'[p] # 0 /\ version'[q] # 0 /\ origin'[p] = origin'[q] => p = q
  BY <1>1, <1>4 DEF PeopleInv
<1>8. QED
  BY <1>1, <1>2, <1>4, <1>6, <1>7 DEF PeopleInv

LEMMA EditOK ==
    ASSUME TableRowsOK, PeopleInv, NEW r \in TeamRows, Edit(r)
    PROVE  /\ TableRowsOK' /\ PeopleInv'
           /\ version[r] # 0 /\ version'[r] = version[r] + 1 /\ version'[r] \in Nat \ {0}
           /\ UNCHANGED tableOf
           /\ \A q \in TeamRows \ {r} : version'[q] = version[q]
<1>1. /\ version[r] # 0 /\ version[r] \in Nat
      /\ version' = [version EXCEPT ![r] = version[r] + 1]
      /\ UNCHANGED <<tableOf, origin>>
  BY DEF Edit, TableRowsOK
<1>2. /\ TableRowsOK'
      /\ version'[r] = version[r] + 1 /\ version'[r] \in Nat \ {0}
      /\ \A q \in TeamRows \ {r} : version'[q] = version[q]
  BY <1>1 DEF TableRowsOK
<1>3. \A q \in TeamRows : version'[q] # 0 <=> version[q] # 0
  BY <1>1, <1>2
<1>4. PeopleInv'
  BY <1>1, <1>3 DEF PeopleInv
<1>5. QED
  BY <1>1, <1>2, <1>4

(***************************************************************************)
(* The page.                                                               *)
(***************************************************************************)
\* A table gets rows, and keeps them: what a call is about stays there.
LEMMA CallsStaySound ==
    ASSUME NEW s, NEW m, NEW isOpen \in BOOLEAN, NEW table, CallIsSound(s, m, isOpen, table),
           NEW later \in BOOLEAN, isOpen => later, NEW laterTable,
           \A r \in TeamRows : table[r] # "none" => laterTable[r] # "none",
           m \in TeamCallRecords
    PROVE  CallIsSound(s, m, later, laterTable)
<1>1. /\ m.to # 0 => m.to \in TeamRows
      /\ m.from # 0 => m.from \in TeamRows
  BY DEF TeamCallRecords, RowOrNone
<1>2. QED
  BY <1>1 DEF CallIsSound

\* Before the page is open nothing is in flight, and it shows the lists it has read.
LEMMA NothingInFlightBefore ==
    ASSUME TeamInv, ~ PageIsOpen
    PROVE  /\ \A c \in TeamCalls : chain[c] = <<>> /\ member[c].seen = 0
                                   /\ member[c].from = 0 /\ member[c].to = 0
           /\ ~ teamAstray => \A r \in TeamRows : listed[r] = ToShow(r)
<1>1. \A c \in TeamCalls : chain[c] = <<>> /\ member[c].seen = 0
                           /\ member[c].from = 0 /\ member[c].to = 0
  BY DEF TeamInv, CallsAreSound, CallIsSound
<1>2. QED
  BY <1>1 DEF TeamInv, PageInv

\* Another browser changes tables.
LEMMA ElsewhereOK ==
    ASSUME TeamInv, NEW tables \in SUBSET Tables, tables # {}, Elsewhere(tables),
           TableRowsOK', PeopleInv',
           \A r \in TeamRows :
              \/ tableOf'[r] = tableOf[r] /\ version'[r] = version[r]
              \/ tableOf[r] \in tables \cup {"none"} /\ tableOf'[r] \in tables
    PROVE  TeamInv'
<1>1. /\ ~ teamAstray /\ teamAstray' = (tables \cap readTables # {})
      /\ UNCHANGED <<listed, readTables, chain, member>>
  BY DEF Elsewhere, IsFollowed
<1>2. TeamTypeOK'
  BY <1>1 DEF TeamInv, TeamTypeOK
<1>3. \A r \in TeamRows : tableOf[r] # "none" => tableOf'[r] # "none"
  BY DEF Tables
<1>4. CallsAreSound'
  <2> SUFFICES ASSUME NEW c \in TeamCalls
               PROVE  CallIsSound(chain'[c], member'[c], PageIsOpen', tableOf')
    BY DEF CallsAreSound
  <2>1. /\ CallIsSound(chain[c], member[c], PageIsOpen, tableOf)
        /\ member[c] \in TeamCallRecords
    BY DEF TeamInv, CallsAreSound, TeamTypeOK
  <2>2. PageIsOpen \in BOOLEAN /\ PageIsOpen' = PageIsOpen
    BY <1>1 DEF PageIsOpen
  <2>3. CallIsSound(chain[c], member[c], PageIsOpen, tableOf')
    BY <1>3, <2>1, <2>2, CallsStaySound
  <2>4. QED
    BY <1>1, <2>2, <2>3
<1>5. PageInv'
  <2> SUFFICES ASSUME ~ teamAstray' PROVE PageInv'
    BY DEF PageInv
  <2>1. tables \cap readTables = {} /\ ~ PageIsOpen
    BY <1>1 DEF PageIsOpen
  <2>2. /\ \A c \in TeamCalls : member[c].seen = 0 /\ member[c].from = 0 /\ member[c].to = 0
        /\ \A r \in TeamRows : listed[r] = ToShow(r)
    BY <1>1, <2>1, NothingInFlightBefore
  <2>3. \A r \in TeamRows : ToShow(r)' = ToShow(r)
    <3> TAKE r \in TeamRows
    <3>1. "none" \notin readTables
      BY DEF TeamInv, TeamTypeOK, Tables
    <3>2. QED
      BY <1>1, <2>1, <3>1 DEF ToShow
  <2>4. QED
    BY <1>1, <2>2, <2>3, RowNumbers DEF PageInv, UnseenIsThere, HasRow
<1>6. QED
  BY <1>2, <1>4, <1>5 DEF TeamInv

LEMMA OthersOK ==
    ASSUME TeamInv, NEW r \in TeamRows,
           \/ \E t \in Tables : EnterElsewhere(r, t)
           \/ \E from \in TeamRows : MoveElsewhere(from, r)
           \/ EditElsewhere(r)
    PROVE  TeamInv'
<1> USE DEF TeamInv, TeamTypeOK
<1>1. ASSUME NEW t \in Tables, EnterElsewhere(r, t) PROVE TeamInv'
  <2>1. Enter(r, t) /\ Elsewhere({t})
    BY <1>1 DEF EnterElsewhere
  <2>2. /\ TableRowsOK' /\ PeopleInv'
        /\ tableOf[r] = "none" /\ tableOf'[r] = t
        /\ \A q \in TeamRows \ {r} : tableOf'[q] = tableOf[q] /\ version'[q] = version[q]
    BY <2>1, EnterOK
  <2> HIDE DEF TeamInv
  <2>3. QED
    BY <2>1, <2>2, ElsewhereOK
<1>2. ASSUME NEW from \in TeamRows, MoveElsewhere(from, r) PROVE TeamInv'
  <2> PICK t : t = MovesTo(tableOf[from])
    OBVIOUS
  <2>1. /\ tableOf[from] # "none" /\ Move(from, r, t) /\ Elsewhere({tableOf[from], t})
    BY <1>2 DEF MoveElsewhere
  <2>2. t \in Tables /\ tableOf[from] \in Tables
    BY <2>1 DEF MovesTo, Tables, TableRowsOK
  <2>3. /\ TableRowsOK' /\ PeopleInv' /\ r # from
        /\ tableOf[r] = "none" /\ tableOf'[r] = t
        /\ tableOf'[from] = tableOf[from]
        /\ \A q \in TeamRows \ {r, from} :
              tableOf'[q] = tableOf[q] /\ version'[q] = version[q]
    BY <2>1, <2>2, MoveOK
  <2> HIDE DEF TeamInv
  <2>4. QED
    BY <2>1, <2>2, <2>3, ElsewhereOK
<1>3. CASE EditElsewhere(r)
  <2>1. Edit(r) /\ Elsewhere({tableOf[r]})
    BY <1>3 DEF EditElsewhere
  <2>2. /\ TableRowsOK' /\ PeopleInv' /\ version[r] # 0
        /\ UNCHANGED tableOf
        /\ \A q \in TeamRows \ {r} : version'[q] = version[q]
    BY <2>1, EditOK
  <2>3. tableOf[r] \in Tables
    BY <2>2 DEF PeopleInv, TableRowsOK
  <2> HIDE DEF TeamInv
  <2>4. QED
    BY <2>1, <2>2, <2>3, ElsewhereOK
<1>4. QED
  BY <1>1, <1>2, <1>3

\* A call begins, about a row that is shown or none.
LEMMA StartTeamCallOK ==
    ASSUME TeamInv, NEW c \in TeamCalls, NEW m \in TeamCallRecords,
           NEW s \in OfARow \cup Moving \cup Creating, StartTeamCall(c, m, s),
           m.into \in Tables, m.seen = 0, m.from = m.to,
           IF m.from = 0 THEN s \in Creating
           ELSE s \in (OfARow \cup Moving) \ {OnlyShow} /\ tableOf[m.from] # "none",
           teamAstray' \in BOOLEAN,
           m.from # 0 /\ ~ teamAstray' => InFlightAbout(m.from) = {}
    PROVE  TeamInv'
<1>1. /\ PageIsOpen /\ ~ teamAstray /\ chain[c] = <<>>
      /\ chain' = [chain EXCEPT ![c] = s] /\ member' = [member EXCEPT ![c] = m]
      /\ UNCHANGED <<tableOf, version, origin, listed, readTables>>
  BY DEF StartTeamCall, IsFollowed
<1>2. /\ chain'[c] = s /\ member'[c] = m
      /\ \A d \in TeamCalls \ {c} : chain'[d] = chain[d] /\ member'[d] = member[d]
      /\ TeamTypeOK'
  BY <1>1 DEF TeamInv, TeamTypeOK, TableRowsOK
<1>3. PeopleInv'
  BY <1>1 DEF TeamInv, PeopleInv
<1>4. /\ OfARow \cap Moving = {} /\ OfARow \cap Creating = {} /\ Moving \cap Creating = {}
      /\ s # <<>>
  BY ChainsOfARow, ChainsThatBegin
<1>5. CallIsSound(s, m, TRUE, tableOf)
  BY <1>4 DEF CallIsSound
<1>6. CallsAreSound'
  BY <1>1, <1>2, <1>5 DEF TeamInv, CallsAreSound, PageIsOpen
<1>7. PageInv'
  <2> SUFFICES ASSUME ~ teamAstray' PROVE PageInv'
    BY DEF PageInv
  <2>1. /\ member[c].seen = 0 /\ member[c].from = 0 /\ member[c].to = 0
        /\ \A d \in TeamCalls \ {c} : HasRow(member[d], m.from) => m.from = 0
    <3>1. \A d \in TeamCalls \ {c} :
             m.from # 0 /\ chain[d] # <<>> => ~ HasRow(member[d], m.from)
      BY DEF InFlightAbout, HasRow
    <3>2. \A d \in TeamCalls : chain[d] = <<>> =>
             member[d].seen = 0 /\ member[d].from = 0 /\ member[d].to = 0
      BY DEF TeamInv, CallsAreSound, CallIsSound
    <3>3. QED
      BY <1>1, <3>1, <3>2 DEF HasRow
  <2>2. \A r \in TeamRows : ToShow(r)' = ToShow(r)
    BY <1>1 DEF ToShow
  <2>3. \A r \in TeamRows : listed'[r] = ToShow(r)' \/
           \E d \in TeamCalls : member'[d].seen # 0 /\ HasRow(member'[d], r)
    BY <1>1, <1>2, <2>1, <2>2 DEF TeamInv, PageInv
  <2>4. \A d \in TeamCalls : UnseenIsThere(member[d])' 
    BY <1>1, <1>2 DEF TeamInv, PageInv, UnseenIsThere
  <2>5. \A d, e \in TeamCalls, r \in TeamRows :
           HasRow(member'[d], r) /\ HasRow(member'[e], r) => d = e
    BY <1>1, <1>2, <2>1, RowNumbers DEF TeamInv, PageInv, HasRow
  <2>6. QED
    BY <2>3, <2>4, <2>5 DEF PageInv
<1>8. QED
  BY <1>2, <1>3, <1>6, <1>7 DEF TeamInv

LEMMA CallAboutOK ==
    ASSUME TeamInv, NEW c \in TeamCalls, NEW r \in TeamRows, NEW s \in Chains,
           CallAbout(c, r, s)
    PROVE  TeamInv'
<1> PICK m : m = [from |-> r, to |-> r, into |-> MovesTo(tableOf[r]), seen |-> 0]
  OBVIOUS
<1>1. /\ About(r, s) /\ StartTeamCall(c, m, s)
      /\ teamAstray' = (teamAstray \/ InFlightAbout(r) # {})
  BY DEF CallAbout
<1>2. MovesTo(tableOf[r]) \in Tables
  BY DEF MovesTo, Tables
<1>3. /\ m \in TeamCallRecords /\ m.from = r /\ m.to = r /\ m.seen = 0 /\ m.into \in Tables
  BY <1>2 DEF TeamCallRecords, RowOrNone
<1>4. tableOf[r] # "none"
  BY <1>1
  DEF About, ActiveTab, CandidatesTab, FormerTab, Exit, EditMember, Integrate, IntegrateNow,
      EditCandidate, Reintegrate, ReintegrateNow
<1>5. s \in (OfARow \cup Moving) \ {OnlyShow}
  BY ChainsOfThePage
<1>6. QED
  BY <1>1, <1>3, <1>4, <1>5, RowNumbers, StartTeamCallOK

LEMMA CallToAddOK ==
    ASSUME TeamInv, NEW c \in TeamCalls, NEW t \in Tables, NEW s \in NewChains,
           CallToAdd(c, t, s)
    PROVE  TeamInv'
<1> PICK m : m = [NoTeamCall EXCEPT !.into = t]
  OBVIOUS
<1>1. StartTeamCall(c, m, s) /\ UNCHANGED teamAstray
  BY DEF CallToAdd
<1>2. m \in TeamCallRecords /\ m.from = 0 /\ m.to = 0 /\ m.seen = 0 /\ m.into = t
  BY DEF TeamCallRecords, NoTeamCall, RowOrNone
<1>3. s \in Creating
  BY ChainsOfThePage
<1>4. teamAstray' \in BOOLEAN /\ ~ teamAstray
  BY <1>1 DEF TeamInv, TeamTypeOK, StartTeamCall, IsFollowed
<1>5. QED
  BY <1>1, <1>2, <1>3, <1>4, StartTeamCallOK

LEMMA SeesFacts ==
    ASSUME TeamTypeOK, NEW c \in TeamCalls, NEW r \in TeamRows, NEW v \in Nat, Sees(c, r, v)
    PROVE  /\ member'[c].to = r /\ member'[c].seen = v
           /\ member'[c].from = member[c].from /\ member'[c].into = member[c].into
           /\ chain'[c] = Tail(chain[c])
           /\ \A d \in TeamCalls \ {c} : member'[d] = member[d] /\ chain'[d] = chain[d]
           /\ member' \in [TeamCalls -> TeamCallRecords]
           /\ chain' = [d \in TeamCalls |-> chain'[d]]
           /\ UNCHANGED <<listed, readTables, teamAstray>>
<1>0. PICK m \in TeamCallRecords : m = member[c]
  BY DEF TeamTypeOK
<1> DEFINE mid == [m EXCEPT !.to = r]
<1>1. mid = [from |-> m.from, to |-> r, into |-> m.into, seen |-> m.seen]
  BY <1>0 DEF TeamCallRecords
<1>2. member' = [[member EXCEPT ![c] = mid] EXCEPT ![c].seen = v]
  BY <1>0 DEF Sees
<1> HIDE DEF mid
<1>3. member' = [member EXCEPT ![c] = [mid EXCEPT !.seen = v]]
  BY <1>2 DEF TeamTypeOK
<1>4. [mid EXCEPT !.seen = v] = [from |-> m.from, to |-> r, into |-> m.into, seen |-> v]
  BY <1>1
<1>5. member' = [member EXCEPT ![c] = [from |-> m.from, to |-> r, into |-> m.into,
                                       seen |-> v]]
  BY <1>3, <1>4
<1>6. /\ member'[c] = [from |-> m.from, to |-> r, into |-> m.into, seen |-> v]
      /\ \A d \in TeamCalls \ {c} : member'[d] = member[d]
      /\ member' = [d \in TeamCalls |-> member'[d]]
  BY <1>5 DEF TeamTypeOK
<1>7. [from |-> m.from, to |-> r, into |-> m.into, seen |-> v] \in TeamCallRecords
  BY <1>0 DEF TeamCallRecords, RowOrNone
<1>8. member' \in [TeamCalls -> TeamCallRecords]
  BY <1>6, <1>7 DEF TeamTypeOK
<1>9. /\ chain'[c] = Tail(chain[c])
      /\ \A d \in TeamCalls \ {c} : chain'[d] = chain[d]
      /\ chain' = [d \in TeamCalls |-> chain'[d]]
      /\ UNCHANGED <<listed, readTables, teamAstray>>
  BY DEF Sees, TeamTypeOK
<1>10. QED
  BY <1>0, <1>6, <1>8, <1>9

LEMMA UnseenHasRow ==
    ASSUME TeamTypeOK, CallsAreSound, NEW c \in TeamCalls, member[c].seen # 0
    PROVE  member[c].to \in TeamRows
<1>1. /\ chain[c] \in OfARow \cup Moving \cup Creating \cup {<<>>}
      /\ CallIsSound(chain[c], member[c], PageIsOpen, tableOf)
      /\ member[c] \in TeamCallRecords
  BY DEF TeamTypeOK, CallsAreSound
<1>2. QED
  BY <1>1 DEF CallIsSound, TeamCallRecords, RowOrNone

\* A call of the page has written or read a row.
LEMMA SeesOK ==
    ASSUME TeamInv, NEW c \in TeamCalls, NEW r \in TeamRows, NEW v \in Nat \ {0},
           NEW from, from = member[c].from,
           Sees(c, r, v), TableRowsOK', PeopleInv',
           chain[c] # <<>>, Tail(chain[c]) \in OfARow,
           tableOf'[r] # "none", version'[r] = v,
           ~ teamAstray /\ from \in TeamRows \ {r} => version'[from] = 0,
           ~ teamAstray /\ from = r => listed[r] # 0,
           member[c].to \in {0, r, from},
           member[c].to # r => tableOf[r] = "none",
           \A q \in TeamRows : tableOf[q] # "none" => tableOf'[q] = tableOf[q],
           \A q \in TeamRows : q # r /\ q # from =>
              tableOf'[q] = tableOf[q] /\ version'[q] = version[q]
    PROVE  TeamInv'
<1>1. TeamTypeOK /\ CallsAreSound
  BY DEF TeamInv
<1>2. /\ member'[c].to = r /\ member'[c].seen = v
      /\ member'[c].from = from /\ member'[c].into = member[c].into
      /\ chain'[c] = Tail(chain[c])
      /\ \A d \in TeamCalls \ {c} : member'[d] = member[d] /\ chain'[d] = chain[d]
      /\ member' \in [TeamCalls -> TeamCallRecords]
      /\ chain' = [d \in TeamCalls |-> chain'[d]]
      /\ UNCHANGED <<listed, readTables, teamAstray>>
  BY <1>1, SeesFacts
<1>3. TeamTypeOK'
  <2>1. \A d \in TeamCalls : chain'[d] \in OfARow \cup Moving \cup Creating \cup {<<>>}
    BY <1>1, <1>2, ZenonT(40) DEF TeamTypeOK
  <2>2. chain' \in [TeamCalls -> OfARow \cup Moving \cup Creating \cup {<<>>}]
    BY <1>2, <2>1
  <2>3. TableRowsOK'
    OBVIOUS
  <2>4. QED
    BY <1>1, <1>2, <2>2, <2>3 DEF TeamTypeOK
<1>4. \A d \in TeamCalls :
         /\ CallIsSound(chain[d], member[d], PageIsOpen, tableOf)
         /\ member[d] \in TeamCallRecords
  BY <1>1 DEF CallsAreSound, TeamTypeOK
<1>5. PageIsOpen' = PageIsOpen /\ PageIsOpen \in BOOLEAN
  BY <1>2 DEF PageIsOpen
<1>6. CallIsSound(chain'[c], member'[c], PageIsOpen, tableOf')
  <2>1. /\ PageIsOpen /\ member[c].into \in Tables
        /\ from # 0 => tableOf[from] # "none" /\ from \in TeamRows
    BY <1>4 DEF CallIsSound, TeamCallRecords, RowOrNone
  <2>2. /\ chain'[c] # <<>> /\ chain'[c] \notin Moving /\ chain'[c] \notin Creating
    BY <1>2, ChainsOfARow, ChainsThatBegin
  <2>3. r # 0 /\ v # 0
    BY RowNumbers
  <2>4. QED
    BY <1>2, <2>1, <2>2, <2>3 DEF CallIsSound
<1>7. \A d \in TeamCalls \ {c} : CallIsSound(chain'[d], member'[d], PageIsOpen, tableOf')
  BY <1>2, <1>4, <1>5, CallsStaySound
<1>8. CallsAreSound'
  BY <1>5, <1>6, <1>7 DEF CallsAreSound
<1>9. PageInv'
  <2> SUFFICES ASSUME ~ teamAstray PROVE PageInv'
    BY <1>2 DEF PageInv
  <2>1. /\ \A q \in TeamRows :
              \/ listed[q] = ToShow(q)
              \/ \E d \in TeamCalls : member[d].seen # 0 /\ HasRow(member[d], q)
        /\ \A d \in TeamCalls : UnseenIsThere(member[d])
        /\ \A d, e \in TeamCalls, q \in TeamRows :
              HasRow(member[d], q) /\ HasRow(member[e], q) => d = e
    BY DEF TeamInv, PageInv
  <2>2. \A d \in TeamCalls \ {c} : ~ HasRow(member[d], r) /\ (from \in TeamRows => ~ HasRow(member[d], from))
    <3> SUFFICES ASSUME NEW d \in TeamCalls \ {c}
                 PROVE  ~ HasRow(member[d], r) /\ (from \in TeamRows => ~ HasRow(member[d], from))
      OBVIOUS
    <3>1. from \in TeamRows => ~ HasRow(member[d], from)
      BY <2>1 DEF HasRow
    <3>2. CASE member[c].to = r
      BY <2>1, <3>1, <3>2 DEF HasRow
    <3>3. CASE member[c].to # r
      BY <1>4, <3>1, <3>3, RowNumbers DEF HasRow, CallIsSound
    <3>4. QED
      BY <3>1, <3>2, <3>3
  <2>3. \A q \in TeamRows :
           \/ listed'[q] = ToShow(q)'
           \/ \E d \in TeamCalls : member'[d].seen # 0 /\ HasRow(member'[d], q)
    <3> TAKE q \in TeamRows
    <3>1. CASE q = r \/ q = from
      BY <1>2, <3>1 DEF HasRow
    <3>2. CASE q # r /\ q # from
      <4>1. ToShow(q)' = ToShow(q)
        BY <1>2, <3>2 DEF ToShow
      <4>2. ~ HasRow(member[c], q)
        BY <3>2, RowNumbers DEF HasRow
      <4>3. QED
        BY <1>2, <2>1, <4>1, <4>2
    <3>3. QED
      BY <3>1, <3>2
  <2>4. \A d \in TeamCalls : UnseenIsThere(member[d])'
    <3> SUFFICES ASSUME NEW d \in TeamCalls PROVE UnseenIsThere(member[d])'
      OBVIOUS
    <3>1. CASE d = c
      BY <1>2, <3>1 DEF UnseenIsThere
    <3>2. CASE d # c
      <4>1. /\ member'[d] = member[d]
            /\ member[d].to # r /\ member[d].from # r
            /\ from \in TeamRows => member[d].to # from /\ member[d].from # from
        BY <1>2, <2>2, <3>2 DEF HasRow
      <4>2. member[d].seen # 0 => member[d].to \in TeamRows
        BY <1>1, UnseenHasRow
      <4>3. QED
        BY <1>2, <2>1, <4>1, <4>2 DEF UnseenIsThere
    <3>3. QED
      BY <3>1, <3>2
  <2>5. \A d, e \in TeamCalls, q \in TeamRows :
           HasRow(member'[d], q) /\ HasRow(member'[e], q) => d = e
    BY <1>2, <2>1, <2>2 DEF HasRow
  <2>6. QED
    BY <2>3, <2>4, <2>5 DEF PageInv
<1>10. QED
  BY <1>3, <1>8, <1>9 DEF TeamInv

\* The steps of a call, by the chain it is on.
LEMMA ChainByStep ==
    ASSUME TeamInv, NEW c \in TeamCalls, NEW step, IsAt(c, step)
    PROVE  /\ chain[c] # <<>>
           /\ step = "create" => chain[c] \in Creating
           /\ step = "move" => chain[c] \in Moving
           /\ step \in {"edit", "get"} => chain[c] \in OfARow
           /\ step \in {"create", "move", "edit", "get"} => Tail(chain[c]) \in OfARow
           /\ step = "show" => chain[c] = OnlyShow
<1>1. chain[c] \in OfARow \cup Moving \cup Creating /\ Head(chain[c]) = step
  BY DEF TeamInv, TeamTypeOK, IsAt
<1>2. CASE chain[c] \in OfARow
  BY <1>1, <1>2, ChainsOfARow
<1>3. CASE chain[c] \in Moving
  BY <1>1, <1>3, ChainsThatBegin
<1>4. CASE chain[c] \in Creating
  BY <1>1, <1>4, ChainsThatBegin
<1>5. QED
  BY <1>1, <1>2, <1>3, <1>4

LEMMA CreateRowOK ==
    ASSUME TeamInv, NEW c \in TeamCalls, NEW r \in TeamRows, CreateRow(c, r)
    PROVE  TeamInv'
<1>1. /\ IsAt(c, "create") /\ Enter(r, member[c].into) /\ Sees(c, r, 1)
  BY DEF CreateRow
<1>2. chain[c] # <<>> /\ chain[c] \in Creating /\ Tail(chain[c]) \in OfARow
  BY <1>1, ChainByStep
<1>3. /\ member[c].into \in Tables
      /\ member[c].from = 0 /\ member[c].to = 0
  BY <1>2 DEF TeamInv, CallsAreSound, CallIsSound
<1>4. /\ TableRowsOK' /\ PeopleInv'
      /\ tableOf[r] = "none" /\ tableOf'[r] = member[c].into /\ version'[r] = 1
      /\ \A q \in TeamRows \ {r} : tableOf'[q] = tableOf[q] /\ version'[q] = version[q]
  BY <1>1, <1>3, EnterOK DEF TeamInv, TeamTypeOK
<1>5. tableOf'[r] # "none" /\ 0 \notin TeamRows /\ 1 \in Nat \ {0}
  BY <1>3, <1>4, RowNumbers DEF Tables
<1>6. QED
  BY <1>1, <1>2, <1>3, <1>4, <1>5, SeesOK

LEMMA MoveRowOK ==
    ASSUME TeamInv, NEW c \in TeamCalls, NEW r \in TeamRows, MoveRow(c, r)
    PROVE  TeamInv'
<1> PICK from : from = member[c].from
  OBVIOUS
<1>1. /\ IsAt(c, "move") /\ Move(from, r, member[c].into) /\ Sees(c, r, 1)
  BY DEF MoveRow
<1>2. chain[c] # <<>> /\ chain[c] \in Moving /\ Tail(chain[c]) \in OfARow
  BY <1>1, ChainByStep
<1>3. /\ member[c].into \in Tables
      /\ from \in TeamRows /\ member[c].to = from
  BY <1>2 DEF TeamInv, TeamTypeOK, CallsAreSound, CallIsSound, TeamCallRecords, RowOrNone
<1>4. /\ TableRowsOK' /\ PeopleInv' /\ r # from
      /\ tableOf[r] = "none" /\ tableOf'[r] = member[c].into /\ version'[r] = 1
      /\ tableOf'[from] = tableOf[from] /\ version'[from] = 0
      /\ \A q \in TeamRows \ {r, from} :
            tableOf'[q] = tableOf[q] /\ version'[q] = version[q]
  BY <1>1, <1>3, MoveOK DEF TeamInv, TeamTypeOK
<1>5. tableOf'[r] # "none" /\ 1 \in Nat \ {0}
  BY <1>3, <1>4 DEF Tables
<1>6. \A q \in TeamRows : tableOf[q] # "none" => tableOf'[q] = tableOf[q]
  BY <1>4
<1>7. QED
  BY <1>1, <1>2, <1>3, <1>4, <1>5, <1>6, SeesOK

\* A row that the page edits or reads again is on it, or it made it.
LEMMA RowOfACall ==
    ASSUME TeamInv, NEW c \in TeamCalls, chain[c] \in OfARow, version[member[c].to] # 0
    PROVE  /\ member[c].to \in TeamRows
           /\ tableOf[member[c].to] # "none"
           /\ ~ teamAstray /\ member[c].from = member[c].to => listed[member[c].to] # 0
           /\ ~ teamAstray /\ member[c].from \in TeamRows \ {member[c].to} =>
                 version[member[c].from] = 0
<1> PICK r : r = member[c].to
  OBVIOUS
<1>1. /\ r \in TeamRows /\ tableOf[r] # "none"
      /\ member[c].seen = 0 => member[c].from = r
      /\ PageIsOpen
  BY ChainsOfARow
  DEF TeamInv, TeamTypeOK, CallsAreSound, CallIsSound, TeamCallRecords, RowOrNone
<1>2. ASSUME ~ teamAstray
      PROVE  /\ member[c].from = r => listed[r] # 0
             /\ member[c].from \in TeamRows \ {r} => version[member[c].from] = 0
  <2>1. /\ \A q \in TeamRows :
              \/ listed[q] = ToShow(q)
              \/ \E d \in TeamCalls : member[d].seen # 0 /\ HasRow(member[d], q)
        /\ UnseenIsThere(member[c])
        /\ \A d, e \in TeamCalls, q \in TeamRows :
              HasRow(member[d], q) /\ HasRow(member[e], q) => d = e
    BY <1>2 DEF TeamInv, PageInv
  <2>2. CASE member[c].seen # 0
    BY <2>1, <2>2 DEF UnseenIsThere
  <2>3. CASE member[c].seen = 0
    <3>1. HasRow(member[c], r)
      BY DEF HasRow
    <3>2. listed[r] = ToShow(r)
      BY <1>1, <2>1, <2>3, <3>1
    <3>3. tableOf[r] \in readTables
      BY <1>1 DEF TeamInv, TeamTypeOK, TableRowsOK, PageIsOpen
    <3>4. QED
      BY <1>1, <2>3, <3>2, <3>3 DEF ToShow
  <2>4. QED
    BY <2>2, <2>3
<1>3. QED
  BY <1>1, <1>2

LEMMA EditRowOK ==
    ASSUME TeamInv, NEW c \in TeamCalls, EditRow(c)
    PROVE  TeamInv'
<1> PICK r, v, from : r = member[c].to /\ v = version[r] + 1 /\ from = member[c].from
  OBVIOUS
<1>1. IsAt(c, "edit") /\ Edit(r) /\ Sees(c, r, v)
  BY DEF EditRow
<1>2. chain[c] # <<>> /\ chain[c] \in OfARow /\ Tail(chain[c]) \in OfARow
  BY <1>1, ChainByStep
<1>3. version[r] # 0
  BY <1>1, RowNumbers DEF Edit
<1>4. /\ r \in TeamRows /\ tableOf[r] # "none"
      /\ ~ teamAstray /\ from = r => listed[r] # 0
      /\ ~ teamAstray /\ from \in TeamRows \ {r} => version[from] = 0
  BY <1>2, <1>3, RowOfACall
<1>5. /\ TableRowsOK' /\ PeopleInv'
      /\ version'[r] = v /\ v \in Nat \ {0}
      /\ UNCHANGED tableOf
      /\ \A q \in TeamRows \ {r} : version'[q] = version[q]
  BY <1>1, <1>4, EditOK DEF TeamInv, TeamTypeOK
<1>6. ~ teamAstray /\ from \in TeamRows \ {r} => version'[from] = 0
  BY <1>4, <1>5
<1>7. QED
  BY <1>1, <1>2, <1>4, <1>5, <1>6, SeesOK

LEMMA GetRowOK ==
    ASSUME TeamInv, NEW c \in TeamCalls, GetRow(c)
    PROVE  TeamInv'
<1> PICK r, v, from : r = member[c].to /\ v = version[r] /\ from = member[c].from
  OBVIOUS
<1>1. /\ IsAt(c, "get") /\ There(r) /\ Sees(c, r, v)
      /\ UNCHANGED <<tableOf, version, origin>>
  BY DEF GetRow
<1>2. chain[c] # <<>> /\ chain[c] \in OfARow /\ Tail(chain[c]) \in OfARow
  BY <1>1, ChainByStep
<1>3. version[r] # 0
  BY <1>1 DEF There
<1>4. /\ r \in TeamRows /\ tableOf[r] # "none"
      /\ ~ teamAstray /\ from = r => listed[r] # 0
      /\ ~ teamAstray /\ from \in TeamRows \ {r} => version[from] = 0
  BY <1>2, <1>3, RowOfACall
<1>5. TableRowsOK' /\ PeopleInv' /\ v \in Nat \ {0}
  BY <1>1, <1>3, <1>4 DEF TeamInv, TeamTypeOK, TableRowsOK, PeopleInv
<1>6. QED
  BY <1>1, <1>2, <1>4, <1>5, SeesOK

LEMMA EndFacts ==
    ASSUME TeamInv, NEW c \in TeamCalls, EndTeamCall(c), listed' \in [TeamRows -> Nat],
           teamAstray' \in BOOLEAN
    PROVE  /\ TeamTypeOK' /\ PeopleInv' /\ CallsAreSound'
           /\ member'[c].seen = 0 /\ member'[c].to = 0 /\ member'[c].from = 0
           /\ \A d \in TeamCalls \ {c} : member'[d] = member[d]
           /\ UNCHANGED <<tableOf, version, readTables>>
<1>1. /\ chain' = [chain EXCEPT ![c] = <<>>] /\ member' = [member EXCEPT ![c] = NoTeamCall]
      /\ UNCHANGED <<tableOf, version, origin, readTables>>
  BY DEF EndTeamCall
<1>2. NoTeamCall \in TeamCallRecords
  BY DEF TeamCallRecords, NoTeamCall, RowOrNone
<1>3. /\ chain'[c] = <<>> /\ member'[c] = NoTeamCall
      /\ \A d \in TeamCalls \ {c} : chain'[d] = chain[d] /\ member'[d] = member[d]
      /\ TeamTypeOK'
  BY <1>1, <1>2 DEF TeamInv, TeamTypeOK, TableRowsOK
<1>4. PeopleInv'
  BY <1>1 DEF TeamInv, PeopleInv
<1>5. NoTeamCall.seen = 0 /\ NoTeamCall.to = 0 /\ NoTeamCall.from = 0
  BY DEF NoTeamCall
<1>6. <<>> \notin Moving /\ <<>> \notin Creating /\ <<>> \notin OfARow
  BY ChainsOfARow, ChainsThatBegin
<1>7. CallsAreSound'
  BY <1>1, <1>3, <1>5, <1>6 DEF TeamInv, CallsAreSound, CallIsSound, PageIsOpen
<1>8. QED
  BY <1>1, <1>3, <1>4, <1>5, <1>7

LEMMA ShowMemberOK ==
    ASSUME TeamInv, NEW c \in TeamCalls, ShowMember(c)
    PROVE  TeamInv'
<1> PICK to, from, seen : to = member[c].to /\ from = member[c].from /\ seen = member[c].seen
  OBVIOUS
<1>1. /\ IsAt(c, "show") /\ EndTeamCall(c) /\ UNCHANGED teamAstray
      /\ listed' = [r \in TeamRows |->
            IF r = to /\ (from # to \/ listed[r] # 0) THEN seen
            ELSE IF r = from THEN 0
            ELSE listed[r]]
  BY DEF ShowMember
<1>2. /\ to \in TeamRows /\ from \in RowOrNone /\ seen \in Nat /\ seen # 0
      /\ PageIsOpen
      /\ tableOf[to] # "none"
  <2>1. chain[c] = OnlyShow /\ OnlyShow \in OfARow /\ chain[c] # <<>>
    BY <1>1, ChainByStep DEF OfARow
  <2>2. QED
    BY <2>1 DEF TeamInv, TeamTypeOK, CallsAreSound, CallIsSound, TeamCallRecords, RowOrNone
<1>3. listed' \in [TeamRows -> Nat] /\ teamAstray' \in BOOLEAN
  BY <1>1, <1>2 DEF TeamInv, TeamTypeOK
<1>4. /\ TeamTypeOK' /\ PeopleInv' /\ CallsAreSound'
      /\ member'[c].seen = 0 /\ member'[c].to = 0 /\ member'[c].from = 0
      /\ \A d \in TeamCalls \ {c} : member'[d] = member[d]
      /\ UNCHANGED <<tableOf, version, readTables>>
  BY <1>1, <1>3, EndFacts
<1>5. PageInv'
  <2> SUFFICES ASSUME ~ teamAstray PROVE PageInv'
    BY <1>1 DEF PageInv
  <2>1. /\ \A q \in TeamRows :
              \/ listed[q] = ToShow(q)
              \/ \E d \in TeamCalls : member[d].seen # 0 /\ HasRow(member[d], q)
        /\ \A d \in TeamCalls : UnseenIsThere(member[d])
        /\ \A d, e \in TeamCalls, q \in TeamRows :
              HasRow(member[d], q) /\ HasRow(member[e], q) => d = e
    BY DEF TeamInv, PageInv
  <2>2. /\ version[to] = seen
        /\ from \in TeamRows \ {to} => version[from] = 0
        /\ from = to => listed[to] # 0
    BY <1>2, <2>1 DEF UnseenIsThere
  <2>3. \A q \in TeamRows : ToShow(q)' = ToShow(q)
    BY <1>4 DEF ToShow
  <2>4. \A q \in TeamRows :
           \/ listed'[q] = ToShow(q)'
           \/ \E d \in TeamCalls : member'[d].seen # 0 /\ HasRow(member'[d], q)
    <3> TAKE q \in TeamRows
    <3>1. CASE q = to
      <4>1. listed'[q] = seen
        BY <1>1, <2>2, <3>1
      <4>2. ToShow(q) = version[q]
        BY <1>2, <3>1 DEF ToShow, PageIsOpen, TeamInv, TeamTypeOK, TableRowsOK
      <4>3. QED
        BY <2>2, <2>3, <3>1, <4>1, <4>2
    <3>2. CASE q = from /\ q # to
      <4>1. listed'[q] = 0
        BY <1>1, <3>2
      <4>2. ToShow(q) = 0
        BY <2>2, <3>2 DEF ToShow
      <4>3. QED
        BY <2>3, <4>1, <4>2
    <3>3. CASE q # from /\ q # to
      <4>1. listed'[q] = listed[q] /\ ~ HasRow(member[c], q)
        BY <1>1, <3>3 DEF HasRow
      <4>2. QED
        BY <1>4, <2>1, <2>3, <4>1
    <3>4. QED
      BY <3>1, <3>2, <3>3
  <2>5. \A d \in TeamCalls : UnseenIsThere(member[d])'
    <3> SUFFICES ASSUME NEW d \in TeamCalls PROVE UnseenIsThere(member[d])'
      OBVIOUS
    <3>1. CASE d = c
      BY <1>4, <3>1 DEF UnseenIsThere
    <3>2. CASE d # c
      <4>1. /\ member'[d] = member[d] /\ ~ HasRow(member[d], to)
            /\ from \in TeamRows => ~ HasRow(member[d], from)
        BY <1>2, <1>4, <2>1, <3>2 DEF HasRow
      <4>2. member[d].seen # 0 => member[d].to \in TeamRows
        BY UnseenHasRow DEF TeamInv
      <4>3. member[d].seen # 0 => listed'[member[d].to] = listed[member[d].to]
        BY <1>1, <4>1, <4>2 DEF HasRow
      <4>4. QED
        BY <1>4, <2>1, <4>1, <4>3 DEF UnseenIsThere
    <3>3. QED
      BY <3>1, <3>2
  <2>6. \A d, e \in TeamCalls, q \in TeamRows :
           HasRow(member'[d], q) /\ HasRow(member'[e], q) => d = e
    BY <1>4, <2>1, RowNumbers DEF HasRow
  <2>7. QED
    BY <2>4, <2>5, <2>6 DEF PageInv
<1>6. QED
  BY <1>4, <1>5 DEF TeamInv

LEMMA TeamCallDiesOK ==
    ASSUME TeamInv, NEW c \in TeamCalls, TeamCallDies(c)
    PROVE  TeamInv'
<1>1. /\ EndTeamCall(c) /\ UNCHANGED listed
      /\ teamAstray' = (teamAstray \/ member[c].seen # 0)
  BY DEF TeamCallDies
<1>2. /\ TeamTypeOK' /\ PeopleInv' /\ CallsAreSound'
      /\ member'[c].seen = 0 /\ member'[c].to = 0 /\ member'[c].from = 0
      /\ \A d \in TeamCalls \ {c} : member'[d] = member[d]
      /\ UNCHANGED <<tableOf, version, readTables>>
  <2>1. listed' \in [TeamRows -> Nat] /\ teamAstray' \in BOOLEAN
    BY <1>1 DEF TeamInv, TeamTypeOK
  <2>2. QED
    BY <1>1, <2>1, EndFacts
<1>3. PageInv'
  <2> SUFFICES ASSUME ~ teamAstray, member[c].seen = 0 PROVE PageInv'
    BY <1>1 DEF PageInv
  <2>1. \A q \in TeamRows : ToShow(q)' = ToShow(q)
    BY <1>2 DEF ToShow
  <2>2. \A q \in TeamRows :
           \/ listed'[q] = ToShow(q)'
           \/ \E d \in TeamCalls : member'[d].seen # 0 /\ HasRow(member'[d], q)
    BY <1>1, <1>2, <2>1 DEF TeamInv, PageInv
  <2>3. \A d \in TeamCalls : UnseenIsThere(member[d])'
    BY <1>1, <1>2 DEF TeamInv, PageInv, UnseenIsThere
  <2>4. \A d, e \in TeamCalls, q \in TeamRows :
           HasRow(member'[d], q) /\ HasRow(member'[e], q) => d = e
    <3>1. \A d \in TeamCalls, q \in TeamRows :
             HasRow(member'[d], q) => d # c /\ HasRow(member[d], q)
      BY <1>2, RowNumbers DEF HasRow
    <3>2. QED
      BY <3>1 DEF TeamInv, PageInv
  <2>5. QED
    BY <2>2, <2>3, <2>4 DEF PageInv
<1>4. QED
  BY <1>2, <1>3 DEF TeamInv

LEMMA ReadTableOK ==
    ASSUME TeamInv, NEW t \in Tables, ReadTable(t)
    PROVE  TeamInv'
<1>1. /\ t \notin readTables /\ readTables' = readTables \cup {t}
      /\ listed' = [r \in TeamRows |-> IF tableOf[r] = t THEN version[r] ELSE listed[r]]
      /\ UNCHANGED <<tableOf, version, origin, chain, member, teamAstray>>
  BY DEF ReadTable
<1>2. /\ \A c \in TeamCalls : member[c].seen = 0 /\ member[c].from = 0 /\ member[c].to = 0
      /\ \A c \in TeamCalls : chain[c] = <<>>
      /\ ~ teamAstray => \A r \in TeamRows : listed[r] = ToShow(r)
  BY <1>1, NothingInFlightBefore DEF PageIsOpen
<1>3. TeamTypeOK' /\ PeopleInv'
  BY <1>1 DEF TeamInv, TeamTypeOK, TableRowsOK, PeopleInv
<1>4. CallsAreSound'
  <2>1. <<>> \notin Moving /\ <<>> \notin Creating /\ <<>> \notin OfARow
    BY ChainsOfARow, ChainsThatBegin
  <2>2. QED
    BY <1>1, <1>2, <2>1 DEF CallsAreSound, CallIsSound
<1>5. \A r \in TeamRows : ~ teamAstray => listed'[r] = ToShow(r)'
  BY <1>1, <1>2 DEF ToShow
<1>6. PageInv'
  BY <1>1, <1>2, <1>5, RowNumbers DEF PageInv, UnseenIsThere, HasRow
<1>7. QED
  BY <1>3, <1>4, <1>6 DEF TeamInv

LEMMA TeamInitOK == TeamInit => TeamInv
<1> SUFFICES ASSUME TeamInit PROVE TeamInv
  OBVIOUS
<1>1. PICK n \in 0..MaxTeamRows, t \in Tables :
         /\ n < 2
         /\ tableOf = [r \in TeamRows |-> IF r <= n THEN t ELSE "none"]
         /\ version = [r \in TeamRows |-> IF r <= n THEN 1 ELSE 0]
         /\ origin = [r \in TeamRows |-> IF r <= n THEN r ELSE 0]
  BY DEF TeamInit
<1>2. /\ listed = [r \in TeamRows |-> 0] /\ readTables = {}
      /\ chain = [c \in TeamCalls |-> <<>>]
      /\ member = [c \in TeamCalls |-> NoTeamCall]
      /\ teamAstray = FALSE
  BY DEF TeamInit
<1>3. NoTeamCall \in TeamCallRecords /\ NoTeamCall.seen = 0 /\ NoTeamCall.from = 0
      /\ NoTeamCall.to = 0
  BY DEF TeamCallRecords, NoTeamCall, RowOrNone
<1>4. TeamTypeOK
  BY <1>1, <1>2, <1>3 DEF TeamTypeOK, TableRowsOK, RowOrNone
<1>5. /\ t # "none" /\ "none" \notin readTables
      /\ \A r \in TeamRows : r <= n <=> r = 1 /\ n = 1
      /\ n = 1 => 1 \in TeamRows
  BY <1>1, <1>2, TeamAssumption DEF Tables, TeamRows
<1>6. PeopleInv
  BY <1>1, <1>5, RowNumbers DEF PeopleInv
<1>7. CallsAreSound
  <2>1. <<>> \notin Moving /\ <<>> \notin Creating /\ <<>> \notin OfARow
    BY ChainsOfARow, ChainsThatBegin
  <2>2. QED
    BY <1>2, <1>3, <2>1 DEF CallsAreSound, CallIsSound
<1>8. PageInv
  BY <1>2, <1>3, RowNumbers DEF PageInv, UnseenIsThere, HasRow, ToShow
<1>9. QED
  BY <1>4, <1>6, <1>7, <1>8 DEF TeamInv

LEMMA TeamStepOK == TeamInv /\ [TeamNext]_teamVars => TeamInv'
<1> SUFFICES ASSUME TeamInv, [TeamNext]_teamVars PROVE TeamInv'
  OBVIOUS
<1>1. ASSUME NEW t \in Tables, ReadTable(t) PROVE TeamInv'
  BY <1>1, ReadTableOK
<1>2. ASSUME NEW r \in TeamRows,
             \/ \E t \in Tables : EnterElsewhere(r, t)
             \/ \E from \in TeamRows : MoveElsewhere(from, r)
             \/ EditElsewhere(r)
      PROVE  TeamInv'
  BY <1>2, OthersOK
<1>3. ASSUME NEW c \in TeamCalls, NEW r \in TeamRows, NEW s \in Chains, CallAbout(c, r, s)
      PROVE  TeamInv'
  BY <1>3, CallAboutOK
<1>4. ASSUME NEW c \in TeamCalls, NEW t \in Tables, NEW s \in NewChains, CallToAdd(c, t, s)
      PROVE  TeamInv'
  BY <1>4, CallToAddOK
<1>5. ASSUME NEW c \in TeamCalls, NEW r \in TeamRows, CreateRow(c, r) \/ MoveRow(c, r)
      PROVE  TeamInv'
  BY <1>5, CreateRowOK, MoveRowOK
<1>6. ASSUME NEW c \in TeamCalls,
             EditRow(c) \/ GetRow(c) \/ ShowMember(c) \/ TeamCallDies(c)
      PROVE  TeamInv'
  BY <1>6, EditRowOK, GetRowOK, ShowMemberOK, TeamCallDiesOK
<1>7. CASE UNCHANGED teamVars
  BY <1>7
  DEF teamVars, TeamInv, TeamTypeOK, TableRowsOK, PeopleInv, CallsAreSound, PageIsOpen,
      PageInv, UnseenIsThere, ToShow
<1>8. QED
  BY <1>1, <1>2, <1>3, <1>4, <1>5, <1>6, <1>7 DEF TeamNext

\* Whoever was entered is a row of one table, and of one only, whatever calls
\* overlap, fail or stop between two steps; and a page with nothing in flight that
\* was told of everything shows the three tables as they are (EveryoneIsOnOneList).
THEOREM PeopleAreListedOnce ==
    TeamInit /\ [][TeamNext]_teamVars => []EveryoneIsOnOneList
<1>1. TeamInv => EveryoneIsOnOneList
  <2> SUFFICES ASSUME TeamInv PROVE EveryoneIsOnOneList
    OBVIOUS
  <2>1. ASSUME NEW r \in TeamRows, origin[r] = r
        PROVE  Cardinality({q \in TeamRows : origin[q] = r /\ There(q)}) = 1
    <3>1. \A q \in TeamRows : There(q) <=> version[q] # 0
      BY DEF There, TeamInv, TeamTypeOK, TableRowsOK
    <3>2. PICK p \in TeamRows : origin[p] = r /\ version[p] # 0
      BY <2>1 DEF TeamInv, PeopleInv
    <3>3. \A q \in TeamRows : origin[q] = r /\ version[q] # 0 => q = p
      BY <3>2 DEF TeamInv, PeopleInv
    <3>4. {q \in TeamRows : origin[q] = r /\ There(q)} = {p}
      BY <3>1, <3>2, <3>3
    <3>5. QED
      BY <3>4, FS_Singleton
  <2>2. ASSUME PageIsOpen, ~ teamAstray, \A c \in TeamCalls : chain[c] = <<>>
        PROVE  listed = version
    <3>1. \A c \in TeamCalls : member[c].seen = 0
      BY <2>2 DEF TeamInv, CallsAreSound, CallIsSound
    <3>2. \A r \in TeamRows : listed[r] = ToShow(r)
      BY <2>2, <3>1 DEF TeamInv, PageInv
    <3>3. \A r \in TeamRows : ToShow(r) = version[r]
      BY <2>2 DEF ToShow, PageIsOpen, TeamInv, TeamTypeOK, TableRowsOK, PeopleInv
    <3>4. QED
      BY <3>2, <3>3 DEF TeamInv, TeamTypeOK, TableRowsOK
  <2>3. QED
    BY <2>1, <2>2 DEF EveryoneIsOnOneList
<1>2. QED
  BY <1>1, TeamInitOK, TeamStepOK, PTL

(***************************************************************************)
(* ListPages: what a call has in its hands, how often an opening of a form *)
(* has taken effect, and what is still to be shown.                        *)
(***************************************************************************)
FormRecords ==
    [op : {"none", "create", "edit", "act"}, holds : {"never", "meanwhile", "for-good"},
     file : {"none", "with-the-save", "told-of", "apart"},
     then : {"patch", "captured", "window", "reload"},
     twice : {"again", "same", "refused"}]

RowOrNo == PageRows \cup {NoPageRow}
Lists == [PageRows -> Nat]
OpeningOrNone == Openings \cup {0}

PageCallRecords ==
    [op : {"none", "load", "remove", "create", "edit", "act"}, form : FormRecords,
     opening : OpeningOrNone, row : RowOrNo, seen : Nat, list : Lists]

OpenFormRecords ==
    [form : FormRecords, opening : OpeningOrNone, row : RowOrNo, saving : BOOLEAN,
     resend : BOOLEAN]

OpeningRecords ==
    [form : FormRecords, row : RowOrNo, effects : Nat, again : BOOLEAN,
     failed : SUBSET {"answer", "file"}]

PageTypeOK ==
    /\ page \in Pages
    /\ row \in Lists
    /\ taken \in SUBSET PageRows
    /\ shown \in Lists
    /\ loaded \in BOOLEAN
    /\ form \in OpenFormRecords
    /\ openings \in [Openings -> OpeningRecords]
    /\ callStep \in
          [PageCalls -> {"idle", "save", "file", "show", "remove", "read", "show-list"}]
    /\ calling \in [PageCalls -> PageCallRecords]
    /\ astray \in BOOLEAN

\* A call, the step it is at, and the opening it is of.
OfAForm(m) == m.op \in {"create", "edit", "act"}

CallOnCourse(s, m) ==
    /\ s = "idle" => m.opening = 0
    /\ s \in {"save", "file"} => OfAForm(m)
    /\ s = "remove" => m.op = "remove"
    /\ m.op \in {"none", "load", "remove"} => m.opening = 0
    /\ m.op \in {"none", "load"} => m.form = NoForm /\ s \in {"idle", "read", "show-list"}
    /\ m.op = "remove" => /\ m.row \in PageRows
                          /\ m.form.then \in {"patch", "captured", "reload"}
                          /\ s = "show" => m.seen = 0
    /\ s \in {"read", "show-list"} => m.op = "load" \/ m.form.then \in {"reload", "window"}
    /\ s \in {"file", "show"} => m.row \in PageRows
    /\ s = "show" => m.form.then \in {"patch", "captured"}

CallOfItsOpening(m) ==
    OfAForm(m) => /\ m.opening \in Openings
                  /\ m.form \in page.forms
                  /\ openings[m.opening].form = m.form

CallsOnCourse ==
    \A c \in PageCalls : CallOnCourse(callStep[c], calling[c]) /\ CallOfItsOpening(calling[c])

\* Nothing is done to a list that was never loaded.
LoadedFirst ==
    ~ loaded => form = NothingOpen /\ \A c \in PageCalls : calling[c].op \in {"none", "load"}

FormOfItsOpening ==
    form # NothingOpen =>
       /\ form.opening \in Openings
       /\ form.form \in page.forms
       /\ openings[form.opening].form = form.form
       /\ form.resend => form.form.file = "apart" /\ form.row \in PageRows

OpeningsInOrder ==
    /\ \E k \in 0..MaxOpenings : \A n \in Openings : openings[n] # NotOpened <=> n <= k
    /\ \A n \in Openings : openings[n] = NotOpened \/ openings[n].form \in page.forms

\* Rows are never taken again once they have been there.
TakenRows == taken \cup {NoPageRow}

RowsAreTaken ==
    /\ \A r \in PageRows : row[r] # 0 \/ shown[r] # 0 => r \in taken
    /\ \A c \in PageCalls :
          /\ calling[c].row \in TakenRows
          /\ \A r \in PageRows : calling[c].list[r] # 0 => r \in taken
    /\ form.row \in TakenRows
    /\ \A n \in Openings :
          /\ openings[n].row \in TakenRows
          /\ openings[n].effects # 0 => openings[n].row \in PageRows

\* Nothing of what allows a second effect has happened to an opening.
IsOrderly(o) ==
    /\ o.form.twice = "again"
    /\ o.form.holds = "for-good" \/ o.failed = {}
    /\ o.form.holds = "never" => ~ o.again

HasACall(n) == \E c \in PageCalls : calling[c].opening = n

SavedOnce(n) ==
    /\ openings[n].form.twice # "again" => openings[n].effects \in {0, 1}
    /\ "file" \in openings[n].failed => openings[n].form.file = "with-the-save"
    /\ IsOrderly(openings[n]) =>
          /\ openings[n].effects \in {0, 1}
          /\ \A c, d \in PageCalls :
                calling[c].opening = n /\ calling[d].opening = n => c = d
          /\ \A c \in PageCalls : calling[c].opening = n =>
                /\ callStep[c] = "save" => openings[n].effects = 0
                /\ callStep[c] \in {"read", "show-list"} => form.opening # n
          /\ form.opening = n =>
                /\ openings[n].form.holds # "never" /\ ~ form.saving => ~ HasACall(n)
                /\ /\ ~ form.resend /\ ~ HasACall(n)
                   /\ openings[n].form.holds = "for-good" => ~ form.saving
                   => openings[n].effects = 0

FormsInv ==
    /\ FormOfItsOpening
    /\ OpeningsInOrder
    /\ \A n \in Openings : SavedOnce(n)

\* A call at the step s with m in its hands: what it will show, of one row or of
\* all, and what it has in its hands to show.
Covers(s, m, r) ==
    \/ s \in {"read", "show-list"}
    \/ s \in {"file", "show"} /\ m.row = r

ReadyToShow(s, m) ==
    /\ s \in {"file", "show"} /\ m.form.then \in {"patch", "captured"} =>
          /\ row[m.row] = m.seen
          /\ m.op \in {"edit", "act"} => shown[m.row] # 0
    /\ s = "show-list" => m.list = row
    /\ s # "idle" /\ m.form.then = "captured" => m.list = shown

Undisturbed ==
    \A c, d \in InFlight : c # d => ~ Disturb(calling[c], calling[d])

\* Whoever has come down to sending the file again does nothing else.
AtTheFile ==
    form.resend => \A c \in InFlight : callStep[c] = "file" /\ calling[c].opening = form.opening

ShownInv ==
    ~ astray =>
       /\ Undisturbed
       /\ AtTheFile
       /\ \A c \in PageCalls : ReadyToShow(callStep[c], calling[c])
       /\ loaded /\ ~ form.resend => \A r \in PageRows :
             shown[r] = row[r] \/ \E c \in PageCalls : Covers(callStep[c], calling[c], r)

PagesInv ==
    /\ PageTypeOK
    /\ CallsOnCourse
    /\ LoadedFirst
    /\ FormsInv
    /\ RowsAreTaken
    /\ ShownInv

\* A call comes to the step s with m in its hands: the form has nothing to send
\* again, or the page is told when it is closed.
PanelKept(s, m) ==
    \/ ~ form.resend /\ ~ form'.resend
    \/ AtTheFile' /\ (form'.resend \/ \A r \in PageRows : Covers(s, m, r))

\* The call c comes to the step s with m in its hands, and no other call moves.
CallComesTo(c, s, m) ==
    /\ callStep'[c] = s
    /\ calling'[c] = m
    /\ \A d \in PageCalls \ {c} : callStep'[d] = callStep[d] /\ calling'[d] = calling[d]
    /\ callStep' = [d \in PageCalls |-> callStep'[d]]
    /\ calling' = [d \in PageCalls |-> calling'[d]]

\* m and call differ by their list at most, or by their row and answer.
SameButList(m, call) ==
    /\ m.op = call.op /\ m.form = call.form /\ m.opening = call.opening
    /\ m.row = call.row /\ m.seen = call.seen

SameButAnswer(m, call) ==
    /\ m.op = call.op /\ m.form = call.form /\ m.opening = call.opening
    /\ m.list = call.list

LEMMA NothingInHand ==
    /\ NoForm \in FormRecords
    /\ NoForm.op = "none" /\ NoForm.then = "patch" /\ NoForm.twice = "again"
    /\ NoForm.holds = "never" /\ NoForm.file = "none"
    /\ NoListShown \in Lists /\ \A r \in PageRows : NoListShown[r] = 0
    /\ NoPageCall \in PageCallRecords
    /\ NoPageCall.op = "none" /\ NoPageCall.form = NoForm /\ NoPageCall.opening = 0
    /\ NoPageCall.row = NoPageRow /\ NoPageCall.seen = 0 /\ NoPageCall.list = NoListShown
    /\ NothingOpen \in OpenFormRecords
    /\ NothingOpen.opening = 0 /\ NothingOpen.row = NoPageRow /\ NothingOpen.form = NoForm
    /\ ~ NothingOpen.saving /\ ~ NothingOpen.resend
    /\ NotOpened \in OpeningRecords
    /\ NotOpened.form = NoForm /\ NotOpened.row = NoPageRow /\ NotOpened.effects = 0
    /\ ~ NotOpened.again /\ NotOpened.failed = {}
<1>1. /\ NoForm \in FormRecords
      /\ NoForm.op = "none" /\ NoForm.then = "patch" /\ NoForm.twice = "again"
      /\ NoForm.holds = "never" /\ NoForm.file = "none"
  BY DEF NoForm, Form, FormRecords
<1>2. NoListShown \in Lists /\ \A r \in PageRows : NoListShown[r] = 0
  BY DEF NoListShown, Lists
<1>3. /\ NoPageCall \in PageCallRecords
      /\ NoPageCall.op = "none" /\ NoPageCall.form = NoForm /\ NoPageCall.opening = 0
      /\ NoPageCall.row = NoPageRow /\ NoPageCall.seen = 0 /\ NoPageCall.list = NoListShown
  BY <1>1, <1>2 DEF NoPageCall, PageCallRecords, OpeningOrNone, RowOrNo
<1>4. /\ NothingOpen \in OpenFormRecords
      /\ NothingOpen.opening = 0 /\ NothingOpen.row = NoPageRow /\ NothingOpen.form = NoForm
      /\ ~ NothingOpen.saving /\ ~ NothingOpen.resend
  BY <1>1 DEF NothingOpen, FormOpen, OpenFormRecords, OpeningOrNone, RowOrNo
<1>5. /\ NotOpened \in OpeningRecords
      /\ NotOpened.form = NoForm /\ NotOpened.row = NoPageRow /\ NotOpened.effects = 0
      /\ ~ NotOpened.again /\ NotOpened.failed = {}
  BY <1>1 DEF NotOpened, OpeningRecords, RowOrNo
<1>6. QED
  BY <1>1, <1>2, <1>3, <1>4, <1>5

LEMMA FormsOfAPage ==
    ASSUME page \in Pages
    PROVE  /\ page.removes \in {"no", "patch", "captured", "reload"}
           /\ \A f \in page.forms :
                 /\ f \in FormRecords /\ f.op \in {"create", "edit", "act"} /\ f # NoForm
                 /\ f.then = "reload" => f.twice # "again"
                 /\ f.twice = "same" => f.then \in {"reload", "window"}
                 /\ f.file = "apart" => /\ f.holds = "meanwhile" /\ f.then = "window"
                                        /\ page.removes # "captured"
<1>1. /\ page.removes \in {"no", "patch", "captured", "reload"}
      /\ page.forms \subseteq FormKinds
      /\ \A f \in page.forms :
            /\ f.then = "reload" => f.twice # "again"
            /\ f.twice = "same" => f.then \in {"reload", "window"}
            /\ f.file = "apart" => /\ f.holds = "meanwhile" /\ f.then = "window"
                                   /\ page.removes # "captured"
  BY PagesAssumption DEF FormsAssumption
<1>2. \A f \in FormKinds :
         f \in FormRecords /\ f.op \in {"create", "edit", "act"} /\ f # NoForm
  BY NothingInHand DEF FormKinds, FormRecords
<1>3. QED
  BY <1>1, <1>2

LEMMA ListEdits ==
    /\ \A m \in PageCallRecords, l \in Lists :
          /\ [m EXCEPT !.list = l] \in PageCallRecords
          /\ SameButList([m EXCEPT !.list = l], m)
          /\ [m EXCEPT !.list = l].list = l
    /\ \A m \in PageCallRecords, v \in Nat :
          /\ [m EXCEPT !.seen = v] \in PageCallRecords
          /\ SameButAnswer([m EXCEPT !.seen = v], m)
          /\ [m EXCEPT !.seen = v].row = m.row /\ [m EXCEPT !.seen = v].seen = v
    /\ \A m \in PageCallRecords, r \in RowOrNo :
          /\ [m EXCEPT !.row = r] \in PageCallRecords
          /\ SameButAnswer([m EXCEPT !.row = r], m)
          /\ [m EXCEPT !.row = r].row = r
  BY DEF PageCallRecords, SameButList, SameButAnswer

LEMMA StartFacts ==
    ASSUME PageTypeOK, NEW c \in PageCalls, NEW s, NEW call \in PageCallRecords,
           Start(c, s, call)
    PROVE  \E m \in PageCallRecords :
              /\ CallComesTo(c, s, m) /\ SameButList(m, call)
              /\ m.list = IF call.form.then = "captured" THEN shown ELSE call.list
              /\ callStep[c] = "idle"
              /\ astray' = (astray \/ \E d \in InFlight : Disturb(call, calling[d]))
<1> PICK l : l = IF call.form.then = "captured" THEN shown ELSE call.list
  OBVIOUS
<1> DEFINE m == [call EXCEPT !.list = l]
<1>1. l \in Lists
  BY DEF PageTypeOK, PageCallRecords
<1>2. m \in PageCallRecords /\ SameButList(m, call) /\ m.list = l
  BY <1>1, ListEdits
<1>3. calling' = [calling EXCEPT ![c] = m]
  BY DEF Start
<1> HIDE DEF m
<1>4. CallComesTo(c, s, m)
  BY <1>3 DEF Start, CallComesTo, PageTypeOK
<1>5. QED
  BY <1>2, <1>4 DEF Start

\* What the call c takes in.
TakesRow(c, r, v) == calling' = [calling EXCEPT ![c].row = r, ![c].seen = v]
TakesAnswer(c, v) == calling' = [calling EXCEPT ![c].seen = v]
TakesList(c, l) == calling' = [calling EXCEPT ![c].list = l]

LEMMA RowAnswerFacts ==
    ASSUME PageTypeOK, NEW c \in PageCalls, NEW s, NEW r \in RowOrNo, NEW v \in Nat,
           Step(c, s), TakesRow(c, r, v)
    PROVE  \E m \in PageCallRecords :
              /\ CallComesTo(c, s, m) /\ SameButAnswer(m, calling[c])
              /\ m.row = r /\ m.seen = v
              /\ UNCHANGED astray
<1>0. PICK call \in PageCallRecords : call = calling[c]
  BY DEF PageTypeOK
<1> DEFINE mid == [call EXCEPT !.row = r]
           m == [mid EXCEPT !.seen = v]
<1>1. mid \in PageCallRecords /\ SameButAnswer(mid, call) /\ mid.row = r
  BY ListEdits
<1>2. calling' = [[calling EXCEPT ![c] = mid] EXCEPT ![c].seen = v]
  BY <1>0 DEF TakesRow
<1> HIDE DEF mid
<1>3. m \in PageCallRecords /\ SameButAnswer(m, mid) /\ m.row = r /\ m.seen = v
  BY <1>1, ListEdits
<1>4. calling' = [calling EXCEPT ![c] = m]
  BY <1>2 DEF PageTypeOK
<1> HIDE DEF m
<1>5. SameButAnswer(m, call)
  BY <1>1, <1>3 DEF SameButAnswer
<1>6. CallComesTo(c, s, m)
  BY <1>4 DEF Step, CallComesTo, PageTypeOK
<1>7. QED
  BY <1>0, <1>3, <1>5, <1>6 DEF Step

LEMMA SeenFacts ==
    ASSUME PageTypeOK, NEW c \in PageCalls, NEW s, NEW v \in Nat,
           Step(c, s), TakesAnswer(c, v)
    PROVE  \E m \in PageCallRecords :
              /\ CallComesTo(c, s, m) /\ SameButAnswer(m, calling[c])
              /\ m.row = calling[c].row /\ m.seen = v
              /\ UNCHANGED astray
<1>0. PICK call \in PageCallRecords : call = calling[c]
  BY DEF PageTypeOK
<1> DEFINE m == [call EXCEPT !.seen = v]
<1>1. m \in PageCallRecords /\ SameButAnswer(m, call) /\ m.row = call.row /\ m.seen = v
  BY ListEdits
<1>2. calling' = [calling EXCEPT ![c] = m]
  BY <1>0 DEF TakesAnswer
<1> HIDE DEF m
<1>3. CallComesTo(c, s, m)
  BY <1>2 DEF Step, CallComesTo, PageTypeOK
<1>4. QED
  BY <1>0, <1>1, <1>3 DEF Step

LEMMA ListFacts ==
    ASSUME PageTypeOK, NEW c \in PageCalls, NEW s, NEW l \in Lists,
           Step(c, s), TakesList(c, l)
    PROVE  \E m \in PageCallRecords :
              /\ CallComesTo(c, s, m) /\ SameButList(m, calling[c]) /\ m.list = l
              /\ UNCHANGED astray
<1>0. PICK call \in PageCallRecords : call = calling[c]
  BY DEF PageTypeOK
<1> DEFINE m == [call EXCEPT !.list = l]
<1>1. m \in PageCallRecords /\ SameButList(m, call) /\ m.list = l
  BY ListEdits
<1>2. calling' = [calling EXCEPT ![c] = m]
  BY <1>0 DEF TakesList
<1> HIDE DEF m
<1>3. CallComesTo(c, s, m)
  BY <1>2 DEF Step, CallComesTo, PageTypeOK
<1>4. QED
  BY <1>0, <1>1, <1>3 DEF Step

LEMMA EndCallFacts ==
    ASSUME PageTypeOK, NEW c \in PageCalls, NEW told \in BOOLEAN, EndTold(c, told)
    PROVE  /\ CallComesTo(c, "idle", NoPageCall)
           /\ astray' = (astray \/ ~ told)
  BY DEF EndTold, CallComesTo, PageTypeOK

\* The opening n becomes o, and no other changes.
OpeningComesTo(n, o) ==
    /\ openings'[n] = o
    /\ \A k \in Openings \ {n} : openings'[k] = openings[k]
    /\ openings' = [k \in Openings |-> openings'[k]]

LEMMA OpeningEdits ==
    /\ \A o \in OpeningRecords, f \in FormRecords :
          [o EXCEPT !.form = f] = [form |-> f, row |-> o.row, effects |-> o.effects,
                                   again |-> o.again, failed |-> o.failed]
    /\ \A o \in OpeningRecords, b \in BOOLEAN :
          [o EXCEPT !.again = b] = [form |-> o.form, row |-> o.row, effects |-> o.effects,
                                    again |-> b, failed |-> o.failed]
    /\ \A o \in OpeningRecords, fs \in SUBSET {"answer", "file"} :
          [o EXCEPT !.failed = fs] = [form |-> o.form, row |-> o.row, effects |-> o.effects,
                                      again |-> o.again, failed |-> fs]
    /\ \A o \in OpeningRecords, r \in RowOrNo :
          [o EXCEPT !.row = r] = [form |-> o.form, row |-> r, effects |-> o.effects,
                                  again |-> o.again, failed |-> o.failed]
    /\ \A o \in OpeningRecords, e \in Nat :
          [o EXCEPT !.effects = e] = [form |-> o.form, row |-> o.row, effects |-> e,
                                      again |-> o.again, failed |-> o.failed]
  BY DEF OpeningRecords

LEMMA EffectFacts ==
    ASSUME PageTypeOK, NEW n \in Openings, NEW r \in PageRows,
           NEW failed \in SUBSET {"answer", "file"}, Effect(n, r, failed)
    PROVE  \E o \in OpeningRecords :
              /\ OpeningComesTo(n, o)
              /\ o = [form |-> openings[n].form, row |-> r,
                      effects |-> openings[n].effects + 1, again |-> openings[n].again,
                      failed |-> openings[n].failed \cup failed]
<1>0. PICK old \in OpeningRecords : old = openings[n]
  BY DEF PageTypeOK
<1> PICK fs, e : fs = old.failed \cup failed /\ e = old.effects + 1
  OBVIOUS
<1> DEFINE o1 == [old EXCEPT !.row = r]
           o2 == [o1 EXCEPT !.effects = e]
           o3 == [o2 EXCEPT !.failed = fs]
<1>1. fs \in SUBSET {"answer", "file"} /\ e \in Nat /\ r \in RowOrNo
  <2>1. /\ old.failed \in SUBSET {"answer", "file"} /\ old.effects \in Nat
    BY <1>0 DEF OpeningRecords
  <2>2. fs \in SUBSET {"answer", "file"}
    BY <2>1
  <2>3. QED
    BY <2>1, <2>2 DEF RowOrNo
<1>2. o1 = [form |-> old.form, row |-> r, effects |-> old.effects, again |-> old.again,
            failed |-> old.failed]
  BY <1>0, <1>1, OpeningEdits
<1>3. openings' = [openings EXCEPT ![n].row = r, ![n].effects = e, ![n].failed = fs]
  BY <1>0 DEF Effect, PageTypeOK, OpeningRecords
<1>4. openings' = [[openings EXCEPT ![n] = o1] EXCEPT ![n].effects = e, ![n].failed = fs]
  BY <1>0, <1>3
<1> HIDE DEF o1
<1>5. o1 \in OpeningRecords
  BY <1>0, <1>1, <1>2 DEF OpeningRecords
<1>6. openings' = [[openings EXCEPT ![n] = o2] EXCEPT ![n].failed = fs]
  BY <1>4 DEF PageTypeOK
<1>7. o2 = [form |-> old.form, row |-> r, effects |-> e, again |-> old.again,
            failed |-> old.failed]
  BY <1>1, <1>2, <1>5, OpeningEdits
<1>8. o2 \in OpeningRecords
  BY <1>0, <1>1, <1>7 DEF OpeningRecords
<1> HIDE DEF o2
<1>9. openings' = [openings EXCEPT ![n] = o3]
  BY <1>6 DEF PageTypeOK
<1>10. o3 = [form |-> old.form, row |-> r, effects |-> e, again |-> old.again, failed |-> fs]
  BY <1>1, <1>7, <1>8, OpeningEdits, ZenonT(40)
<1>11. o3 \in OpeningRecords
  BY <1>0, <1>1, <1>10 DEF OpeningRecords
<1> HIDE DEF o3
<1>12. OpeningComesTo(n, o3)
  BY <1>9 DEF OpeningComesTo, PageTypeOK
<1>13. QED
  BY <1>0, <1>10, <1>11, <1>12

\* One field of an opening changes.
LEMMA OpeningFacts ==
    ASSUME PageTypeOK, NEW n \in Openings, NEW old, old = openings[n], NEW o \in OpeningRecords,
           openings' = [openings EXCEPT ![n] = o]
    PROVE  OpeningComesTo(n, o)
  BY DEF OpeningComesTo, PageTypeOK

(***************************************************************************)
(* What a step leaves as it was.                                           *)
(***************************************************************************)
LEMMA CallTypes ==
    ASSUME PageTypeOK, NEW c \in PageCalls, NEW m \in PageCallRecords,
           NEW s \in {"idle", "save", "file", "show", "remove", "read", "show-list"},
           CallComesTo(c, s, m)
    PROVE  /\ callStep' \in
                 [PageCalls -> {"idle", "save", "file", "show", "remove", "read", "show-list"}]
           /\ calling' \in [PageCalls -> PageCallRecords]
<1>1. /\ \A d \in PageCalls : callStep'[d] \in
            {"idle", "save", "file", "show", "remove", "read", "show-list"}
      /\ \A d \in PageCalls : calling'[d] \in PageCallRecords
  BY DEF CallComesTo, PageTypeOK
<1>2. QED
  BY <1>1 DEF CallComesTo

LEMMA OpeningTypes ==
    ASSUME PageTypeOK, NEW n \in Openings, NEW o \in OpeningRecords, OpeningComesTo(n, o)
    PROVE  openings' \in [Openings -> OpeningRecords]
<1>1. \A k \in Openings : openings'[k] \in OpeningRecords
  BY DEF OpeningComesTo, PageTypeOK
<1>2. QED
  BY <1>1 DEF OpeningComesTo

LEMMA CourseStays ==
    ASSUME CallsOnCourse, NEW c \in PageCalls, NEW s, NEW m, CallComesTo(c, s, m),
           CallOnCourse(s, m), CallOfItsOpening(m), page' = page,
           \A n \in Openings : openings[n].form \in page.forms =>
              openings'[n].form = openings[n].form
    PROVE  CallsOnCourse'
<1>1. \A d \in PageCalls \ {c} : callStep'[d] = callStep[d] /\ calling'[d] = calling[d]
  BY DEF CallComesTo
<1>2. CallOfItsOpening(m)'
  BY DEF CallOfItsOpening
<1>3. callStep'[c] = s /\ calling'[c] = m
  BY DEF CallComesTo
<1>4. \A d \in PageCalls :
         CallOnCourse(callStep'[d], calling'[d]) /\ CallOfItsOpening(calling[d])'
  <2> TAKE d \in PageCalls
  <2>1. CASE d = c
    BY <1>2, <1>3, <2>1 DEF CallOfItsOpening
  <2>2. CASE d # c
    BY <1>1, <2>2 DEF CallsOnCourse, CallOfItsOpening
  <2>3. QED
    BY <2>1, <2>2
<1>5. QED
  BY <1>4 DEF CallsOnCourse

LEMMA OrderStays ==
    ASSUME OpeningsInOrder, page \in Pages, page' = page,
           \A n \in Openings : /\ openings'[n].form = openings[n].form
                               /\ openings[n] = NotOpened => openings'[n] = NotOpened
    PROVE  OpeningsInOrder'
<1>1. \A n \in Openings : openings[n] = NotOpened <=> openings'[n] = NotOpened
  BY NothingInHand, FormsOfAPage DEF OpeningsInOrder
<1>2. QED
  BY <1>1 DEF OpeningsInOrder

LEMMA FormStays ==
    ASSUME FormOfItsOpening, page' = page,
           form' # NothingOpen =>
              /\ form # NothingOpen /\ form'.form = form.form /\ form'.opening = form.opening
              /\ form'.row = form.row /\ form'.resend = form.resend,
           \A n \in Openings : openings'[n].form = openings[n].form
    PROVE  FormOfItsOpening'
  BY DEF FormOfItsOpening, NothingOpen

\* An opening that a step does not save, nor lose sight of.
LEMMA SavedOnceStays ==
    ASSUME NEW n \in Openings, SavedOnce(n), openings'[n] = openings[n],
           \A d \in PageCalls : calling'[d].opening = n =>
              /\ calling[d].opening = n
              /\ callStep'[d] = "save" => callStep[d] = "save"
              /\ callStep'[d] \in {"read", "show-list"} =>
                    callStep[d] \in {"read", "show-list"} \/ form'.opening # n,
           form'.opening = n =>
              /\ form.opening = n /\ form'.saving = form.saving
              /\ form'.resend = form.resend
              /\ HasACall(n) => HasACall(n)'
    PROVE  SavedOnce(n)'
  BY DEF SavedOnce, HasACall

LEMMA RowsStayTaken ==
    ASSUME RowsAreTaken, taken \subseteq taken',
           \A r \in PageRows : row'[r] # 0 \/ shown'[r] # 0 => r \in taken',
           NEW c \in PageCalls, NEW s, NEW m, CallComesTo(c, s, m),
           m.row \in TakenRows', \A r \in PageRows : m.list[r] # 0 => r \in taken',
           form'.row \in TakenRows',
           \A n \in Openings :
              /\ openings'[n].row = openings[n].row \/ openings'[n].row \in taken'
              /\ openings'[n].effects = openings[n].effects \/ openings'[n].row \in PageRows
              /\ openings[n].effects # 0 => openings'[n].row \in PageRows
    PROVE  RowsAreTaken'
<1>1. TakenRows \subseteq TakenRows' /\ taken' \subseteq TakenRows'
  BY DEF TakenRows
<1>2. /\ callStep'[c] = s /\ calling'[c] = m
      /\ \A d \in PageCalls \ {c} : calling'[d] = calling[d]
  BY DEF CallComesTo
<1>3. \A d \in PageCalls :
         /\ calling'[d].row \in TakenRows'
         /\ \A r \in PageRows : calling'[d].list[r] # 0 => r \in taken'
  <2> TAKE d \in PageCalls
  <2>1. CASE d = c
    BY <1>2, <2>1
  <2>2. CASE d # c
    BY <1>1, <1>2, <2>2 DEF RowsAreTaken
  <2>3. QED
    BY <2>1, <2>2
<1>4. QED
  BY <1>1, <1>3 DEF RowsAreTaken

LEMMA UndisturbedStays ==
    ASSUME Undisturbed, NEW c \in PageCalls, NEW s, NEW m, CallComesTo(c, s, m),
           s # "idle" => \A d \in InFlight : d # c => ~ Disturb(m, calling[d])
    PROVE  Undisturbed'
<1>1. /\ callStep'[c] = s /\ calling'[c] = m
      /\ \A d \in PageCalls \ {c} : callStep'[d] = callStep[d] /\ calling'[d] = calling[d]
  BY DEF CallComesTo
<1>2. \A one, other : Disturb(one, other) => Disturb(other, one)
  BY DEF Disturb
<1>3. SUFFICES ASSUME NEW d \in InFlight', NEW e \in InFlight', d # e
               PROVE  ~ Disturb(calling'[d], calling'[e])
  BY DEF Undisturbed, Disturb, ShowsAList
<1>4. \A d1 \in InFlight' : d1 # c => d1 \in InFlight
  BY <1>1 DEF InFlight
<1>5. CASE d = c
  BY <1>1, <1>3, <1>4, <1>5 DEF InFlight
<1>6. CASE e = c
  BY <1>1, <1>2, <1>3, <1>4, <1>6 DEF InFlight
<1>7. CASE d # c /\ e # c
  BY <1>1, <1>3, <1>4, <1>7 DEF Undisturbed, InFlight
<1>8. QED
  BY <1>5, <1>6, <1>7

\* Neither the rows nor the list shown change.
LEMMA ShownStays ==
    ASSUME ShownInv, NEW c \in PageCalls, NEW s, NEW m, CallComesTo(c, s, m),
           UNCHANGED <<row, shown, loaded>>, astray => astray',
           ~ astray' /\ s # "idle" => \A d \in InFlight : d # c => ~ Disturb(m, calling[d]),
           ~ astray' => ReadyToShow(s, m) /\ PanelKept(s, m),
           ~ astray' /\ ~ form'.resend => \A r \in PageRows :
              Covers(callStep[c], calling[c], r) => Covers(s, m, r)
    PROVE  ShownInv'
<1> SUFFICES ASSUME ~ astray' PROVE ShownInv'
  BY DEF ShownInv
<1>1. /\ callStep'[c] = s /\ calling'[c] = m
      /\ \A d \in PageCalls \ {c} : callStep'[d] = callStep[d] /\ calling'[d] = calling[d]
      /\ ~ astray
  BY DEF CallComesTo
<1>2. Undisturbed'
  BY <1>1, UndisturbedStays DEF ShownInv
<1>3. \A d \in PageCalls : ReadyToShow(callStep[d], calling[d])'
  <2> SUFFICES ASSUME NEW d \in PageCalls PROVE ReadyToShow(callStep[d], calling[d])'
    OBVIOUS
  <2>1. CASE d = c
    BY <1>1, <2>1 DEF ReadyToShow
  <2>2. CASE d # c
    BY <1>1, <2>2 DEF ReadyToShow, ShownInv
  <2>3. QED
    BY <2>1, <2>2
<1>4. \A r \in PageRows : loaded' /\ ~ form'.resend =>
         shown'[r] = row'[r] \/ \E d \in PageCalls : Covers(callStep'[d], calling'[d], r)
  <2> SUFFICES ASSUME NEW r \in PageRows, loaded, ~ form'.resend, shown[r] # row[r]
               PROVE  \E d \in PageCalls : Covers(callStep'[d], calling'[d], r)
    OBVIOUS
  <2>0. CASE form.resend
    BY <1>1, <2>0 DEF PanelKept
  <2> SUFFICES ASSUME ~ form.resend
               PROVE  \E d \in PageCalls : Covers(callStep'[d], calling'[d], r)
    BY <2>0
  <2>1. PICK d \in PageCalls : Covers(callStep[d], calling[d], r)
    BY <1>1 DEF ShownInv
  <2>2. CASE d = c
    BY <1>1, <2>1, <2>2
  <2>3. CASE d # c
    BY <1>1, <2>1, <2>3
  <2>4. QED
    BY <2>2, <2>3
<1>5. AtTheFile'
  BY DEF PanelKept, AtTheFile
<1>6. QED
  BY <1>2, <1>3, <1>4, <1>5 DEF ShownInv

\* A call in flight has changed a row.
RowBecomes(r, v) == row' = [row EXCEPT ![r] = v]

LEMMA RowChanges ==
    ASSUME PageTypeOK, CallsOnCourse, ShownInv,
           NEW c \in PageCalls, NEW s \in {"file", "show", "read"}, NEW m \in PageCallRecords,
           CallComesTo(c, s, m), callStep[c] \in {"save", "remove", "file"},
           callStep[c] = "file" => calling[c].row = m.row,
           m.op = calling[c].op, m.form = calling[c].form, m.list = calling[c].list,
           NEW r \in PageRows, m.row = r, NEW v \in Nat, m.seen = v,
           RowBecomes(r, v), UNCHANGED <<shown, loaded, astray>>,
           ~ astray => \A d \in InFlight : d # c => calling[d].row # r,
           ~ astray /\ m.op \in {"edit", "act"} /\ s # "read" => shown[r] # 0,
           ~ astray => PanelKept(s, m)
    PROVE  ShownInv'
<1> SUFFICES ASSUME ~ astray PROVE ShownInv'
  BY DEF ShownInv
<1>1. /\ callStep'[c] = s /\ calling'[c] = m
      /\ \A d \in PageCalls \ {c} : callStep'[d] = callStep[d] /\ calling'[d] = calling[d]
  BY DEF CallComesTo
<1>2. /\ row'[r] = v
      /\ \A q \in PageRows \ {r} : row'[q] = row[q]
  BY DEF PageTypeOK, Lists, RowBecomes
<1>3. \A d \in InFlight : d # c => ~ Disturb(calling[c], calling[d]) /\ calling[d].row # r
  BY DEF ShownInv, Undisturbed, InFlight
<1>4. Undisturbed'
  <2>1. \A d \in InFlight : d # c => ~ Disturb(m, calling[d])
    BY <1>3 DEF Disturb, ShowsAList
  <2>2. QED
    BY <2>1, UndisturbedStays DEF ShownInv
<1>5. \A d \in PageCalls : ReadyToShow(callStep[d], calling[d])'
  <2> SUFFICES ASSUME NEW d \in PageCalls PROVE ReadyToShow(callStep[d], calling[d])'
    OBVIOUS
  <2>1. CASE d = c
    <3>1. m.form.then = "captured" => m.list = shown
      BY DEF ShownInv, ReadyToShow
    <3>2. QED
      BY <1>1, <1>2, <2>1, <3>1 DEF ReadyToShow
  <2>2. CASE d # c /\ callStep[d] = "idle"
    BY <1>1, <2>2 DEF ReadyToShow
  <2>3. CASE d # c /\ callStep[d] # "idle"
    <3>1. /\ ReadyToShow(callStep[d], calling[d])
          /\ CallOnCourse(callStep[d], calling[d])
      BY DEF ShownInv, CallsOnCourse
    <3>2. ~ ShowsAList(calling[d]) /\ calling[d].row # r
      BY <1>3, <2>3 DEF InFlight, Disturb
    <3>3. callStep[d] # "show-list"
      BY <3>1, <3>2 DEF CallOnCourse, ShowsAList
    <3>4. callStep[d] \in {"file", "show"} => row'[calling[d].row] = row[calling[d].row]
      BY <1>2, <3>1, <3>2 DEF CallOnCourse
    <3>5. QED
      BY <1>1, <2>3, <3>1, <3>3, <3>4 DEF ReadyToShow
  <2>4. QED
    BY <2>1, <2>2, <2>3
<1>6. \A q \in PageRows : loaded' /\ ~ form'.resend =>
         shown'[q] = row'[q] \/ \E d \in PageCalls : Covers(callStep'[d], calling'[d], q)
  <2> SUFFICES ASSUME NEW q \in PageRows, loaded, ~ form'.resend, q # r, shown[q] # row[q],
                      s # "read"
               PROVE  \E d \in PageCalls : Covers(callStep'[d], calling'[d], q)
    BY <1>1, <1>2 DEF Covers
  <2>0. CASE form.resend
    BY <1>1, <2>0 DEF PanelKept
  <2> SUFFICES ASSUME ~ form.resend
               PROVE  \E d \in PageCalls : Covers(callStep'[d], calling'[d], q)
    BY <2>0
  <2>1. PICK d \in PageCalls : Covers(callStep[d], calling[d], q)
    BY DEF ShownInv
  <2>2. CASE d = c
    BY <1>1, <2>1, <2>2 DEF Covers
  <2>3. CASE d # c
    BY <1>1, <2>1, <2>3
  <2>4. QED
    BY <2>2, <2>3
<1>7. AtTheFile'
  BY DEF PanelKept, AtTheFile
<1>8. QED
  BY <1>4, <1>5, <1>6, <1>7 DEF ShownInv

(***************************************************************************)
(* What most steps have in common.                                         *)
(***************************************************************************)
CallSteps == {"idle", "save", "file", "show", "remove", "read", "show-list"}

\* The rows and the list shown stay as they are.
LEMMA QuietStepOK ==
    ASSUME PagesInv, NEW c \in PageCalls, NEW s \in CallSteps, NEW m \in PageCallRecords,
           CallComesTo(c, s, m), CallOnCourse(s, m), CallOfItsOpening(m),
           m.row \in TakenRows, \A r \in PageRows : m.list[r] # 0 => r \in taken,
           UNCHANGED <<page, row, taken, shown, loaded>>,
           form' \in OpenFormRecords, form'.row \in TakenRows,
           openings' \in [Openings -> OpeningRecords],
           \A n \in Openings :
              /\ openings'[n].form = openings[n].form
              /\ openings'[n].row = openings[n].row
              /\ openings'[n].effects = openings[n].effects,
           astray' \in BOOLEAN, astray => astray',
           ~ astray' /\ s # "idle" => \A d \in InFlight : d # c => ~ Disturb(m, calling[d]),
           ~ astray' => ReadyToShow(s, m) /\ PanelKept(s, m),
           ~ astray' /\ ~ form'.resend => \A r \in PageRows :
              Covers(callStep[c], calling[c], r) => Covers(s, m, r)
    PROVE  PageTypeOK' /\ CallsOnCourse' /\ RowsAreTaken' /\ ShownInv'
<1>1. PageTypeOK /\ CallsOnCourse /\ RowsAreTaken /\ ShownInv
  BY DEF PagesInv
<1>2. PageTypeOK'
  <2>1. callStep' \in [PageCalls -> CallSteps] /\ calling' \in [PageCalls -> PageCallRecords]
    BY <1>1, CallTypes DEF CallSteps
  <2>2. QED
    BY <1>1, <2>1 DEF PageTypeOK, CallSteps
<1>3. CallsOnCourse'
  BY <1>1, CourseStays
<1>4. RowsAreTaken'
  <2>1. TakenRows' = TakenRows
    BY DEF TakenRows
  <2>2. \A r \in PageRows : row'[r] # 0 \/ shown'[r] # 0 => r \in taken'
    BY <1>1 DEF RowsAreTaken
  <2>3. \A n \in Openings :
           /\ openings'[n].row = openings[n].row \/ openings'[n].row \in taken'
           /\ openings'[n].effects = openings[n].effects \/ openings'[n].row \in PageRows
           /\ openings[n].effects # 0 => openings'[n].row \in PageRows
    BY <1>1 DEF RowsAreTaken
  <2>4. /\ taken \subseteq taken' /\ m.row \in TakenRows'
        /\ \A r \in PageRows : m.list[r] # 0 => r \in taken'
        /\ form'.row \in TakenRows'
    BY <2>1
  <2>5. QED
    BY <1>1, <2>2, <2>3, <2>4, RowsStayTaken
<1>5. ShownInv'
  BY <1>1, ShownStays
<1>6. QED
  BY <1>2, <1>3, <1>4, <1>5

\* Nothing is known to have been saved that was not.
FormLetsGo ==
    \/ form' = form
    \/ form' = NothingOpen
    \/ /\ form # NothingOpen
       /\ form' = [form EXCEPT !.saving = FALSE]
       /\ ~ IsOrderly(openings[form.opening])

LEMMA FormFacts ==
    ASSUME PageTypeOK
    PROVE  /\ [form EXCEPT !.saving = FALSE] \in OpenFormRecords
           /\ [form EXCEPT !.saving = TRUE] \in OpenFormRecords
           /\ \A b \in BOOLEAN :
                 /\ [form EXCEPT !.saving = b].form = form.form
                 /\ [form EXCEPT !.saving = b].opening = form.opening
                 /\ [form EXCEPT !.saving = b].row = form.row
                 /\ [form EXCEPT !.saving = b].saving = b
                 /\ [form EXCEPT !.saving = b].resend = form.resend
           /\ form.resend => form # NothingOpen
           /\ FormLetsGo => /\ form'.resend => form.resend
                            /\ form' # NothingOpen => form'.row = form.row /\ form'.resend = form.resend
           /\ NothingOpen.opening \notin Openings
           /\ 0 \notin Openings
<1>1. \A x \in OpenFormRecords, b \in BOOLEAN :
         /\ [x EXCEPT !.saving = b] \in OpenFormRecords
         /\ [x EXCEPT !.saving = b].form = x.form
         /\ [x EXCEPT !.saving = b].opening = x.opening
         /\ [x EXCEPT !.saving = b].row = x.row
         /\ [x EXCEPT !.saving = b].saving = b
         /\ [x EXCEPT !.saving = b].resend = x.resend
  BY DEF OpenFormRecords
<1>2. form \in OpenFormRecords
  BY DEF PageTypeOK
<1>3. 0 \notin Openings /\ NothingOpen.opening = 0
  BY NothingInHand, PageRowsAssumption DEF Openings
<1>4. ~ NothingOpen.resend
  BY NothingInHand
<1>5. FormLetsGo => /\ form'.resend => form.resend
                    /\ form' # NothingOpen => form'.row = form.row /\ form'.resend = form.resend
  BY <1>1, <1>2, <1>4 DEF FormLetsGo
<1>6. QED
  BY <1>1, <1>2, <1>3, <1>4, <1>5

LEMMA FormsStay ==
    ASSUME PagesInv, NEW c \in PageCalls, NEW s, NEW m, CallComesTo(c, s, m),
           UNCHANGED <<page, openings>>, FormLetsGo,
           NEW n0, n0 = calling[c].opening, m.opening \in {0, n0},
           n0 \in Openings /\ IsOrderly(openings[n0]) =>
              /\ m.opening = n0 \/ form'.opening # n0
              /\ m.opening = n0 /\ s = "save" => callStep[c] = "save"
              /\ m.opening = n0 /\ s \in {"read", "show-list"} =>
                    callStep[c] \in {"read", "show-list"} \/ form'.opening # n0
    PROVE  FormsInv'
<1>1. PageTypeOK /\ FormsInv
  BY DEF PagesInv
<1>2. FormOfItsOpening'
  BY <1>1, FormStays, FormFacts DEF FormsInv, FormLetsGo
<1>3. OpeningsInOrder'
  BY <1>1, OrderStays DEF FormsInv, PageTypeOK
<1>4. /\ callStep'[c] = s /\ calling'[c] = m
      /\ \A d \in PageCalls \ {c} : callStep'[d] = callStep[d] /\ calling'[d] = calling[d]
  BY DEF CallComesTo
<1>5. ASSUME NEW n \in Openings PROVE SavedOnce(n)'
  <2>1. SavedOnce(n) /\ openings'[n] = openings[n] /\ n # 0
    BY <1>1, FormFacts DEF FormsInv
  <2>2. CASE ~ IsOrderly(openings[n])
    BY <2>1, <2>2 DEF SavedOnce
  <2>3. CASE IsOrderly(openings[n])
    <3>1. \A d \in PageCalls : calling'[d].opening = n =>
             /\ calling[d].opening = n
             /\ callStep'[d] = "save" => callStep[d] = "save"
             /\ callStep'[d] \in {"read", "show-list"} =>
                   callStep[d] \in {"read", "show-list"} \/ form'.opening # n
      <4> SUFFICES ASSUME NEW d \in PageCalls, calling'[d].opening = n
                   PROVE  /\ calling[d].opening = n
                          /\ callStep'[d] = "save" => callStep[d] = "save"
                          /\ callStep'[d] \in {"read", "show-list"} =>
                                callStep[d] \in {"read", "show-list"} \/ form'.opening # n
        OBVIOUS
      <4>1. CASE d = c
        BY <1>4, <2>1, <2>3, <4>1
      <4>2. CASE d # c
        BY <1>4, <4>2
      <4>3. QED
        BY <4>1, <4>2
    <3>2. form'.opening = n =>
             /\ form.opening = n /\ form'.saving = form.saving
             /\ form'.resend = form.resend
             /\ HasACall(n) => HasACall(n)'
      <4> SUFFICES ASSUME form'.opening = n
                   PROVE  /\ form.opening = n /\ form'.saving = form.saving
                          /\ form'.resend = form.resend
                          /\ HasACall(n) => HasACall(n)'
        OBVIOUS
      <4>1. form.opening = n /\ form'.saving = form.saving /\ form'.resend = form.resend
        BY <1>1, <2>3, FormFacts DEF FormLetsGo
      <4>2. ASSUME NEW d \in PageCalls, calling[d].opening = n PROVE calling'[d].opening = n
        BY <1>4, <2>1, <2>3, <4>2
      <4>3. QED
        BY <4>1, <4>2 DEF HasACall
    <3>3. QED
      BY <2>1, <3>1, <3>2, SavedOnceStays
  <2>4. QED
    BY <2>2, <2>3
<1>6. QED
  BY <1>2, <1>3, <1>5 DEF FormsInv

LEMMA ReleaseFacts ==
    ASSUME PageTypeOK, NEW call, NEW f, f = FormReleased(call)
    PROVE  /\ f \in OpenFormRecords
           /\ f.form = form.form /\ f.opening = form.opening /\ f.row = form.row
           /\ f.resend = form.resend
           /\ IF form.opening = call.opening /\ call.form.holds # "for-good"
              THEN f = [form EXCEPT !.saving = FALSE] /\ ~ f.saving
              ELSE f = form
  BY FormFacts DEF FormReleased, PageTypeOK

\* A call that is not sending a file again finds no form that is.
LEMMA NotResending ==
    ASSUME PagesInv, ~ astray, NEW c \in PageCalls, callStep[c] \notin {"idle", "file"}
    PROVE  ~ form.resend
  BY DEF PagesInv, ShownInv, AtTheFile, InFlight

\* The form after an answer: still open, or closed, or released for good reason.
LEMMA AnswerFormFacts ==
    ASSUME PagesInv, NEW c \in PageCalls, OfAForm(calling[c]),
           NEW f, f = AnswerForm(calling[c]), form' = f
    PROVE  /\ form' \in OpenFormRecords /\ form'.row \in TakenRows
           /\ FormLetsGo
           /\ calling[c].form.then = "window" => form'.opening # calling[c].opening
<1> PICK call : call = calling[c]
  OBVIOUS
<1>1. /\ PageTypeOK /\ FormOfItsOpening
      /\ call.opening \in Openings /\ call.form \in page.forms
      /\ openings[call.opening].form = call.form
      /\ form.row \in TakenRows
  BY DEF PagesInv, FormsInv, CallsOnCourse, CallOfItsOpening, RowsAreTaken
<1>2. NothingOpen \in OpenFormRecords /\ NothingOpen.row \in TakenRows
  BY NothingInHand DEF TakenRows
<1>3. CASE call.form.then = "window"
  <2>1. f = IF form.form = call.form THEN NothingOpen ELSE form
    BY <1>3 DEF AnswerForm
  <2>2. form.opening = call.opening => form.form = call.form
    BY <1>1, FormFacts DEF FormOfItsOpening
  <2>3. QED
    BY <1>1, <1>2, <2>1, <2>2, FormFacts DEF FormLetsGo, PageTypeOK
<1>4. CASE call.form.then = "reload"
  <2>1. f = FormReleased(call)
    BY <1>4 DEF AnswerForm
  <2>2. call.form.twice # "again"
    BY <1>1, <1>4, FormsOfAPage DEF PageTypeOK
  <2>3. ~ IsOrderly(openings[call.opening])
    BY <1>1, <2>2 DEF IsOrderly
  <2>4. form.opening = call.opening => form # NothingOpen
    BY <1>1, FormFacts
  <2>5. QED
    BY <1>1, <1>4, <2>1, <2>3, <2>4, ReleaseFacts DEF FormLetsGo
<1>5. CASE call.form.then \notin {"window", "reload"}
  <2>1. f = form
    BY <1>5 DEF AnswerForm
  <2>2. QED
    BY <1>1, <1>5, <2>1 DEF FormLetsGo, PageTypeOK
<1>6. QED
  BY <1>3, <1>4, <1>5

(***************************************************************************)
(* A call begins.                                                          *)
(***************************************************************************)
LoadCall == [NoPageCall EXCEPT !.op = "load"]

FormCall(op, f, n, r) ==
    [NoPageCall EXCEPT !.op = op, !.form = f, !.opening = n, !.row = r]

RemoveCall(r, f) == [NoPageCall EXCEPT !.op = "remove", !.row = r, !.form = f]

LEMMA CallsThatStart ==
    /\ LoadCall \in PageCallRecords
    /\ LoadCall.op = "load" /\ LoadCall.form = NoForm /\ LoadCall.opening = 0
    /\ LoadCall.row = NoPageRow /\ LoadCall.list = NoListShown
    /\ \A op \in {"create", "edit", "act"}, f \in FormRecords, n \in Openings, r \in RowOrNo :
          /\ FormCall(op, f, n, r) \in PageCallRecords
          /\ FormCall(op, f, n, r).op = op /\ FormCall(op, f, n, r).form = f
          /\ FormCall(op, f, n, r).opening = n /\ FormCall(op, f, n, r).row = r
          /\ FormCall(op, f, n, r).list = NoListShown
    /\ \A r \in PageRows, f \in FormRecords :
          /\ RemoveCall(r, f) \in PageCallRecords
          /\ RemoveCall(r, f).op = "remove" /\ RemoveCall(r, f).form = f
          /\ RemoveCall(r, f).opening = 0 /\ RemoveCall(r, f).row = r
          /\ RemoveCall(r, f).list = NoListShown
    /\ \A t \in {"patch", "captured", "reload"} :
          [NoForm EXCEPT !.then = t] \in FormRecords /\ [NoForm EXCEPT !.then = t].then = t
<1>1. NoForm \in FormRecords /\ NoListShown \in Lists
  BY NothingInHand
<1>2. \A t \in {"patch", "captured", "reload"} :
         [NoForm EXCEPT !.then = t] \in FormRecords /\ [NoForm EXCEPT !.then = t].then = t
  BY <1>1 DEF FormRecords
<1>3. LoadCall =
         [op |-> "load", form |-> NoForm, opening |-> 0, row |-> NoPageRow, seen |-> 0,
          list |-> NoListShown]
  BY DEF LoadCall, NoPageCall
<1>4. \A op, f, n, r :
         FormCall(op, f, n, r) =
            [op |-> op, form |-> f, opening |-> n, row |-> r, seen |-> 0,
             list |-> NoListShown]
  <2> TAKE op, f, n, r
  <2> DEFINE x1 == [NoPageCall EXCEPT !.op = op]
             x2 == [x1 EXCEPT !.form = f]
             x3 == [x2 EXCEPT !.opening = n]
  <2>1. x1 = [op |-> op, form |-> NoForm, opening |-> 0, row |-> NoPageRow, seen |-> 0,
              list |-> NoListShown]
    BY DEF NoPageCall
  <2>2. FormCall(op, f, n, r) = [x3 EXCEPT !.row = r]
    BY DEF FormCall
  <2> HIDE DEF x1
  <2>3. x2 = [op |-> op, form |-> f, opening |-> 0, row |-> NoPageRow, seen |-> 0,
              list |-> NoListShown]
    BY <2>1
  <2> HIDE DEF x2
  <2>4. x3 = [op |-> op, form |-> f, opening |-> n, row |-> NoPageRow, seen |-> 0,
              list |-> NoListShown]
    BY <2>3
  <2> HIDE DEF x3
  <2>5. QED
    BY <2>2, <2>4
<1>5. \A r, f :
         RemoveCall(r, f) =
            [op |-> "remove", form |-> f, opening |-> 0, row |-> r, seen |-> 0,
             list |-> NoListShown]
  <2> TAKE r, f
  <2> DEFINE x1 == [NoPageCall EXCEPT !.op = "remove"]
             x2 == [x1 EXCEPT !.row = r]
  <2>1. x1 = [op |-> "remove", form |-> NoForm, opening |-> 0, row |-> NoPageRow,
              seen |-> 0, list |-> NoListShown]
    BY DEF NoPageCall
  <2>2. RemoveCall(r, f) = [x2 EXCEPT !.form = f]
    BY DEF RemoveCall
  <2> HIDE DEF x1
  <2>3. x2 = [op |-> "remove", form |-> NoForm, opening |-> 0, row |-> r, seen |-> 0,
              list |-> NoListShown]
    BY <2>1
  <2> HIDE DEF x2
  <2>4. QED
    BY <2>2, <2>3
<1>6. QED
  BY <1>1, <1>2, <1>3, <1>4, <1>5 DEF PageCallRecords, OpeningOrNone, RowOrNo

LEMMA StartPageCallOK ==
    ASSUME PagesInv, NEW c \in PageCalls, NEW s \in {"save", "remove", "read", "file"},
           NEW call \in PageCallRecords, Start(c, s, call),
           CallOnCourse(s, call), CallOfItsOpening(call),
           call.row \in TakenRows, call.list = NoListShown,
           s = "read" => call.form.then # "captured", s = "file" => call.form.then = "window",
           ~ astray' => PanelKept(s, call),
           UNCHANGED <<page, row, taken, shown, loaded>>,
           form' \in OpenFormRecords, form'.row \in TakenRows,
           openings' \in [Openings -> OpeningRecords],
           \A n \in Openings :
              /\ openings'[n].form = openings[n].form
              /\ openings'[n].row = openings[n].row
              /\ openings'[n].effects = openings[n].effects
    PROVE  /\ PageTypeOK' /\ CallsOnCourse' /\ RowsAreTaken' /\ ShownInv'
           /\ \E m \in PageCallRecords : CallComesTo(c, s, m) /\ SameButList(m, call)
           /\ callStep[c] = "idle" /\ calling[c].opening = 0
<1>1. PICK m \in PageCallRecords :
         /\ CallComesTo(c, s, m) /\ SameButList(m, call)
         /\ m.list = IF call.form.then = "captured" THEN shown ELSE call.list
         /\ callStep[c] = "idle"
         /\ astray' = (astray \/ \E d \in InFlight : Disturb(call, calling[d]))
  BY StartFacts DEF PagesInv
<1>2. calling[c].opening = 0
  BY <1>1 DEF PagesInv, CallsOnCourse, CallOnCourse
<1>3. CallOnCourse(s, m) /\ CallOfItsOpening(m) /\ m.row \in TakenRows
  BY <1>1 DEF SameButList, CallOnCourse, CallOfItsOpening, OfAForm
<1>4. \A r \in PageRows : m.list[r] # 0 => r \in taken
  BY <1>1, NothingInHand DEF PagesInv, RowsAreTaken
<1>5. \A d \in InFlight : ~ astray' => ~ Disturb(m, calling[d])
  BY <1>1 DEF SameButList, Disturb, ShowsAList
<1>6. ReadyToShow(s, m)
  BY <1>1 DEF ReadyToShow, SameButList
<1>7. \A r \in PageRows : ~ Covers(callStep[c], calling[c], r)
  BY <1>1 DEF Covers
<1>8. astray' \in BOOLEAN /\ (astray => astray')
  BY <1>1
<1>9. s \in CallSteps
  BY DEF CallSteps
<1>10. ~ astray' => PanelKept(s, m)
  BY <1>1 DEF PanelKept, Covers, SameButList
<1>11. PageTypeOK' /\ CallsOnCourse' /\ RowsAreTaken' /\ ShownInv'
  BY <1>1, <1>3, <1>4, <1>5, <1>6, <1>7, <1>8, <1>9, <1>10, QuietStepOK
<1>12. QED
  BY <1>1, <1>2, <1>11

\* A list is in front, or beside, only where no file is left to send again.
LEMMA NothingToResend ==
    ASSUME PagesInv, form = NothingOpen \/ AtHand
    PROVE  ~ form.resend
<1>1. CASE form = NothingOpen
  BY <1>1, NothingInHand
<1>2. CASE page.removes = "captured" /\ form # NothingOpen
  <2>1. form.form \in page.forms /\ (form.resend => form.form.file = "apart") /\ page \in Pages
    BY <1>2 DEF PagesInv, FormsInv, FormOfItsOpening, PageTypeOK
  <2>2. QED
    BY <1>2, <2>1, FormsOfAPage
<1>3. QED
  BY <1>1, <1>2 DEF AtHand

LEMMA LoadPageOK ==
    ASSUME PagesInv, NEW c \in PageCalls, LoadPage(c)
    PROVE  PagesInv'
<1> PICK call : call = LoadCall
  OBVIOUS
<1>1. /\ Start(c, "read", call)
      /\ UNCHANGED <<page, row, taken, shown, loaded, form, openings>>
  BY DEF LoadPage, LoadCall
<1>2. /\ call \in PageCallRecords
      /\ call.op = "load" /\ call.form = NoForm /\ call.opening = 0
      /\ call.row = NoPageRow /\ call.list = NoListShown
  BY CallsThatStart
<1>3. /\ CallOnCourse("read", call) /\ CallOfItsOpening(call)
      /\ call.row \in TakenRows /\ call.form.then = "patch"
  BY <1>2, NothingInHand DEF CallOnCourse, CallOfItsOpening, OfAForm, TakenRows
<1>4. /\ form' \in OpenFormRecords /\ form'.row \in TakenRows
      /\ openings' \in [Openings -> OpeningRecords]
  BY <1>1 DEF PagesInv, PageTypeOK, RowsAreTaken
<1>a. PanelKept("read", call)
  <2>1. form = NothingOpen \/ AtHand
    BY DEF LoadPage, PagesInv, LoadedFirst
  <2>2. QED
    BY <1>1, <2>1, NothingToResend DEF PanelKept
<1>5. /\ PageTypeOK' /\ CallsOnCourse' /\ RowsAreTaken' /\ ShownInv'
      /\ \E m \in PageCallRecords : CallComesTo(c, "read", m) /\ SameButList(m, call)
      /\ calling[c].opening = 0
  BY <1>1, <1>2, <1>3, <1>4, <1>a, StartPageCallOK
<1>6. PICK m \in PageCallRecords : CallComesTo(c, "read", m) /\ SameButList(m, call)
  BY <1>5
<1>7. FormsInv'
  BY <1>1, <1>2, <1>5, <1>6, FormFacts, FormsStay DEF FormLetsGo, SameButList, PagesInv
<1>8. LoadedFirst'
  <2>1. \A d \in PageCalls : calling'[d] = calling[d] \/ calling'[d].op = "load"
    BY <1>2, <1>6 DEF CallComesTo, SameButList
  <2>2. QED
    BY <1>1, <2>1 DEF LoadedFirst, PagesInv
<1>9. QED
  BY <1>5, <1>7, <1>8 DEF PagesInv

LEMMA RemoveRowOK ==
    ASSUME PagesInv, NEW c \in PageCalls, NEW r \in PageRows, RemoveRow(c, r)
    PROVE  PagesInv'
<1>a. PICK f : f = [NoForm EXCEPT !.then = page.removes]
  OBVIOUS
<1>b. PICK call : call = RemoveCall(r, f)
  OBVIOUS
<1>1. /\ Start(c, "remove", call) /\ page.removes # "no" /\ shown[r] # 0 /\ loaded
      /\ UNCHANGED <<page, row, taken, shown, loaded, form, openings>>
  BY <1>a, <1>b DEF RemoveRow, RemoveCall
<1>2. /\ f \in FormRecords /\ f.then \in {"patch", "captured", "reload"}
  BY <1>a, <1>1, CallsThatStart, FormsOfAPage DEF PagesInv, PageTypeOK
<1>3. /\ call \in PageCallRecords
      /\ call.op = "remove" /\ call.form = f /\ call.opening = 0
      /\ call.row = r /\ call.list = NoListShown
  BY <1>b, <1>2, CallsThatStart
<1>4. /\ CallOnCourse("remove", call) /\ CallOfItsOpening(call)
      /\ call.row \in TakenRows
  BY <1>1, <1>2, <1>3
  DEF CallOnCourse, CallOfItsOpening, OfAForm, TakenRows, PagesInv, RowsAreTaken
<1>5. /\ form' \in OpenFormRecords /\ form'.row \in TakenRows
      /\ openings' \in [Openings -> OpeningRecords]
  BY <1>1 DEF PagesInv, PageTypeOK, RowsAreTaken
<1>c. PanelKept("remove", call)
  <2>1. AtHand
    BY DEF RemoveRow
  <2>2. QED
    BY <1>1, <2>1, NothingToResend DEF PanelKept
<1>6. /\ PageTypeOK' /\ CallsOnCourse' /\ RowsAreTaken' /\ ShownInv'
      /\ \E m \in PageCallRecords : CallComesTo(c, "remove", m) /\ SameButList(m, call)
      /\ calling[c].opening = 0
  BY <1>1, <1>3, <1>4, <1>5, <1>c, StartPageCallOK
<1>7. PICK m \in PageCallRecords : CallComesTo(c, "remove", m) /\ SameButList(m, call)
  BY <1>6
<1>8. FormsInv'
  BY <1>1, <1>3, <1>6, <1>7, FormFacts, FormsStay DEF FormLetsGo, SameButList, PagesInv
<1>9. QED
  BY <1>1, <1>6, <1>8 DEF PagesInv, LoadedFirst

\* The next opening has not been used yet.
LEMMA NextOpeningIsFree ==
    ASSUME PagesInv, NextOpening \in Openings
    PROVE  /\ openings[NextOpening] = NotOpened
           /\ ~ HasACall(NextOpening)
           /\ \A n \in Openings : openings[n] # NotOpened <=> n < NextOpening
<1>1. PICK k \in 0..MaxOpenings : \A n \in Openings : openings[n] # NotOpened <=> n <= k
  BY DEF PagesInv, FormsInv, OpeningsInOrder
<1>2. {n \in Openings : openings[n] # NotOpened} = 1..k
  BY <1>1, PageRowsAssumption DEF Openings
<1>3. Cardinality(1..k) = k
  BY FS_Interval
<1>4. NextOpening = k + 1
  BY <1>2, <1>3 DEF NextOpening
<1>5. openings[NextOpening] = NotOpened
  BY <1>1, <1>4
<1>6. ASSUME NEW c \in PageCalls, calling[c].opening = NextOpening PROVE FALSE
  <2>1. CallOfItsOpening(calling[c]) /\ calling[c] \in PageCallRecords
        /\ (calling[c].op \in {"none", "load", "remove"} => calling[c].opening = 0)
    BY DEF PagesInv, PageTypeOK, CallsOnCourse, CallOnCourse
  <2>2. OfAForm(calling[c])
    BY <1>6, <2>1, FormFacts DEF OfAForm, PageCallRecords, PagesInv
  <2>3. NoForm \in page.forms
    BY <1>5, <1>6, <2>1, <2>2, NothingInHand DEF CallOfItsOpening
  <2>4. QED
    BY <2>3, FormsOfAPage DEF PagesInv, PageTypeOK
<1>7. QED
  BY <1>1, <1>4, <1>5, <1>6 DEF HasACall, Openings

LEMMA OpenFormOK ==
    ASSUME PagesInv, NEW f \in page.forms, NEW r \in PageRows \cup {NoPageRow}, OpenForm(f, r)
    PROVE  PagesInv'
<1>0. PICK n0 : n0 = NextOpening
  OBVIOUS
<1>1. /\ loaded /\ form = NothingOpen /\ n0 \in Openings
      /\ f.op # "create" => r \in PageRows /\ shown[r] # 0
      /\ f.op = "create" => r = NoPageRow
      /\ form' = FormOpen(f, n0, r)
      /\ openings' = [openings EXCEPT ![n0].form = f]
      /\ UNCHANGED <<page, row, taken, shown, loaded, callStep, calling, astray>>
  BY <1>0 DEF OpenForm
<1>2. /\ openings[n0] = NotOpened /\ ~ HasACall(n0)
      /\ \A n \in Openings : openings[n] # NotOpened <=> n < n0
  BY <1>0, <1>1, NextOpeningIsFree
<1>3. PageTypeOK /\ CallsOnCourse /\ FormsInv /\ RowsAreTaken /\ ShownInv
  BY DEF PagesInv
<1>4. f \in FormRecords /\ f # NoForm
  BY <1>3, FormsOfAPage DEF PageTypeOK
<1>5. PICK o \in OpeningRecords :
         /\ OpeningComesTo(n0, o)
         /\ o.form = f /\ o.row = NoPageRow /\ o.effects = 0 /\ ~ o.again /\ o.failed = {}
  <2>1. PICK o : o = [NotOpened EXCEPT !.form = f]
    OBVIOUS
  <2>2. NotOpened \in OpeningRecords
    BY NothingInHand
  <2>3. o = [form |-> f, row |-> NotOpened.row, effects |-> NotOpened.effects,
             again |-> NotOpened.again, failed |-> NotOpened.failed]
    BY <1>4, <2>1, <2>2, OpeningEdits
  <2>4. o \in OpeningRecords
    BY <1>4, <2>2, <2>3 DEF OpeningRecords
  <2>5. openings' = [openings EXCEPT ![n0] = o]
    BY <1>1, <1>2, <2>1
  <2>6. OpeningComesTo(n0, o)
    BY <1>1, <1>3, <2>4, <2>5, OpeningFacts
  <2>7. QED
    BY <2>3, <2>4, <2>6, NothingInHand
<1>6. /\ openings'[n0] = o /\ o # NotOpened
      /\ \A n \in Openings \ {n0} : openings'[n] = openings[n]
  BY <1>4, <1>5, NothingInHand DEF OpeningComesTo
<1>7. /\ form' \in OpenFormRecords
      /\ form'.form = f /\ form'.opening = n0 /\ form'.row = r /\ ~ form'.saving
      /\ ~ form'.resend
  BY <1>1, <1>4 DEF FormOpen, OpenFormRecords, OpeningOrNone, RowOrNo
<1>8. PageTypeOK'
  BY <1>1, <1>3, <1>5, <1>7, OpeningTypes DEF PageTypeOK
<1>9. CallsOnCourse'
  <2>1. \A c \in PageCalls : CallOfItsOpening(calling[c])'
    <3> SUFFICES ASSUME NEW c \in PageCalls PROVE CallOfItsOpening(calling[c])'
      OBVIOUS
    <3>1. calling[c].opening # n0
      BY <1>2 DEF HasACall
    <3>2. QED
      BY <1>1, <1>3, <1>6, <3>1 DEF CallsOnCourse, CallOfItsOpening
  <2>2. QED
    BY <1>1, <1>3, <2>1 DEF CallsOnCourse
<1>10. FormsInv'
  <2>1. FormOfItsOpening'
    BY <1>1, <1>5, <1>6, <1>7 DEF FormOfItsOpening
  <2>2. OpeningsInOrder'
    <3>1. n0 \in 0..MaxOpenings /\ n0 \in Int
      BY <1>1, PageRowsAssumption DEF Openings
    <3>2. \A n \in Openings : openings'[n] # NotOpened <=> n <= n0
      BY <1>2, <1>6, <3>1 DEF Openings
    <3>3. \A n \in Openings : openings'[n] = NotOpened \/ openings'[n].form \in page.forms
      BY <1>3, <1>5, <1>6 DEF FormsInv, OpeningsInOrder
    <3>4. QED
      BY <1>1, <3>1, <3>2, <3>3 DEF OpeningsInOrder
  <2>3. ASSUME NEW n \in Openings PROVE SavedOnce(n)'
    <3>1. CASE n = n0
      BY <1>1, <1>2, <1>5, <1>6, <1>7, <3>1 DEF SavedOnce, HasACall
    <3>2. CASE n # n0
      BY <1>1, <1>3, <1>6, <1>7, <3>2, SavedOnceStays DEF FormsInv
    <3>3. QED
      BY <3>1, <3>2
  <2>4. QED
    BY <2>1, <2>2, <2>3 DEF FormsInv
<1>11. RowsAreTaken'
  <2>1. form'.row \in TakenRows
    BY <1>1, <1>3, <1>7 DEF RowsAreTaken, TakenRows
  <2>2. \A n \in Openings : /\ openings'[n].row \in TakenRows
                            /\ openings'[n].effects # 0 => openings'[n].row \in PageRows
    <3> SUFFICES ASSUME NEW n \in Openings
                 PROVE  /\ openings'[n].row \in TakenRows
                        /\ openings'[n].effects # 0 => openings'[n].row \in PageRows
      OBVIOUS
    <3>1. CASE n = n0
      BY <1>5, <1>6, <3>1 DEF TakenRows
    <3>2. CASE n # n0
      BY <1>3, <1>6, <3>2 DEF RowsAreTaken
    <3>3. QED
      BY <3>1, <3>2
  <2>3. QED
    BY <1>1, <1>3, <2>1, <2>2 DEF RowsAreTaken, TakenRows
<1>12. ShownInv'
  <2>1. ~ form.resend
    BY <1>1, NothingInHand
  <2>2. QED
    BY <1>1, <1>3, <1>7, <2>1
    DEF ShownInv, Undisturbed, AtTheFile, InFlight, ReadyToShow
<1>13. QED
  BY <1>1, <1>8, <1>9, <1>10, <1>11, <1>12 DEF PagesInv, LoadedFirst

LEMMA CloseFormOK ==
    ASSUME PagesInv, CloseForm
    PROVE  PagesInv'
<1>1. /\ form # NothingOpen /\ ~ form.resend /\ form' = NothingOpen
      /\ UNCHANGED <<page, row, taken, shown, loaded, openings, callStep, calling, astray>>
  BY DEF CloseForm
<1>2. PageTypeOK /\ CallsOnCourse /\ FormsInv /\ RowsAreTaken /\ ShownInv
  BY DEF PagesInv
<1>3. PageTypeOK' /\ CallsOnCourse' /\ RowsAreTaken' /\ ShownInv'
  BY <1>1, <1>2, NothingInHand
  DEF PageTypeOK, CallsOnCourse, CallOfItsOpening, RowsAreTaken, TakenRows, ShownInv,
      Undisturbed, AtTheFile, InFlight, ReadyToShow
<1>4. FormsInv'
  <2>1. ASSUME NEW n \in Openings PROVE SavedOnce(n)'
    <3>1. form'.opening # n
      BY <1>1, <1>2, FormFacts
    <3>2. QED
      BY <1>1, <1>2, <3>1, SavedOnceStays DEF FormsInv
  <2>2. QED
    BY <1>1, <1>2, <2>1 DEF FormsInv, FormOfItsOpening, OpeningsInOrder
<1>5. QED
  BY <1>1, <1>3, <1>4 DEF PagesInv, LoadedFirst

LEMMA SubmitFormOK ==
    ASSUME PagesInv, NEW c \in PageCalls, SubmitForm(c)
    PROVE  PagesInv'
<1>0. PICK n0, call : /\ n0 = form.opening
                      /\ call = FormCall(form.form.op, form.form, form.opening, form.row)
  OBVIOUS
<1>a. PICK b \in BOOLEAN :
         b = (openings[n0].again \/ \E d \in InFlight : calling[d].opening = n0)
  OBVIOUS
<1>1. /\ form # NothingOpen /\ ~ form.resend /\ (form.saving => form.form.holds = "never")
      /\ Start(c, "save", call)
      /\ form' = [form EXCEPT !.saving = TRUE]
      /\ UNCHANGED <<page, row, taken, shown, loaded>>
  BY <1>0 DEF SubmitForm, FormCall
<1>2. openings' = [openings EXCEPT ![n0].again = b]
  BY <1>0, <1>a DEF SubmitForm
<1>3. PageTypeOK /\ CallsOnCourse /\ FormsInv /\ RowsAreTaken
  BY DEF PagesInv
<1>4. /\ n0 \in Openings /\ form.form \in page.forms /\ openings[n0].form = form.form
      /\ form.form \in FormRecords /\ form.form.op \in {"create", "edit", "act"}
      /\ form.row \in TakenRows /\ form.row \in RowOrNo
  BY <1>0, <1>1, <1>3, FormsOfAPage
  DEF FormsInv, FormOfItsOpening, PageTypeOK, RowsAreTaken, OpenFormRecords
<1>5. /\ call \in PageCallRecords
      /\ call.op = form.form.op /\ call.form = form.form /\ call.opening = n0
      /\ call.row = form.row /\ call.list = NoListShown
  BY <1>0, <1>4, CallsThatStart
<1>6. CallOnCourse("save", call) /\ CallOfItsOpening(call)
  BY <1>4, <1>5 DEF CallOnCourse, CallOfItsOpening, OfAForm
<1>7. PICK o \in OpeningRecords :
         /\ OpeningComesTo(n0, o)
         /\ o = [form |-> form.form, row |-> openings[n0].row,
                 effects |-> openings[n0].effects, again |-> b,
                 failed |-> openings[n0].failed]
  <2>0. PICK old \in OpeningRecords : old = openings[n0]
    BY <1>3, <1>4 DEF PageTypeOK
  <2>1. PICK o : o = [old EXCEPT !.again = b]
    OBVIOUS
  <2>2. o = [form |-> old.form, row |-> old.row, effects |-> old.effects, again |-> b,
             failed |-> old.failed]
    BY <2>1, OpeningEdits
  <2>3. o \in OpeningRecords
    BY <2>2 DEF OpeningRecords
  <2>4. openings' = [openings EXCEPT ![n0] = o]
    BY <1>2, <2>0, <2>1
  <2>5. OpeningComesTo(n0, o)
    BY <1>3, <1>4, <2>3, <2>4, OpeningFacts
  <2>6. QED
    BY <1>4, <2>0, <2>2, <2>3, <2>5
<1>8. /\ openings'[n0] = o
      /\ \A n \in Openings \ {n0} : openings'[n] = openings[n]
      /\ openings' \in [Openings -> OpeningRecords]
  BY <1>3, <1>4, <1>7, OpeningTypes DEF OpeningComesTo
<1>9. /\ form' \in OpenFormRecords
      /\ form'.form = form.form /\ form'.opening = n0 /\ form'.row = form.row /\ form'.saving
      /\ ~ form'.resend
  BY <1>0, <1>1, <1>3, FormFacts
<1>10. \A n \in Openings :
          /\ openings'[n].form = openings[n].form
          /\ openings'[n].row = openings[n].row
          /\ openings'[n].effects = openings[n].effects
  BY <1>4, <1>7, <1>8
<1>11. /\ PageTypeOK' /\ CallsOnCourse' /\ RowsAreTaken' /\ ShownInv'
       /\ \E m \in PageCallRecords : CallComesTo(c, "save", m) /\ SameButList(m, call)
       /\ callStep[c] = "idle" /\ calling[c].opening = 0
  <2>1. PanelKept("save", call)
    BY <1>1, <1>9 DEF PanelKept
  <2>2. QED
    BY <1>1, <1>4, <1>5, <1>6, <1>8, <1>9, <1>10, <2>1, StartPageCallOK
<1>12. PICK m \in PageCallRecords : CallComesTo(c, "save", m) /\ SameButList(m, call)
  BY <1>11
<1>13. /\ callStep'[c] = "save" /\ calling'[c] = m /\ m.opening = n0
       /\ \A d \in PageCalls \ {c} : callStep'[d] = callStep[d] /\ calling'[d] = calling[d]
  BY <1>5, <1>12 DEF CallComesTo, SameButList
<1>14. FormOfItsOpening'
  BY <1>1, <1>3, <1>4, <1>9, <1>10, FormStays, <1>0 DEF FormsInv
<1>15. OpeningsInOrder'
  <2>1. openings[n0] # NotOpened
    BY <1>3, <1>4, NothingInHand, FormsOfAPage DEF PageTypeOK
  <2>2. QED
    BY <1>1, <1>3, <1>8, <1>10, <2>1, OrderStays DEF FormsInv, PageTypeOK
<1>16. ASSUME NEW n \in Openings PROVE SavedOnce(n)'
  <2>1. CASE n # n0
    <3>1. SavedOnce(n) /\ openings'[n] = openings[n] /\ form'.opening # n
      BY <1>3, <1>8, <1>9, <2>1 DEF FormsInv
    <3>2. \A d \in PageCalls : calling'[d].opening = n => d # c
      BY <1>13, <2>1
    <3>3. QED
      BY <1>13, <3>1, <3>2, SavedOnceStays
  <2>2. CASE n = n0
    <3>1. SavedOnce(n0)
      BY <1>3, <1>4 DEF FormsInv
    <3>2. CASE ~ IsOrderly(o)
      BY <1>4, <1>7, <1>8, <2>2, <3>1, <3>2 DEF SavedOnce
    <3>3. CASE IsOrderly(o)
      <4>1. IsOrderly(openings[n0])
        BY <1>4, <1>7, <1>a, <3>3 DEF IsOrderly
      <4>2. ~ HasACall(n0)
        <5>1. CASE form.form.holds = "never"
          <6>1. \A d \in InFlight : calling[d].opening # n0
            BY <1>7, <1>a, <3>3, <5>1 DEF IsOrderly
          <6>2. \A d \in PageCalls : d \notin InFlight => calling[d].opening # n0
            BY <1>3, <1>4, FormFacts DEF InFlight, CallsOnCourse, CallOnCourse
          <6>3. QED
            BY <6>1, <6>2 DEF HasACall
        <5>2. CASE form.form.holds # "never"
          BY <1>0, <1>1, <1>4, <3>1, <4>1, <5>2 DEF SavedOnce
        <5>3. QED
          BY <5>1, <5>2
      <4>3. openings[n0].effects = 0
        BY <1>0, <1>1, <1>4, <3>1, <4>1, <4>2 DEF SavedOnce
      <4>4. /\ o.effects = 0 /\ o.form = form.form /\ o.failed = openings[n0].failed
        BY <1>7, <4>3
      <4>5. \A d \in PageCalls : calling'[d].opening = n0 => d = c
        BY <1>13, <4>2 DEF HasACall
      <4>6. QED
        BY <1>4, <1>8, <1>9, <1>13, <2>2, <3>1, <4>4, <4>5 DEF SavedOnce
    <3>4. QED
      BY <3>2, <3>3
  <2>3. QED
    BY <2>1, <2>2
<1>17. QED
  BY <1>1, <1>11, <1>14, <1>15, <1>16 DEF PagesInv, FormsInv, LoadedFirst

LEMMA ResendFileOK ==
    ASSUME PagesInv, NEW c \in PageCalls, ResendFile(c)
    PROVE  PagesInv'
<1>0. PICK n0, call : /\ n0 = form.opening
                      /\ call = FormCall(form.form.op, form.form, form.opening, form.row)
  OBVIOUS
<1>1. /\ form.resend /\ ~ form.saving
      /\ Start(c, "file", call)
      /\ form' = [form EXCEPT !.saving = TRUE]
      /\ UNCHANGED <<page, row, taken, shown, loaded, openings>>
  BY <1>0 DEF ResendFile, FormCall
<1>2. PageTypeOK /\ CallsOnCourse /\ LoadedFirst /\ FormsInv /\ RowsAreTaken
  BY DEF PagesInv
<1>3. /\ form # NothingOpen
      /\ n0 \in Openings /\ form.form \in page.forms /\ openings[n0].form = form.form
      /\ form.form.file = "apart" /\ form.row \in PageRows
  BY <1>0, <1>1, <1>2, FormFacts DEF FormsInv, FormOfItsOpening
<1>4. /\ form.form \in FormRecords /\ form.form.op \in {"create", "edit", "act"}
      /\ form.form.holds = "meanwhile" /\ form.form.then = "window"
      /\ form.row \in TakenRows /\ form.row \in RowOrNo
  BY <1>2, <1>3, FormsOfAPage DEF PageTypeOK, RowsAreTaken, RowOrNo
<1>5. /\ call \in PageCallRecords
      /\ call.op = form.form.op /\ call.form = form.form /\ call.opening = n0
      /\ call.row = form.row /\ call.list = NoListShown
  BY <1>0, <1>3, <1>4, CallsThatStart
<1>6. CallOnCourse("file", call) /\ CallOfItsOpening(call)
  BY <1>3, <1>4, <1>5 DEF CallOnCourse, CallOfItsOpening, OfAForm
<1>7. /\ form' \in OpenFormRecords /\ form'.form = form.form /\ form'.opening = n0
      /\ form'.row = form.row /\ form'.saving /\ form'.resend
  BY <1>0, <1>1, <1>2, FormFacts
<1>8. ~ astray' => PanelKept("file", call)
  <2> SUFFICES ASSUME ~ astray' PROVE PanelKept("file", call)
    OBVIOUS
  <2>1. PICK m \in PageCallRecords : CallComesTo(c, "file", m) /\ SameButList(m, call)
    BY <1>1, <1>2, <1>5, StartFacts
  <2>2. InFlight = {}
    <3>1. \A d \in InFlight : Disturb(call, calling[d])
      BY <1>4, <1>5 DEF Disturb, ShowsAList
    <3>2. QED
      BY <1>1, <3>1 DEF Start
  <2>3. \A d \in InFlight' : d = c
    BY <2>1, <2>2 DEF CallComesTo, InFlight
  <2>4. callStep'[c] = "file" /\ calling'[c].opening = n0
    BY <1>5, <2>1 DEF CallComesTo, SameButList
  <2>5. QED
    BY <1>7, <2>3, <2>4 DEF PanelKept, AtTheFile
<1>9. /\ openings' \in [Openings -> OpeningRecords]
      /\ \A n \in Openings :
            /\ openings'[n].form = openings[n].form
            /\ openings'[n].row = openings[n].row
            /\ openings'[n].effects = openings[n].effects
  BY <1>1, <1>2 DEF PageTypeOK
<1>10. /\ PageTypeOK' /\ CallsOnCourse' /\ RowsAreTaken' /\ ShownInv'
       /\ \E m \in PageCallRecords : CallComesTo(c, "file", m) /\ SameButList(m, call)
       /\ callStep[c] = "idle" /\ calling[c].opening = 0
  BY <1>1, <1>4, <1>5, <1>6, <1>7, <1>8, <1>9, StartPageCallOK
<1>11. PICK m \in PageCallRecords : CallComesTo(c, "file", m) /\ SameButList(m, call)
  BY <1>10
<1>12. /\ callStep'[c] = "file" /\ calling'[c] = m /\ m.opening = n0
       /\ \A d \in PageCalls \ {c} : callStep'[d] = callStep[d] /\ calling'[d] = calling[d]
  BY <1>5, <1>11 DEF CallComesTo, SameButList
<1>13. FormOfItsOpening'
  BY <1>0, <1>1, <1>2, <1>3, <1>7, FormStays DEF FormsInv
<1>14. OpeningsInOrder'
  BY <1>1, <1>2, OrderStays DEF FormsInv, PageTypeOK
<1>15. ASSUME NEW n \in Openings PROVE SavedOnce(n)'
  <2>1. SavedOnce(n) /\ openings'[n] = openings[n]
    BY <1>1, <1>2 DEF FormsInv
  <2>2. CASE n # n0
    <3>1. \A d \in PageCalls : calling'[d].opening = n => d # c
      BY <1>12, <2>2
    <3>2. QED
      BY <1>7, <1>12, <2>1, <2>2, <3>1, SavedOnceStays
  <2>3. CASE n = n0 /\ IsOrderly(openings[n0])
    <3>1. \A d \in PageCalls : calling[d].opening # n0
      BY <1>0, <1>1, <1>3, <1>4, <2>1, <2>3 DEF SavedOnce, HasACall
    <3>2. \A d \in PageCalls : calling'[d].opening = n0 => d = c
      BY <1>12, <3>1
    <3>3. QED
      BY <1>7, <1>12, <2>1, <2>3, <3>2 DEF SavedOnce
  <2>4. CASE n = n0 /\ ~ IsOrderly(openings[n0])
    BY <2>1, <2>4 DEF SavedOnce
  <2>5. QED
    BY <2>2, <2>3, <2>4
<1>16. LoadedFirst'
  BY <1>1, <1>2, <1>3 DEF LoadedFirst
<1>17. QED
  BY <1>10, <1>13, <1>14, <1>15, <1>16 DEF PagesInv, FormsInv

LEMMA GiveFileUpOK ==
    ASSUME PagesInv, NEW c \in PageCalls, GiveFileUp(c)
    PROVE  PagesInv'
<1> PICK call : call = LoadCall
  OBVIOUS
<1>1. /\ form.resend /\ form' = NothingOpen /\ Start(c, "read", call)
      /\ UNCHANGED <<page, row, taken, shown, loaded, openings>>
  BY DEF GiveFileUp, LoadCall
<1>2. /\ call \in PageCallRecords
      /\ call.op = "load" /\ call.form = NoForm /\ call.opening = 0
      /\ call.row = NoPageRow /\ call.list = NoListShown
  BY CallsThatStart
<1>3. /\ CallOnCourse("read", call) /\ CallOfItsOpening(call)
      /\ call.row \in TakenRows /\ call.form.then = "patch"
  BY <1>2, NothingInHand DEF CallOnCourse, CallOfItsOpening, OfAForm, TakenRows
<1>4. /\ form' \in OpenFormRecords /\ form'.row \in TakenRows
      /\ openings' \in [Openings -> OpeningRecords]
  BY <1>1, NothingInHand DEF PagesInv, PageTypeOK, TakenRows
<1>5. PanelKept("read", call)
  BY <1>1, NothingInHand DEF PanelKept, AtTheFile, Covers
<1>6. /\ PageTypeOK' /\ CallsOnCourse' /\ RowsAreTaken' /\ ShownInv'
      /\ \E m \in PageCallRecords : CallComesTo(c, "read", m) /\ SameButList(m, call)
      /\ calling[c].opening = 0
  BY <1>1, <1>2, <1>3, <1>4, <1>5, StartPageCallOK
<1>7. PICK m \in PageCallRecords : CallComesTo(c, "read", m) /\ SameButList(m, call)
  BY <1>6
<1>8. FormsInv'
  BY <1>1, <1>2, <1>6, <1>7, FormFacts, FormsStay DEF FormLetsGo, SameButList, PagesInv
<1>9. LoadedFirst'
  BY <1>1, FormFacts DEF LoadedFirst, PagesInv
<1>10. QED
  BY <1>6, <1>8, <1>9 DEF PagesInv

(***************************************************************************)
(* The effects of a call.                                                  *)
(***************************************************************************)
\* What a call may still do to a row, no other call in flight is about.
LEMMA RowsApart ==
    ASSUME PagesInv, ~ astray, NEW c \in PageCalls, callStep[c] # "idle",
           NEW r \in PageRows, r = calling[c].row \/ r \notin taken
    PROVE  \A d \in InFlight : d # c => calling[d].row # r
<1> SUFFICES ASSUME NEW d \in InFlight, d # c PROVE calling[d].row # r
  OBVIOUS
<1>1. ~ Disturb(calling[c], calling[d]) /\ r # NoPageRow
  BY PageRowsAssumption DEF PagesInv, ShownInv, Undisturbed, InFlight
<1>2. calling[d].row \in taken \cup {NoPageRow}
  BY DEF PagesInv, RowsAreTaken, TakenRows, InFlight
<1>3. QED
  BY <1>1, <1>2 DEF Disturb

\* A row that no other call is about is shown as it is.
LEMMA RowIsShown ==
    ASSUME PagesInv, ~ astray, loaded, NEW c \in PageCalls, callStep[c] \in {"save", "remove"},
           NEW r \in PageRows, r = calling[c].row
    PROVE  shown[r] = row[r]
<1>1. \A d \in InFlight : d # c => calling[d].row # r
  BY RowsApart
<1>2. ASSUME NEW d \in PageCalls, Covers(callStep[d], calling[d], r) PROVE FALSE
  <2>1. d # c /\ d \in InFlight
    BY <1>2 DEF Covers, InFlight
  <2>2. ~ Disturb(calling[c], calling[d])
    BY <2>1 DEF PagesInv, ShownInv, Undisturbed, InFlight
  <2>3. CallOnCourse(callStep[d], calling[d])
    BY DEF PagesInv, CallsOnCourse
  <2>4. callStep[d] \notin {"read", "show-list"}
    BY <2>2, <2>3 DEF Disturb, ShowsAList, CallOnCourse
  <2>5. QED
    BY <1>1, <1>2, <2>1, <2>4 DEF Covers
<1>3. ~ form.resend
  BY NotResending
<1>4. QED
  BY <1>2, <1>3 DEF PagesInv, ShownInv

\* The rows, and what is known of them, after a call has changed one.
LEMMA RowWritten ==
    ASSUME PagesInv, NEW c \in PageCalls, NEW s \in CallSteps, NEW m \in PageCallRecords,
           CallComesTo(c, s, m), CallOnCourse(s, m), CallOfItsOpening(m),
           m.list = calling[c].list \/ m.list = NoListShown,
           NEW r \in PageRows, m.row \in {r, NoPageRow}, NEW v \in Nat,
           RowBecomes(r, v), taken' = taken \cup {r},
           UNCHANGED <<page, shown, loaded>>, astray' \in BOOLEAN,
           form' \in OpenFormRecords, form'.row \in TakenRows,
           openings' \in [Openings -> OpeningRecords],
           \A n \in Openings :
              /\ openings'[n].form = openings[n].form
              /\ \/ openings'[n].row = r
                 \/ openings'[n].row = openings[n].row /\ openings'[n].effects = openings[n].effects
    PROVE  PageTypeOK' /\ CallsOnCourse' /\ RowsAreTaken'
<1>1. PageTypeOK /\ CallsOnCourse /\ RowsAreTaken
  BY DEF PagesInv
<1>2. /\ row' \in Lists
      /\ \A q \in PageRows : q # r => row'[q] = row[q]
  BY <1>1 DEF PageTypeOK, Lists, RowBecomes
<1>3. PageTypeOK'
  <2>1. callStep' \in [PageCalls -> CallSteps] /\ calling' \in [PageCalls -> PageCallRecords]
    BY <1>1, CallTypes DEF CallSteps
  <2>2. taken' \in SUBSET PageRows
    BY <1>1 DEF PageTypeOK
  <2>3. QED
    BY <1>1, <1>2, <2>1, <2>2 DEF PageTypeOK, CallSteps
<1>4. CallsOnCourse'
  BY <1>1, CourseStays
<1>5. RowsAreTaken'
  <2>1. /\ taken \subseteq taken' /\ r \in taken'
        /\ TakenRows \subseteq TakenRows' /\ m.row \in TakenRows'
    BY DEF TakenRows
  <2>2. \A q \in PageRows : row'[q] # 0 \/ shown'[q] # 0 => q \in taken'
    BY <1>1, <1>2, <2>1 DEF RowsAreTaken
  <2>3. \A q \in PageRows : m.list[q] # 0 => q \in taken'
    BY <1>1, <2>1, NothingInHand DEF RowsAreTaken
  <2>4. \A n \in Openings :
           /\ openings'[n].row = openings[n].row \/ openings'[n].row \in taken'
           /\ openings'[n].effects = openings[n].effects \/ openings'[n].row \in PageRows
           /\ openings[n].effects # 0 => openings'[n].row \in PageRows
    BY <1>1, <2>1 DEF RowsAreTaken
  <2>5. form'.row \in TakenRows'
    BY <2>1
  <2>6. QED
    BY <1>1, <2>1, <2>2, <2>3, <2>4, <2>5, RowsStayTaken
<1>6. QED
  BY <1>3, <1>4, <1>5

\* What the first step after a save is.
LEMMA ThenFacts ==
    ASSUME PagesInv, NEW c \in PageCalls, callStep[c] # "idle"
    PROVE  /\ Then(calling[c].form) \in {"read", "show"}
           /\ Then(calling[c].form) = "read" <=> calling[c].form.then \in {"reload", "window"}
           /\ Then(calling[c].form) = "show" => calling[c].form.then \in {"patch", "captured"}
<1>1. calling[c].form.then \in {"patch", "captured", "window", "reload"}
  BY DEF PagesInv, PageTypeOK, PageCallRecords, FormRecords
<1>2. QED
  BY <1>1 DEF Then

\* The effect of a save on its opening, when the call goes on and when it ends.
\* The call that had call in its hands has m, at the step s; and its form.
FormFollows(s, call, m) ==
    IF s = "idle" THEN m.opening = 0 /\ form' = FormReleased(call)
    ELSE /\ m.opening = call.opening
         /\ FormLetsGo
         /\ form'.opening = form.opening /\ form.opening # call.opening => form' = form
         /\ s = "read" /\ IsOrderly(openings[call.opening]) => form'.opening # call.opening

FailsWith(s, failed) == failed = IF s = "idle" THEN {"answer"} ELSE {}

LEMMA EffectOK ==
    ASSUME PagesInv, NEW c \in PageCalls, callStep[c] = "save", OfAForm(calling[c]),
           ~ IsRepeat(calling[c]), UNCHANGED page,
           NEW s \in {"file", "show", "read", "idle"}, NEW m, CallComesTo(c, s, m),
           NEW n0, n0 = calling[c].opening,
           NEW r \in PageRows, NEW failed, FailsWith(s, failed), Effect(n0, r, failed),
           FormFollows(s, calling[c], m)
    PROVE  /\ FormsInv'
           /\ openings' \in [Openings -> OpeningRecords]
           /\ \A n \in Openings :
                 /\ openings'[n].form = openings[n].form
                 /\ \/ openings'[n].row = r
                    \/ /\ openings'[n].row = openings[n].row
                       /\ openings'[n].effects = openings[n].effects
<1>a. /\ IF s = "idle" THEN m.opening = 0 /\ form' = FormReleased(calling[c])
         ELSE /\ m.opening = n0
              /\ FormLetsGo
              /\ form'.opening = form.opening /\ form.opening # n0 => form' = form
              /\ s = "read" /\ IsOrderly(openings[n0]) => form'.opening # n0
      /\ failed = IF s = "idle" THEN {"answer"} ELSE {}
  BY DEF FormFollows, FailsWith
<1>1. PageTypeOK /\ CallsOnCourse /\ FormsInv
  BY DEF PagesInv
<1>2. /\ n0 \in Openings /\ calling[c].form \in page.forms
      /\ openings[n0].form = calling[c].form /\ n0 # 0
  BY <1>1, FormFacts DEF CallsOnCourse, CallOfItsOpening
<1>3. failed \in SUBSET {"answer", "file"}
  BY <1>a
<1>4. PICK o \in OpeningRecords :
         /\ OpeningComesTo(n0, o)
         /\ o = [form |-> openings[n0].form, row |-> r,
                 effects |-> openings[n0].effects + 1, again |-> openings[n0].again,
                 failed |-> openings[n0].failed \cup failed]
  BY <1>1, <1>2, <1>3, EffectFacts
<1>5. /\ openings'[n0] = o
      /\ \A n \in Openings \ {n0} : openings'[n] = openings[n]
      /\ openings' \in [Openings -> OpeningRecords]
  BY <1>1, <1>2, <1>4, OpeningTypes DEF OpeningComesTo
<1>6. \A n \in Openings :
         /\ openings'[n].form = openings[n].form
         /\ \/ openings'[n].row = r
            \/ /\ openings'[n].row = openings[n].row
               /\ openings'[n].effects = openings[n].effects
  BY <1>4, <1>5
<1>7. /\ callStep'[c] = s /\ calling'[c] = m
      /\ \A d \in PageCalls \ {c} : callStep'[d] = callStep[d] /\ calling'[d] = calling[d]
  BY DEF CallComesTo
<1>8. form' # NothingOpen => /\ form # NothingOpen
                            /\ form'.form = form.form /\ form'.opening = form.opening
                            /\ form'.row = form.row /\ form'.resend = form.resend
  <2>1. CASE s = "idle"
    <3>1. /\ form'.form = form.form /\ form'.opening = form.opening
          /\ form'.row = form.row /\ form'.resend = form.resend
      BY <1>1, <1>a, <2>1, ReleaseFacts
    <3>2. form = NothingOpen => form' = form
      BY <1>1, <1>2, <1>a, <2>1, FormFacts, ReleaseFacts
    <3>3. QED
      BY <3>1, <3>2
  <2>2. CASE s # "idle"
    BY <1>1, <1>a, <2>2, FormFacts DEF FormLetsGo
  <2>3. QED
    BY <2>1, <2>2
<1>9. FormOfItsOpening'
  BY <1>1, <1>6, <1>8, FormStays DEF FormsInv
<1>10. OpeningsInOrder'
  <2>1. openings[n0] # NotOpened
    BY <1>1, <1>2, NothingInHand, FormsOfAPage DEF PageTypeOK
  <2>2. QED
    BY <1>1, <1>5, <1>6, <2>1, OrderStays DEF FormsInv, PageTypeOK
<1>11. ASSUME NEW n \in Openings, n # n0 PROVE SavedOnce(n)'
  <2>1. SavedOnce(n) /\ openings'[n] = openings[n]
    BY <1>1, <1>5, <1>11 DEF FormsInv
  <2>2. \A d \in PageCalls : calling'[d].opening = n => d # c
    BY <1>1, <1>2, <1>7, <1>11, <1>a, FormFacts
  <2>3. form'.opening = n => form' = form
    <3>1. form'.opening = n => form' # NothingOpen
      BY <1>1, FormFacts
    <3>2. QED
      BY <1>1, <1>8, <1>11, <1>a, <3>1, ReleaseFacts DEF FormReleased
  <2>4. HasACall(n) => HasACall(n)'
    BY <1>7, <1>11 DEF HasACall
  <2>5. QED
    BY <1>7, <2>1, <2>2, <2>3, <2>4, SavedOnceStays
<1>12. SavedOnce(n0)'
  <2>0. PICK old \in OpeningRecords : old = openings[n0]
    BY <1>1, <1>2 DEF PageTypeOK
  <2>1. /\ o.form = old.form /\ o.effects = old.effects + 1 /\ o.again = old.again
        /\ o.failed = old.failed \cup failed
        /\ old.effects \in Nat
    BY <1>4, <2>0 DEF OpeningRecords
  <2>2. SavedOnce(n0)
    BY <1>1, <1>2 DEF FormsInv
  <2>3. o.form.twice # "again" => o.effects \in {0, 1}
    BY <1>2, <2>0, <2>1 DEF IsRepeat
  <2>4. "file" \in o.failed => o.form.file = "with-the-save"
    BY <1>a, <2>0, <2>1, <2>2 DEF SavedOnce
  <2>5. ASSUME IsOrderly(o)
        PROVE  /\ o.effects \in {0, 1}
               /\ \A d, e \in PageCalls :
                     calling'[d].opening = n0 /\ calling'[e].opening = n0 => d = e
               /\ \A d \in PageCalls : calling'[d].opening = n0 =>
                     /\ callStep'[d] = "save" => o.effects = 0
                     /\ callStep'[d] \in {"read", "show-list"} => form'.opening # n0
               /\ form'.opening = n0 =>
                     /\ o.form.holds # "never" /\ ~ form'.saving => ~ HasACall(n0)'
                     /\ /\ ~ form'.resend /\ ~ HasACall(n0)'
                        /\ o.form.holds = "for-good" => ~ form'.saving
                        => o.effects = 0
    <3>1. IsOrderly(old) /\ (o.form.holds = "for-good" \/ failed = {})
      BY <2>1, <2>5 DEF IsOrderly
    <3>2. /\ old.effects = 0
          /\ \A d \in PageCalls : calling[d].opening = n0 => d = c
      BY <2>0, <2>2, <3>1 DEF SavedOnce
    <3>3. \A d \in PageCalls : calling'[d].opening = n0 => d = c /\ s # "idle"
      BY <1>2, <1>7, <1>a, <3>2
    <3>4. form.opening = n0 => form.saving \/ old.form.holds = "never"
      BY <2>0, <2>2, <3>1 DEF SavedOnce, HasACall
    <3>5. CASE s = "idle"
      <4>1. o.form.holds = "for-good"
        BY <1>a, <3>1, <3>5
      <4>2. form' = form
        BY <1>1, <1>2, <1>a, <2>0, <2>1, <3>5, <4>1, ReleaseFacts
      <4>3. form'.opening = n0 => form'.saving
        BY <2>1, <3>4, <4>1, <4>2
      <4>4. QED
        BY <2>1, <3>2, <3>3, <3>5, <4>1, <4>3
    <3>6. CASE s # "idle"
      <4>1. m.opening = n0 /\ HasACall(n0)'
        BY <1>7, <1>a, <3>6 DEF HasACall
      <4>2. form'.opening = n0 => form' = form
        <5> SUFFICES ASSUME form'.opening = n0 PROVE form' = form
          OBVIOUS
        <5>1. form' # NothingOpen /\ form.opening = n0
          BY <1>1, <1>2, <1>8, FormFacts
        <5>2. QED
          BY <1>a, <2>0, <3>1, <3>6, <5>1 DEF FormLetsGo
      <4>3. s = "read" => form'.opening # n0
        BY <1>a, <2>0, <3>1, <3>6
      <4>4. QED
        BY <1>7, <2>1, <3>2, <3>3, <3>4, <4>1, <4>2, <4>3
    <3>7. QED
      BY <3>5, <3>6
  <2>6. QED
    BY <1>5, <2>3, <2>4, <2>5 DEF SavedOnce
<1>13. QED
  BY <1>5, <1>6, <1>9, <1>10, <1>11, <1>12 DEF FormsInv

LEMMA SaveOK ==
    ASSUME PagesInv, NEW c \in PageCalls, NEW r \in PageRows, Save(c, r)
    PROVE  PagesInv'
<1>0. PICK call \in PageCallRecords : call = calling[c]
  BY DEF PagesInv, PageTypeOK
<1>a. PICK n0, v : n0 = call.opening /\ v = row[r] + 1
  OBVIOUS
<1>1. /\ callStep[c] = "save" /\ ~ IsRepeat(calling[c]) /\ RowToSave(calling[c], r)
      /\ RowBecomes(r, v) /\ taken' = taken \cup {r}
      /\ UNCHANGED <<page, shown, loaded>>
  BY <1>a DEF Save, RowBecomes, PagesInv, PageTypeOK, Lists
<1>2. \/ /\ calling[c].form.file # "none"
         /\ Step(c, "file")
         /\ TakesRow(c, r, v)
         /\ Effect(n0, r, {})
         /\ UNCHANGED form
      \/ /\ Step(c, Then(calling[c].form))
         /\ TakesRow(c, r, v)
         /\ form' = AnswerForm(calling[c])
         /\ Effect(n0, r, {})
      \/ /\ EndTold(c, FALSE)
         /\ form' = FormReleased(calling[c])
         /\ Effect(n0, r, {"answer"})
  BY <1>0, <1>a DEF Save, TakesRow
<1>3. /\ PageTypeOK /\ CallsOnCourse /\ LoadedFirst /\ FormsInv /\ RowsAreTaken /\ ShownInv
      /\ CallOnCourse(callStep[c], call) /\ CallOfItsOpening(call) /\ OfAForm(call)
  BY <1>0, <1>1 DEF PagesInv, CallsOnCourse, CallOnCourse
<1>4. v \in Nat /\ r \in RowOrNo /\ loaded
  BY <1>0, <1>a, <1>3 DEF PageTypeOK, Lists, RowOrNo, LoadedFirst, OfAForm
<1>5. LoadedFirst'
  BY <1>1, <1>4 DEF LoadedFirst
<1>6. ASSUME NEW s \in {"file", "show", "read"}, Step(c, s),
             TakesRow(c, r, v), Effect(n0, r, {}),
             s = "read" => call.form.then \in {"reload", "window"},
             s = "show" => call.form.then \in {"patch", "captured"},
             form' \in OpenFormRecords, form'.row \in TakenRows, FormLetsGo,
             form'.opening = form.opening /\ form.opening # n0 => form' = form,
             s = "read" /\ call.form.then = "window" => form'.opening # n0
      PROVE  PagesInv'
  <2>1. PICK m \in PageCallRecords :
           /\ CallComesTo(c, s, m) /\ SameButAnswer(m, calling[c])
           /\ m.row = r /\ m.seen = v
           /\ UNCHANGED astray
    BY <1>3, <1>4, <1>6, RowAnswerFacts
  <2>2. /\ m.op = call.op /\ m.form = call.form /\ m.opening = call.opening
        /\ m.list = call.list
    BY <1>0, <2>1 DEF SameButAnswer
  <2>3. CallOnCourse(s, m) /\ CallOfItsOpening(m)
    BY <1>3, <1>6, <2>1, <2>2 DEF CallOnCourse, CallOfItsOpening, OfAForm
  <2>4. s = "read" /\ IsOrderly(openings[n0]) => form'.opening # n0
    <3>1. openings[n0].form = call.form /\ call.form \in page.forms
      BY <1>a, <1>3 DEF CallOfItsOpening
    <3>2. call.form.then = "reload" => ~ IsOrderly(openings[n0])
      BY <1>3, <3>1, FormsOfAPage DEF IsOrderly, PageTypeOK
    <3>3. QED
      BY <1>6, <3>2
  <2>5. /\ FormsInv'
        /\ openings' \in [Openings -> OpeningRecords]
        /\ \A n \in Openings :
              /\ openings'[n].form = openings[n].form
              /\ \/ openings'[n].row = r
                 \/ /\ openings'[n].row = openings[n].row
                    /\ openings'[n].effects = openings[n].effects
    <3>1. UNCHANGED page /\ s \in {"file", "show", "read", "idle"} /\ n0 = calling[c].opening
      BY <1>0, <1>a, <1>1
    <3>2. FailsWith(s, {})
      BY DEF FailsWith
    <3>3. FormFollows(s, calling[c], m)
      BY <1>0, <1>a, <1>6, <2>2, <2>4 DEF FormFollows
    <3>4. OfAForm(calling[c]) /\ callStep[c] = "save" /\ ~ IsRepeat(calling[c])
      BY <1>0, <1>1, <1>3
    <3>5. CallComesTo(c, s, m) /\ Effect(n0, r, {})
      BY <1>6, <2>1
    <3>6. QED
      BY <3>1, <3>2, <3>3, <3>4, <3>5, EffectOK
  <2>6. PageTypeOK' /\ CallsOnCourse' /\ RowsAreTaken'
    <3>1. s \in CallSteps /\ astray' \in BOOLEAN
      BY <1>3, <2>1 DEF CallSteps, PageTypeOK
    <3>2. QED
      BY <1>0, <1>1, <1>4, <1>6, <2>1, <2>2, <2>3, <2>5, <3>1, RowWritten
  <2>7. ~ astray => \A d \in InFlight : d # c => calling[d].row # r
    BY <1>0, <1>1, RowsApart DEF RowToSave
  <2>8. ~ astray /\ m.op \in {"edit", "act"} => shown[r] # 0
    <3>1. m.op \in {"edit", "act"} => r = calling[c].row /\ row[r] # 0
      BY <1>0, <1>1, <2>2 DEF RowToSave
    <3>2. ~ astray /\ r = calling[c].row => shown[r] = row[r]
      BY <1>1, <1>4, RowIsShown
    <3>3. QED
      BY <3>1, <3>2
  <2>9. ShownInv'
    <3>1. callStep[c] \in {"save", "remove", "file"} /\ callStep[c] # "file"
      BY <1>1
    <3>2. m.op = calling[c].op /\ m.form = calling[c].form /\ m.list = calling[c].list
      BY <1>0, <2>2
    <3>3. UNCHANGED <<shown, loaded, astray>> /\ RowBecomes(r, v)
      BY <1>1, <2>1
    <3>4. QED
      <4>1. ~ astray => PanelKept(s, m)
        BY <1>1, <1>3, <1>6, NotResending, FormFacts DEF PanelKept
      <4>2. QED
        BY <1>3, <1>4, <2>1, <2>7, <2>8, <3>1, <3>2, <3>3, <4>1, RowChanges
  <2>10. QED
    BY <1>5, <2>5, <2>6, <2>9 DEF PagesInv
<1>7. CASE /\ Step(c, "file")
           /\ TakesRow(c, r, v)
           /\ Effect(n0, r, {})
           /\ UNCHANGED form
  BY <1>3, <1>6, <1>7 DEF FormLetsGo, PageTypeOK, RowsAreTaken
<1>8. CASE /\ Step(c, Then(calling[c].form))
           /\ TakesRow(c, r, v)
           /\ form' = AnswerForm(calling[c])
           /\ Effect(n0, r, {})
  <2>1. /\ form' \in OpenFormRecords /\ form'.row \in TakenRows /\ FormLetsGo
        /\ call.form.then = "window" => form'.opening # n0
    BY <1>0, <1>a, <1>3, <1>8, AnswerFormFacts
  <2>2. /\ Then(call.form) \in {"read", "show"}
        /\ Then(call.form) = "read" => call.form.then \in {"reload", "window"}
        /\ Then(call.form) = "show" => call.form.then \in {"patch", "captured"}
    BY <1>0, <1>1, ThenFacts
  <2>3. form'.opening = form.opening /\ form.opening # n0 => form' = form
    <3> SUFFICES ASSUME form'.opening = form.opening, form.opening # n0 PROVE form' = form
      OBVIOUS
    <3>1. CASE form = NothingOpen
      BY <1>3, <2>1, <3>1 DEF FormLetsGo
    <3>2. CASE form # NothingOpen
      <4>1. form.opening \in Openings
        BY <1>3, <3>2 DEF FormsInv, FormOfItsOpening
      <4>2. form' # NothingOpen
        BY <1>3, <4>1, FormFacts
      <4>3. form' = form \/ form' = FormReleased(call)
        BY <1>0, <1>8, <4>2 DEF AnswerForm
      <4>4. QED
        BY <1>a, <1>3, <4>3, ReleaseFacts
    <3>3. QED
      BY <3>1, <3>2
  <2>4. QED
    BY <1>0, <1>6, <1>8, <2>1, <2>2, <2>3
<1>9. CASE /\ EndTold(c, FALSE)
           /\ form' = FormReleased(calling[c])
           /\ Effect(n0, r, {"answer"})
  <2>1. CallComesTo(c, "idle", NoPageCall) /\ astray'
    BY <1>3, <1>9, EndCallFacts
  <2>2. /\ CallOnCourse("idle", NoPageCall) /\ CallOfItsOpening(NoPageCall)
        /\ NoPageCall \in PageCallRecords /\ NoPageCall.opening = 0
        /\ NoPageCall.row = NoPageRow /\ NoPageCall.list = NoListShown
    BY NothingInHand DEF CallOnCourse, CallOfItsOpening, OfAForm
  <2>3. /\ form' \in OpenFormRecords /\ form'.row \in TakenRows
    BY <1>3, <1>9, ReleaseFacts DEF RowsAreTaken
  <2>4. /\ FormsInv'
        /\ openings' \in [Openings -> OpeningRecords]
        /\ \A n \in Openings :
              /\ openings'[n].form = openings[n].form
              /\ \/ openings'[n].row = r
                 \/ /\ openings'[n].row = openings[n].row
                    /\ openings'[n].effects = openings[n].effects
    <3>1. FailsWith("idle", {"answer"})
      BY DEF FailsWith
    <3>2. FormFollows("idle", calling[c], NoPageCall)
      BY <1>9, <2>2 DEF FormFollows
    <3>3. UNCHANGED page /\ n0 = calling[c].opening /\ OfAForm(calling[c])
      BY <1>0, <1>a, <1>1, <1>3
    <3>4. QED
      BY <1>1, <1>9, <2>1, <3>1, <3>2, <3>3, EffectOK
  <2>5. PageTypeOK' /\ CallsOnCourse' /\ RowsAreTaken'
    <3>1. "idle" \in CallSteps /\ astray' \in BOOLEAN
      BY <1>9 DEF CallSteps, EndTold
    <3>2. QED
      BY <1>1, <1>4, <2>1, <2>2, <2>3, <2>4, <3>1, RowWritten
  <2>6. ShownInv'
    BY <2>1 DEF ShownInv
  <2>7. QED
    BY <1>5, <2>4, <2>5, <2>6 DEF PagesInv
<1>10. QED
  BY <1>2, <1>7, <1>8, <1>9

\* The form after the answer of a save or of a file.
LEMMA AnsweredFormsOK ==
    ASSUME PagesInv, NEW c \in PageCalls, callStep[c] # "idle", OfAForm(calling[c]),
           NEW m, m.opening = calling[c].opening,
           CallComesTo(c, Then(calling[c].form), m),
           UNCHANGED <<page, openings>>, form' = AnswerForm(calling[c])
    PROVE  FormsInv' /\ form' \in OpenFormRecords /\ form'.row \in TakenRows /\ FormLetsGo
<1>0. PICK n0, s : n0 = calling[c].opening /\ s = Then(calling[c].form)
  OBVIOUS
<1>1. /\ form' \in OpenFormRecords /\ form'.row \in TakenRows
      /\ FormLetsGo
      /\ calling[c].form.then = "window" => form'.opening # n0
  BY <1>0, AnswerFormFacts
<1>2. s \in {"read", "show"} /\ (s = "read" => calling[c].form.then \in {"reload", "window"})
  BY <1>0, ThenFacts
<1>3. calling[c].form.then = "reload" => ~ IsOrderly(openings[n0])
  <2>1. openings[n0].form = calling[c].form /\ calling[c].form \in page.forms /\ page \in Pages
    BY <1>0 DEF PagesInv, CallsOnCourse, CallOfItsOpening, PageTypeOK
  <2>2. QED
    BY <2>1, FormsOfAPage DEF IsOrderly
<1>4. CallComesTo(c, s, m) /\ m.opening \in {0, n0}
  BY <1>0
<1>5. n0 \in Openings /\ IsOrderly(openings[n0]) =>
         /\ m.opening = n0 \/ form'.opening # n0
         /\ m.opening = n0 /\ s = "save" => callStep[c] = "save"
         /\ m.opening = n0 /\ s \in {"read", "show-list"} =>
               callStep[c] \in {"read", "show-list"} \/ form'.opening # n0
  BY <1>0, <1>1, <1>2, <1>3
<1>6. FormsInv'
  BY <1>0, <1>1, <1>4, <1>5, FormsStay
<1>7. QED
  BY <1>1, <1>6

LEMMA SaveTheSameOK ==
    ASSUME PagesInv, NEW c \in PageCalls, SaveTheSame(c)
    PROVE  PagesInv'
<1>0. PICK call \in PageCallRecords : call = calling[c]
  BY DEF PagesInv, PageTypeOK
<1>a. PICK n0, r, v : n0 = call.opening /\ r = openings[n0].row /\ v = row[r]
  OBVIOUS
<1>1. /\ callStep[c] = "save" /\ openings[n0].effects > 0 /\ call.form.twice = "same"
      /\ TakesRow(c, r, v) /\ form' = AnswerForm(calling[c]) /\ Step(c, Then(calling[c].form))
      /\ UNCHANGED <<page, row, taken, shown, loaded, openings>>
  BY <1>0, <1>a DEF SaveTheSame, IsRepeat, TakesRow
<1>2. /\ PageTypeOK /\ CallsOnCourse /\ LoadedFirst /\ FormsInv /\ RowsAreTaken /\ ShownInv
      /\ CallOnCourse(callStep[c], call) /\ CallOfItsOpening(call) /\ OfAForm(call)
  BY <1>0, <1>1 DEF PagesInv, CallsOnCourse, CallOnCourse
<1>3. call.form.then \in {"reload", "window"}
  BY <1>1, <1>2, FormsOfAPage DEF CallOfItsOpening, PageTypeOK
<1>4. Then(calling[c].form) = "read"
  BY <1>0, <1>3 DEF Then
<1>5. r \in PageRows /\ r \in RowOrNo /\ v \in Nat /\ r \in TakenRows
  <2>1. n0 \in Openings /\ openings[n0].effects # 0
    BY <1>a, <1>1, <1>2 DEF CallOfItsOpening
  <2>2. r \in PageRows /\ r \in TakenRows
    BY <1>a, <1>2, <2>1 DEF RowsAreTaken
  <2>3. QED
    BY <1>a, <1>2, <2>2 DEF RowOrNo, PageTypeOK, Lists
<1>6. PICK m \in PageCallRecords :
         /\ CallComesTo(c, "read", m) /\ SameButAnswer(m, calling[c])
         /\ m.row = r /\ m.seen = v
         /\ UNCHANGED astray
  BY <1>1, <1>2, <1>4, <1>5, RowAnswerFacts
<1>7. /\ m.op = call.op /\ m.form = call.form /\ m.opening = call.opening
      /\ m.list = call.list
  BY <1>0, <1>6 DEF SameButAnswer
<1>8. FormsInv' /\ form' \in OpenFormRecords /\ form'.row \in TakenRows /\ FormLetsGo
  <2>1. /\ callStep[c] # "idle" /\ OfAForm(calling[c]) /\ m.opening = calling[c].opening
        /\ CallComesTo(c, Then(calling[c].form), m)
    BY <1>0, <1>1, <1>2, <1>4, <1>6, <1>7
  <2>2. QED
    BY <1>1, <2>1, AnsweredFormsOK
<1>9. CallOnCourse("read", m) /\ CallOfItsOpening(m)
  BY <1>2, <1>3, <1>7 DEF CallOnCourse, CallOfItsOpening, OfAForm
<1>10. /\ m.row \in TakenRows /\ \A q \in PageRows : m.list[q] # 0 => q \in taken
       /\ "read" \in CallSteps
  BY <1>0, <1>2, <1>5, <1>6, <1>7 DEF RowsAreTaken, CallSteps
<1>11. ~ astray => \A d \in InFlight : d # c => ~ Disturb(m, calling[d])
  BY <1>0, <1>1, <1>2, <1>3 DEF ShownInv, Undisturbed, InFlight, Disturb, ShowsAList
<1>12. ReadyToShow("read", m) /\ (~ astray => PanelKept("read", m))
  BY <1>1, <1>2, <1>3, <1>7, <1>8, NotResending, FormFacts DEF ReadyToShow, PanelKept
<1>13. \A q \in PageRows : ~ Covers(callStep[c], calling[c], q)
  BY <1>1 DEF Covers
<1>14. /\ openings' \in [Openings -> OpeningRecords] /\ astray' = astray /\ astray' \in BOOLEAN
       /\ \A n \in Openings :
             /\ openings'[n].form = openings[n].form
             /\ openings'[n].row = openings[n].row
             /\ openings'[n].effects = openings[n].effects
  BY <1>1, <1>2, <1>6 DEF PageTypeOK
<1>15. PageTypeOK' /\ CallsOnCourse' /\ RowsAreTaken' /\ ShownInv'
  BY <1>1, <1>6, <1>8, <1>9, <1>10, <1>11, <1>12, <1>13, <1>14, QuietStepOK
<1>16. LoadedFirst'
  BY <1>0, <1>1, <1>2 DEF LoadedFirst, OfAForm
<1>17. QED
  BY <1>8, <1>15, <1>16 DEF PagesInv

LEMMA SendFileOK ==
    ASSUME PagesInv, NEW c \in PageCalls, SendFile(c)
    PROVE  PagesInv'
<1>0. PICK call \in PageCallRecords : call = calling[c]
  BY DEF PagesInv, PageTypeOK
<1>a. PICK r, v, s : r = call.row /\ v = row[r] + 1 /\ s = Then(call.form)
  OBVIOUS
<1>1. /\ callStep[c] = "file" /\ row[r] \in 1..(MaxEdits - 1)
      /\ RowBecomes(r, v) /\ TakesAnswer(c, v)
      /\ form' = AnswerForm(calling[c]) /\ Step(c, s)
      /\ UNCHANGED <<page, taken, shown, loaded, openings>>
  BY <1>0, <1>a DEF SendFile, RowBecomes, TakesAnswer, PagesInv, PageTypeOK, Lists
<1>2. /\ PageTypeOK /\ CallsOnCourse /\ LoadedFirst /\ FormsInv /\ RowsAreTaken /\ ShownInv
      /\ CallOnCourse(callStep[c], call) /\ CallOfItsOpening(call) /\ OfAForm(call)
  BY <1>0, <1>1 DEF PagesInv, CallsOnCourse, CallOnCourse
<1>3. r \in PageRows /\ r \in RowOrNo /\ v \in Nat /\ r \in taken
  <2>1. r \in PageRows
    BY <1>a, <1>1, <1>2 DEF CallOnCourse
  <2>2. row[r] \in Nat /\ row[r] # 0
    BY <1>1, <1>2, <2>1 DEF PageTypeOK, Lists
  <2>3. QED
    BY <1>a, <1>2, <2>1, <2>2 DEF RowOrNo, RowsAreTaken
<1>4. /\ s \in {"read", "show"}
      /\ s = "read" <=> call.form.then \in {"reload", "window"}
      /\ s = "show" => call.form.then \in {"patch", "captured"}
  BY <1>0, <1>a, <1>1, ThenFacts
<1>5. PICK m \in PageCallRecords :
         /\ CallComesTo(c, s, m) /\ SameButAnswer(m, calling[c])
         /\ m.row = calling[c].row /\ m.seen = v
         /\ UNCHANGED astray
  BY <1>1, <1>2, <1>3, SeenFacts
<1>6. /\ m.op = call.op /\ m.form = call.form /\ m.opening = call.opening
      /\ m.list = call.list /\ m.row = r
  BY <1>0, <1>a, <1>5 DEF SameButAnswer
<1>7. FormsInv' /\ form' \in OpenFormRecords /\ form'.row \in TakenRows /\ FormLetsGo
  <2>1. /\ callStep[c] # "idle" /\ OfAForm(calling[c]) /\ m.opening = calling[c].opening
        /\ CallComesTo(c, Then(calling[c].form), m)
    BY <1>0, <1>a, <1>1, <1>2, <1>5, <1>6
  <2>2. QED
    BY <1>1, <2>1, AnsweredFormsOK
<1>8. CallOnCourse(s, m) /\ CallOfItsOpening(m)
  BY <1>2, <1>3, <1>4, <1>6 DEF CallOnCourse, CallOfItsOpening, OfAForm
<1>9. PageTypeOK' /\ CallsOnCourse' /\ RowsAreTaken'
  <2>1. /\ s \in CallSteps /\ astray' \in BOOLEAN /\ taken' = taken \cup {r}
        /\ openings' \in [Openings -> OpeningRecords]
        /\ m.list = calling[c].list /\ m.row \in {r, NoPageRow}
        /\ UNCHANGED <<page, shown, loaded>>
    BY <1>0, <1>1, <1>2, <1>3, <1>4, <1>5, <1>6 DEF CallSteps, PageTypeOK
  <2>2. \A n \in Openings :
           /\ openings'[n].form = openings[n].form
           /\ \/ openings'[n].row = r
              \/ openings'[n].row = openings[n].row /\ openings'[n].effects = openings[n].effects
    BY <1>1
  <2>3. QED
    BY <1>1, <1>3, <1>5, <1>7, <1>8, <2>1, <2>2, RowWritten
<1>10. ShownInv'
  <2>1. ~ astray => \A d \in InFlight : d # c => calling[d].row # r
    BY <1>0, <1>a, <1>1, <1>3, RowsApart
  <2>2. ~ astray /\ m.op \in {"edit", "act"} /\ s # "read" => shown[r] # 0
    BY <1>0, <1>a, <1>1, <1>2, <1>4, <1>6 DEF ShownInv, ReadyToShow
  <2>3. /\ s \in {"file", "show", "read"} /\ callStep[c] \in {"save", "remove", "file"}
        /\ callStep[c] = "file" => calling[c].row = m.row
        /\ m.op = calling[c].op /\ m.form = calling[c].form /\ m.list = calling[c].list
        /\ UNCHANGED <<shown, loaded, astray>>
    BY <1>0, <1>1, <1>4, <1>5, <1>6
  <2>4. CallComesTo(c, s, m) /\ m.row = r /\ m.seen = v /\ RowBecomes(r, v)
    BY <1>1, <1>5, <1>6
  <2>5. ~ astray => PanelKept(s, m)
    <3>1. CASE form.resend /\ ~ astray
      <4>1. calling[c].opening = form.opening /\ form # NothingOpen
        BY <1>1, <1>2, <3>1, FormFacts DEF ShownInv, AtTheFile, InFlight
      <4>2. form.form = call.form /\ call.form.file = "apart" /\ call.form \in page.forms
        BY <1>0, <1>2, <3>1, <4>1 DEF FormsInv, FormOfItsOpening, CallOfItsOpening
      <4>3. call.form.then = "window"
        BY <1>2, <4>2, FormsOfAPage DEF PageTypeOK
      <4>4. form' = NothingOpen
        BY <1>0, <1>1, <4>2, <4>3 DEF AnswerForm
      <4>5. s = "read"
        BY <1>4, <4>3
      <4>6. QED
        BY <4>4, <4>5, NothingInHand DEF PanelKept, AtTheFile, Covers
    <3>2. CASE ~ form.resend
      BY <1>2, <1>7, <3>2, FormFacts DEF PanelKept
    <3>3. QED
      BY <3>1, <3>2
  <2>6. QED
    BY <1>2, <1>3, <2>1, <2>2, <2>3, <2>4, <2>5, RowChanges
<1>11. LoadedFirst'
  BY <1>0, <1>1, <1>2 DEF LoadedFirst, OfAForm
<1>12. QED
  BY <1>7, <1>9, <1>10, <1>11 DEF PagesInv

\* A call ends without its form, which may be saved again.
LEMMA FormFailsOK ==
    ASSUME PagesInv, NEW c \in PageCalls, callStep[c] \in {"save", "file"},
           OfAForm(calling[c]), CallComesTo(c, "idle", NoPageCall),
           form' = FormReleased(calling[c]), UNCHANGED page,
           NEW n0, n0 = calling[c].opening, NEW o \in OpeningRecords, OpeningComesTo(n0, o),
           o.form = openings[n0].form, o.row = openings[n0].row,
           o.effects = openings[n0].effects, o.again = openings[n0].again,
           callStep[c] = "save" => o.failed = openings[n0].failed,
           callStep[c] = "file" => "file" \in o.failed /\ o.form.file = "with-the-save"
    PROVE  /\ FormsInv'
           /\ form' \in OpenFormRecords /\ form'.row \in TakenRows
           /\ openings' \in [Openings -> OpeningRecords]
           /\ \A n \in Openings :
                 /\ openings'[n].form = openings[n].form
                 /\ openings'[n].row = openings[n].row
                 /\ openings'[n].effects = openings[n].effects
<1>1. PageTypeOK /\ CallsOnCourse /\ FormsInv /\ RowsAreTaken
  BY DEF PagesInv
<1>2. /\ n0 \in Openings /\ calling[c].form \in page.forms
      /\ openings[n0].form = calling[c].form /\ n0 # 0
  BY <1>1, FormFacts DEF CallsOnCourse, CallOfItsOpening
<1>3. /\ openings'[n0] = o
      /\ \A n \in Openings \ {n0} : openings'[n] = openings[n]
      /\ openings' \in [Openings -> OpeningRecords]
  BY <1>1, <1>2, OpeningTypes DEF OpeningComesTo
<1>4. \A n \in Openings :
         /\ openings'[n].form = openings[n].form
         /\ openings'[n].row = openings[n].row
         /\ openings'[n].effects = openings[n].effects
  BY <1>3
<1>5. /\ callStep'[c] = "idle" /\ calling'[c].opening = 0
      /\ \A d \in PageCalls \ {c} : callStep'[d] = callStep[d] /\ calling'[d] = calling[d]
  BY NothingInHand DEF CallComesTo
<1>6. /\ form' \in OpenFormRecords /\ form'.row \in TakenRows
      /\ form'.form = form.form /\ form'.opening = form.opening
      /\ form.opening # n0 \/ calling[c].form.holds = "for-good" => form' = form
  BY <1>1, ReleaseFacts DEF RowsAreTaken
<1>7. form' # NothingOpen => form # NothingOpen
  BY <1>1, <1>2, <1>6, FormFacts
<1>8. FormOfItsOpening'
  <2>1. form'.row = form.row /\ form'.resend = form.resend
    BY <1>1, ReleaseFacts
  <2>2. QED
    BY <1>1, <1>4, <1>6, <1>7, <2>1, FormStays DEF FormsInv
<1>9. OpeningsInOrder'
  <2>1. openings[n0] # NotOpened
    BY <1>1, <1>2, NothingInHand, FormsOfAPage DEF PageTypeOK
  <2>2. QED
    BY <1>1, <1>3, <1>4, <2>1, OrderStays DEF FormsInv, PageTypeOK
<1>10. ASSUME NEW n \in Openings, n # n0 PROVE SavedOnce(n)'
  <2>1. SavedOnce(n) /\ openings'[n] = openings[n]
    BY <1>1, <1>3, <1>10 DEF FormsInv
  <2>2. \A d \in PageCalls : calling'[d].opening = n => d # c
    BY <1>1, <1>2, <1>5, <1>10, FormFacts
  <2>3. form'.opening = n => form' = form
    BY <1>6, <1>10
  <2>4. HasACall(n) => HasACall(n)'
    BY <1>5, <1>10 DEF HasACall
  <2>5. QED
    BY <1>5, <2>1, <2>2, <2>3, <2>4, SavedOnceStays
<1>11. SavedOnce(n0)'
  <2>1. SavedOnce(n0)
    BY <1>1, <1>2 DEF FormsInv
  <2>2. /\ o.form.twice # "again" => o.effects \in {0, 1}
        /\ "file" \in o.failed => o.form.file = "with-the-save"
    BY <2>1 DEF SavedOnce
  <2>3. ASSUME IsOrderly(o)
        PROVE  /\ o.effects \in {0, 1}
               /\ \A d \in PageCalls : calling'[d].opening # n0
               /\ form'.opening = n0 => \/ o.effects = 0
                                        \/ o.form.holds = "for-good" /\ form'.saving
    <3>1. callStep[c] = "file" => o.form.holds = "for-good"
      BY <2>3 DEF IsOrderly
    <3>2. IsOrderly(openings[n0])
      BY <2>3, <3>1 DEF IsOrderly
    <3>3. /\ openings[n0].effects \in {0, 1}
          /\ \A d \in PageCalls : calling[d].opening = n0 => d = c
          /\ callStep[c] = "save" => openings[n0].effects = 0
          /\ form.opening = n0 => form.saving \/ o.form.holds = "never"
      BY <2>1, <3>2 DEF SavedOnce, HasACall
    <3>4. \A d \in PageCalls : calling'[d].opening # n0
      BY <1>2, <1>5, <3>3
    <3>5. callStep[c] = "file" /\ form'.opening = n0 => o.form.holds = "for-good" /\ form'.saving
      BY <1>2, <1>6, <3>1, <3>3
    <3>6. QED
      BY <3>3, <3>4, <3>5
  <2>4. QED
    BY <1>3, <2>2, <2>3 DEF SavedOnce, HasACall
<1>12. QED
  BY <1>3, <1>4, <1>6, <1>8, <1>9, <1>10, <1>11 DEF FormsInv

\* A call that ends has nothing in its hands.
LEMMA EndedCall ==
    /\ CallOnCourse("idle", NoPageCall) /\ CallOfItsOpening(NoPageCall)
    /\ NoPageCall \in PageCallRecords /\ NoPageCall.opening = 0
    /\ NoPageCall.row = NoPageRow /\ NoPageCall.row \in TakenRows
    /\ NoPageCall.list = NoListShown
    /\ \A r \in PageRows : NoPageCall.list[r] # 0 => r \in taken
    /\ ReadyToShow("idle", NoPageCall)
    /\ "idle" \in CallSteps
  BY NothingInHand
  DEF CallOnCourse, CallOfItsOpening, OfAForm, TakenRows, ReadyToShow, CallSteps

LEMMA SaveFailsOK ==
    ASSUME PagesInv, NEW c \in PageCalls, SaveFails(c)
    PROVE  PagesInv'
<1>0. PICK n0 : n0 = calling[c].opening
  OBVIOUS
<1>1. /\ callStep[c] = "save" /\ form' = FormReleased(calling[c]) /\ EndTold(c, TRUE)
      /\ UNCHANGED <<page, row, taken, shown, loaded, openings>>
  BY DEF SaveFails, End
<1>2. /\ PageTypeOK /\ CallsOnCourse /\ LoadedFirst /\ OfAForm(calling[c])
      /\ CallOfItsOpening(calling[c])
  BY <1>1 DEF PagesInv, CallsOnCourse, CallOnCourse
<1>3. CallComesTo(c, "idle", NoPageCall) /\ astray' = astray
  BY <1>1, <1>2, EndCallFacts DEF PageTypeOK
<1>4. PICK o \in OpeningRecords : o = openings[n0] /\ OpeningComesTo(n0, o)
  BY <1>0, <1>1, <1>2 DEF CallOfItsOpening, PageTypeOK, OpeningComesTo
<1>5. /\ FormsInv'
      /\ form' \in OpenFormRecords /\ form'.row \in TakenRows
      /\ openings' \in [Openings -> OpeningRecords]
      /\ \A n \in Openings :
            /\ openings'[n].form = openings[n].form
            /\ openings'[n].row = openings[n].row
            /\ openings'[n].effects = openings[n].effects
  <2>1. /\ callStep[c] \in {"save", "file"} /\ callStep[c] # "file"
        /\ o.form = openings[n0].form /\ o.row = openings[n0].row
        /\ o.effects = openings[n0].effects /\ o.again = openings[n0].again
        /\ o.failed = openings[n0].failed
        /\ UNCHANGED page
    BY <1>1, <1>4
  <2>2. QED
    BY <1>0, <1>1, <1>2, <1>3, <1>4, <2>1, FormFailsOK
<1>6. /\ \A r \in PageRows : ~ Covers(callStep[c], calling[c], r)
      /\ astray' \in BOOLEAN
  BY <1>1, <1>2, <1>3 DEF Covers, PageTypeOK
<1>a. ~ astray' => PanelKept("idle", NoPageCall)
  BY <1>1, <1>2, <1>3, NotResending, ReleaseFacts DEF PanelKept
<1>7. PageTypeOK' /\ CallsOnCourse' /\ RowsAreTaken' /\ ShownInv'
  BY <1>1, <1>3, <1>5, <1>6, <1>a, EndedCall, QuietStepOK
<1>8. LoadedFirst'
  BY <1>1, <1>2 DEF LoadedFirst, OfAForm
<1>9. QED
  BY <1>5, <1>7, <1>8 DEF PagesInv

\* The file is left to send again, or nobody is there to.
LEMMA FileToResendOK ==
    ASSUME PagesInv, NEW c \in PageCalls, callStep[c] = "file",
           NEW call, call = calling[c], NEW n0, n0 = call.opening, call.form.file = "apart",
           UNCHANGED <<page, row, taken, shown, loaded, openings>>,
           EndTold(c, form.opening = n0),
           form' = IF form.opening = n0
                   THEN [form EXCEPT !.row = call.row, !.saving = FALSE, !.resend = TRUE]
                   ELSE form
    PROVE  PagesInv'
<1>1. /\ PageTypeOK /\ CallsOnCourse /\ LoadedFirst /\ FormsInv /\ RowsAreTaken /\ ShownInv
      /\ OfAForm(call) /\ CallOfItsOpening(call) /\ CallOnCourse("file", call)
  BY DEF PagesInv, CallsOnCourse, CallOnCourse
<1>2. /\ n0 \in Openings /\ call.form \in page.forms /\ openings[n0].form = call.form
      /\ call.form.then = "window" /\ call.row \in PageRows /\ call.row \in TakenRows
  <2>1. n0 \in Openings /\ call.form \in page.forms /\ openings[n0].form = call.form
    BY <1>1 DEF CallOfItsOpening
  <2>2. call.form.then = "window"
    BY <1>1, <2>1, FormsOfAPage DEF PageTypeOK
  <2>3. call.row \in PageRows /\ call.row \in TakenRows
    BY <1>1 DEF CallOnCourse, RowsAreTaken
  <2>4. QED
    BY <2>1, <2>2, <2>3
<1>3. CallComesTo(c, "idle", NoPageCall)
  BY <1>1, EndCallFacts
<1>4. astray' = (astray \/ form.opening # n0)
  BY DEF EndTold
<1>5. LoadedFirst'
  BY <1>1 DEF LoadedFirst, OfAForm
<1>6. /\ callStep'[c] = "idle" /\ calling'[c].opening = 0
      /\ \A d \in PageCalls \ {c} : callStep'[d] = callStep[d] /\ calling'[d] = calling[d]
  BY <1>3, NothingInHand DEF CallComesTo
<1>7. /\ openings' \in [Openings -> OpeningRecords] /\ astray' \in BOOLEAN
      /\ \A n \in Openings :
            /\ openings'[n].form = openings[n].form
            /\ openings'[n].row = openings[n].row
            /\ openings'[n].effects = openings[n].effects
  BY <1>1, <1>4 DEF PageTypeOK
<1>8. CASE form.opening # n0
  <2>1. form' = form /\ astray'
    BY <1>4, <1>8
  <2>2. FormsInv'
    <3>1. NoPageCall.opening = 0
      BY EndedCall
    <3>2. QED
      BY <1>3, <1>8, <2>1, <3>1, FormsStay DEF FormLetsGo
  <2>3. form' \in OpenFormRecords /\ form'.row \in TakenRows
    BY <1>1, <2>1 DEF PageTypeOK, RowsAreTaken
  <2>4. PageTypeOK' /\ CallsOnCourse' /\ RowsAreTaken' /\ ShownInv'
    BY <1>3, <1>7, <2>1, <2>3, EndedCall, QuietStepOK
  <2>5. QED
    BY <1>5, <2>2, <2>4 DEF PagesInv
<1>9. CASE form.opening = n0
  <2>1. form # NothingOpen /\ form.form = call.form
    BY <1>1, <1>2, <1>9, FormFacts DEF FormsInv, FormOfItsOpening
  <2>2. /\ form' \in OpenFormRecords
        /\ form'.form = form.form /\ form'.opening = n0 /\ form'.row = call.row
        /\ ~ form'.saving /\ form'.resend
    <3>1. form' = [form |-> form.form, opening |-> form.opening, row |-> call.row,
                   saving |-> FALSE, resend |-> TRUE]
      BY <1>1, <1>9 DEF PageTypeOK, OpenFormRecords
    <3>2. QED
      BY <1>1, <1>2, <1>9, <3>1 DEF PageTypeOK, OpenFormRecords, RowOrNo
  <2>3. FormOfItsOpening'
    BY <1>2, <2>1, <2>2 DEF FormOfItsOpening
  <2>4. OpeningsInOrder'
    BY <1>1, OrderStays DEF FormsInv, PageTypeOK
  <2>5. ASSUME NEW n \in Openings PROVE SavedOnce(n)'
    <3>1. SavedOnce(n)
      BY <1>1 DEF FormsInv
    <3>2. CASE n # n0
      <4>1. \A d \in PageCalls : calling'[d].opening = n => d # c
        BY <1>1, <1>6, FormFacts
      <4>2. openings'[n] = openings[n] /\ form'.opening # n
        BY <2>2, <3>2
      <4>3. \A d \in PageCalls : calling'[d].opening = n =>
               calling[d].opening = n /\ callStep'[d] = callStep[d]
        BY <1>6, <4>1
      <4>4. QED
        BY <3>1, <4>2, <4>3, SavedOnceStays
    <3>3. CASE n = n0 /\ IsOrderly(openings[n0])
      <4>1. \A d \in PageCalls : calling[d].opening = n0 => d = c
        BY <3>1, <3>3 DEF SavedOnce
      <4>2. \A d \in PageCalls : calling'[d].opening # n0
        BY <1>1, <1>2, <1>6, <4>1, FormFacts
      <4>3. QED
        BY <2>2, <3>1, <3>3, <4>2 DEF SavedOnce, HasACall
    <3>4. CASE n = n0 /\ ~ IsOrderly(openings[n0])
      BY <3>1, <3>4 DEF SavedOnce
    <3>5. QED
      BY <3>2, <3>3, <3>4
  <2>6. form'.row \in TakenRows /\ (astray => astray')
    BY <1>2, <1>4, <2>2
  <2>7. ~ astray' => PanelKept("idle", NoPageCall)
    <3>1. ASSUME ~ astray, NEW d \in InFlight', d # c PROVE FALSE
      <4>1. d \in InFlight /\ c \in InFlight
        BY <1>6, <3>1 DEF InFlight
      <4>2. ~ Disturb(calling[c], calling[d])
        BY <1>1, <3>1, <4>1 DEF ShownInv, Undisturbed
      <4>3. QED
        BY <1>2, <4>2 DEF Disturb, ShowsAList
    <3>2. c \notin InFlight'
      BY <1>6 DEF InFlight
    <3>3. QED
      BY <1>4, <2>2, <3>1, <3>2 DEF PanelKept, AtTheFile
  <2>8. PageTypeOK' /\ CallsOnCourse' /\ RowsAreTaken' /\ ShownInv'
    BY <1>3, <1>7, <2>2, <2>6, <2>7, EndedCall, QuietStepOK
  <2>9. QED
    BY <1>5, <2>3, <2>4, <2>5, <2>8 DEF PagesInv, FormsInv
<1>10. QED
  BY <1>8, <1>9

LEMMA FileFailsOK ==
    ASSUME PagesInv, NEW c \in PageCalls, FileFails(c)
    PROVE  PagesInv'
<1>0. PICK call, n0, s :
         call \in PageCallRecords /\ call = calling[c] /\ n0 = call.opening /\ s = Then(call.form)
  BY DEF PagesInv, PageTypeOK
<1>1. /\ callStep[c] = "file"
      /\ UNCHANGED <<page, row, taken, shown, loaded>>
  BY DEF FileFails
<1>2. \/ /\ FileFailsTheSave(call.form) /\ EndTold(c, FALSE)
         /\ form' = FormReleased(calling[c])
         /\ openings' = [openings EXCEPT ![n0].failed = @ \cup {"file"}]
      \/ /\ ~ FileFailsTheSave(call.form) /\ call.form.file = "apart"
         /\ EndTold(c, form.opening = n0)
         /\ form' = IF form.opening = n0
                    THEN [form EXCEPT !.row = call.row, !.saving = FALSE, !.resend = TRUE]
                    ELSE form
         /\ UNCHANGED openings
      \/ /\ call.form.file # "apart"
         /\ Step(c, s) /\ form' = AnswerForm(calling[c])
         /\ UNCHANGED <<calling, openings>>
  BY <1>0 DEF FileFails
<1>3. /\ PageTypeOK /\ CallsOnCourse /\ LoadedFirst /\ RowsAreTaken /\ ShownInv
      /\ OfAForm(call) /\ CallOfItsOpening(call) /\ CallOnCourse(callStep[c], call)
  BY <1>0, <1>1 DEF PagesInv, CallsOnCourse, CallOnCourse
<1>4. LoadedFirst'
  BY <1>0, <1>1, <1>3 DEF LoadedFirst, OfAForm
<1>5. CASE /\ FileFailsTheSave(call.form) /\ EndTold(c, FALSE)
           /\ form' = FormReleased(calling[c])
           /\ openings' = [openings EXCEPT ![n0].failed = @ \cup {"file"}]
  <2>0. PICK old \in OpeningRecords : n0 \in Openings /\ old = openings[n0]
    BY <1>0, <1>3 DEF CallOfItsOpening, PageTypeOK
  <2>1. PICK fs, o : fs = old.failed \cup {"file"} /\ o = [old EXCEPT !.failed = fs]
    OBVIOUS
  <2>2. fs \in SUBSET {"answer", "file"}
    BY <2>0, <2>1 DEF OpeningRecords
  <2>3. o = [form |-> old.form, row |-> old.row, effects |-> old.effects,
             again |-> old.again, failed |-> fs]
    BY <2>1, <2>2, OpeningEdits
  <2>4. o \in OpeningRecords
    BY <2>2, <2>3 DEF OpeningRecords
  <2>5. openings' = [openings EXCEPT ![n0] = o]
    BY <1>5, <2>0, <2>1
  <2>6. OpeningComesTo(n0, o)
    BY <1>3, <2>0, <2>4, <2>5, OpeningFacts
  <2>7. CallComesTo(c, "idle", NoPageCall) /\ astray' = TRUE
    BY <1>3, <1>5, EndCallFacts
  <2>8. /\ FormsInv'
        /\ form' \in OpenFormRecords /\ form'.row \in TakenRows
        /\ openings' \in [Openings -> OpeningRecords]
        /\ \A n \in Openings :
              /\ openings'[n].form = openings[n].form
              /\ openings'[n].row = openings[n].row
              /\ openings'[n].effects = openings[n].effects
    <3>1. /\ callStep[c] \in {"save", "file"} /\ callStep[c] # "save"
          /\ o.form = openings[n0].form /\ o.row = openings[n0].row
          /\ o.effects = openings[n0].effects /\ o.again = openings[n0].again
          /\ "file" \in o.failed
      BY <1>1, <2>0, <2>1, <2>3
    <3>2. o.form.file = "with-the-save"
      BY <1>0, <1>3, <1>5, <3>1 DEF CallOfItsOpening, FileFailsTheSave
    <3>3. OfAForm(calling[c]) /\ n0 = calling[c].opening
      BY <1>0, <1>3
    <3>4. QED
      BY <1>1, <1>5, <2>4, <2>6, <2>7, <3>1, <3>2, <3>3, FormFailsOK
  <2>9. PageTypeOK' /\ CallsOnCourse' /\ RowsAreTaken' /\ ShownInv'
    BY <1>1, <2>7, <2>8, EndedCall, QuietStepOK
  <2>10. QED
    BY <1>4, <2>8, <2>9 DEF PagesInv
<1>6. CASE /\ call.form.file # "apart"
           /\ Step(c, s) /\ form' = AnswerForm(calling[c])
           /\ UNCHANGED <<calling, openings>>
  <2>1. CallComesTo(c, s, call) /\ astray' = astray /\ call \in PageCallRecords
    BY <1>0, <1>3, <1>6 DEF CallComesTo, Step, PageTypeOK
  <2>2. /\ s \in {"read", "show"}
        /\ s = "read" <=> call.form.then \in {"reload", "window"}
        /\ s = "show" => call.form.then \in {"patch", "captured"}
    BY <1>0, <1>1, ThenFacts
  <2>3. FormsInv' /\ form' \in OpenFormRecords /\ form'.row \in TakenRows /\ FormLetsGo
    <3>1. /\ callStep[c] # "idle" /\ OfAForm(calling[c]) /\ call.opening = calling[c].opening
          /\ CallComesTo(c, Then(calling[c].form), call)
      BY <1>0, <1>1, <1>3, <2>1
    <3>2. QED
      BY <1>1, <1>6, <3>1, AnsweredFormsOK
  <2>4. CallOnCourse(s, call)
    BY <1>1, <1>3, <2>2 DEF CallOnCourse, OfAForm
  <2>5. /\ call.row \in TakenRows /\ \A q \in PageRows : call.list[q] # 0 => q \in taken
        /\ s \in CallSteps
    BY <1>0, <1>3, <2>2 DEF RowsAreTaken, CallSteps
  <2>6. ~ astray => /\ \A d \in InFlight : d # c => ~ Disturb(call, calling[d])
                    /\ ReadyToShow(callStep[c], call)
    BY <1>0, <1>1, <1>3 DEF ShownInv, Undisturbed, InFlight
  <2>7. ReadyToShow(callStep[c], call) => ReadyToShow(s, call)
    BY <1>1, <2>2 DEF ReadyToShow
  <2>8. \A q \in PageRows : Covers(callStep[c], calling[c], q) => Covers(s, call, q)
    BY <1>0, <1>1, <2>2 DEF Covers
  <2>9. /\ openings' \in [Openings -> OpeningRecords] /\ astray' \in BOOLEAN
        /\ \A n \in Openings :
              /\ openings'[n].form = openings[n].form
              /\ openings'[n].row = openings[n].row
              /\ openings'[n].effects = openings[n].effects
    BY <1>3, <1>6, <2>1 DEF PageTypeOK
  <2>10. ~ astray => PanelKept(s, call)
    <3>1. ASSUME ~ astray, form.resend PROVE FALSE
      <4>1. call.opening = form.opening /\ form # NothingOpen
        BY <1>0, <1>1, <1>3, <3>1, FormFacts DEF ShownInv, AtTheFile, InFlight
      <4>2. form.form = call.form /\ form.form.file = "apart"
        BY <1>3, <3>1, <4>1 DEF PagesInv, FormsInv, FormOfItsOpening, CallOfItsOpening
      <4>3. QED
        BY <1>6, <4>2
    <3>2. QED
      BY <1>3, <2>3, <3>1, FormFacts DEF PanelKept
  <2>11. PageTypeOK' /\ CallsOnCourse' /\ RowsAreTaken' /\ ShownInv'
    BY <1>1, <1>3, <2>1, <2>3, <2>4, <2>5, <2>6, <2>7, <2>8, <2>9, <2>10, QuietStepOK
  <2>12. QED
    BY <1>4, <2>3, <2>11 DEF PagesInv
<1>7. CASE /\ call.form.file = "apart"
           /\ EndTold(c, form.opening = n0)
           /\ form' = IF form.opening = n0
                      THEN [form EXCEPT !.row = call.row, !.saving = FALSE, !.resend = TRUE]
                      ELSE form
           /\ UNCHANGED openings
  BY <1>0, <1>1, <1>7, FileToResendOK
<1>8. QED
  BY <1>2, <1>5, <1>6, <1>7

LEMMA RemoveOK ==
    ASSUME PagesInv, NEW c \in PageCalls, Remove(c)
    PROVE  PagesInv'
<1>0. PICK call, s, r :
         call \in PageCallRecords /\ call = calling[c] /\ s = Then(call.form) /\ r = call.row
  BY DEF PagesInv, PageTypeOK
<1>1. /\ callStep[c] = "remove" /\ row[r] # 0 /\ RowBecomes(r, 0) /\ TakesAnswer(c, 0)
      /\ Step(c, s)
      /\ UNCHANGED <<page, taken, shown, loaded, form, openings>>
  BY <1>0 DEF Remove, RowBecomes, TakesAnswer
<1>2. /\ PageTypeOK /\ CallsOnCourse /\ LoadedFirst /\ RowsAreTaken /\ ShownInv
      /\ CallOnCourse(callStep[c], call)
  BY <1>0 DEF PagesInv, CallsOnCourse
<1>3. /\ r \in PageRows /\ r \in taken /\ call.op = "remove" /\ call.opening = 0
  BY <1>0, <1>1, <1>2 DEF CallOnCourse, RowsAreTaken
<1>4. /\ s \in {"read", "show"}
      /\ s = "read" <=> call.form.then \in {"reload", "window"}
      /\ s = "show" => call.form.then \in {"patch", "captured"}
  BY <1>0, <1>1, ThenFacts
<1>5. PICK m \in PageCallRecords :
         /\ CallComesTo(c, s, m) /\ SameButAnswer(m, calling[c])
         /\ m.row = calling[c].row /\ m.seen = 0
         /\ UNCHANGED astray
  BY <1>1, <1>2, SeenFacts
<1>6. /\ m.op = "remove" /\ m.form = call.form /\ m.opening = 0
      /\ m.list = call.list /\ m.row = r
  BY <1>0, <1>3, <1>5 DEF SameButAnswer
<1>7. FormsInv'
  <2>1. calling[c].opening = 0 /\ m.opening \in {0} /\ 0 \notin Openings
    BY <1>0, <1>2, <1>3, <1>6, FormFacts
  <2>2. QED
    BY <1>1, <1>5, <2>1, FormsStay DEF FormLetsGo
<1>8. CallOnCourse(s, m) /\ CallOfItsOpening(m)
  BY <1>1, <1>2, <1>3, <1>4, <1>5, <1>6 DEF CallOnCourse, CallOfItsOpening, OfAForm
<1>9. PageTypeOK' /\ CallsOnCourse' /\ RowsAreTaken'
  <2>1. /\ s \in CallSteps /\ astray' \in BOOLEAN /\ taken' = taken \cup {r}
        /\ openings' \in [Openings -> OpeningRecords]
        /\ m.list = calling[c].list /\ m.row \in {r, NoPageRow}
        /\ form' \in OpenFormRecords /\ form'.row \in TakenRows
        /\ UNCHANGED <<page, shown, loaded>>
    BY <1>0, <1>1, <1>2, <1>3, <1>4, <1>5, <1>6 DEF CallSteps, PageTypeOK, RowsAreTaken
  <2>2. \A n \in Openings :
           /\ openings'[n].form = openings[n].form
           /\ \/ openings'[n].row = r
              \/ openings'[n].row = openings[n].row /\ openings'[n].effects = openings[n].effects
    BY <1>1
  <2>3. QED
    BY <1>1, <1>3, <1>5, <1>8, <2>1, <2>2, RowWritten
<1>10. ShownInv'
  <2>1. ~ astray => \A d \in InFlight : d # c => calling[d].row # r
    BY <1>0, <1>1, <1>3, RowsApart
  <2>2. /\ s \in {"file", "show", "read"} /\ callStep[c] \in {"save", "remove", "file"}
        /\ callStep[c] = "file" => calling[c].row = m.row
        /\ m.op = calling[c].op /\ m.form = calling[c].form /\ m.list = calling[c].list
        /\ UNCHANGED <<shown, loaded, astray>> /\ m.op \notin {"edit", "act"}
    BY <1>0, <1>1, <1>3, <1>4, <1>5, <1>6
  <2>3. CallComesTo(c, s, m) /\ m.row = r /\ m.seen = 0 /\ RowBecomes(r, 0)
    BY <1>1, <1>5, <1>6
  <2>4. ~ astray => PanelKept(s, m)
    BY <1>1, NotResending DEF PanelKept
  <2>5. QED
    BY <1>2, <1>3, <2>1, <2>2, <2>3, <2>4, RowChanges
<1>11. LoadedFirst'
  BY <1>0, <1>1, <1>2, <1>3 DEF LoadedFirst
<1>12. QED
  BY <1>7, <1>9, <1>10, <1>11 DEF PagesInv

LEMMA RemoveFailsOK ==
    ASSUME PagesInv, NEW c \in PageCalls, RemoveFails(c)
    PROVE  PagesInv'
<1>0. PICK r : r = calling[c].row
  OBVIOUS
<1>1. /\ callStep[c] = "remove"
      /\ UNCHANGED <<page, taken, shown, loaded, form, openings>>
  BY DEF RemoveFails
<1>2. \/ EndTold(c, TRUE) /\ UNCHANGED row
      \/ EndTold(c, FALSE) /\ RowBecomes(r, 0)
  BY <1>0 DEF RemoveFails, End, RowBecomes
<1>3. /\ PageTypeOK /\ CallsOnCourse /\ LoadedFirst /\ RowsAreTaken /\ ShownInv
      /\ CallOnCourse(callStep[c], calling[c])
  BY DEF PagesInv, CallsOnCourse
<1>4. r \in PageRows /\ r \in taken /\ calling[c].op = "remove" /\ calling[c].opening = 0
  <2>1. r \in PageRows /\ calling[c].op = "remove" /\ calling[c].opening = 0
    BY <1>0, <1>1, <1>3 DEF CallOnCourse
  <2>2. r \in taken
    BY <1>0, <1>3, <2>1, PageRowsAssumption DEF RowsAreTaken, TakenRows
  <2>3. QED
    BY <2>1, <2>2
<1>5. CallComesTo(c, "idle", NoPageCall)
  BY <1>2, <1>3, EndCallFacts
<1>6. FormsInv'
  <2>1. NoPageCall.opening = 0 /\ 0 \notin Openings
    BY <1>3, EndedCall, FormFacts
  <2>2. QED
    BY <1>1, <1>4, <1>5, <2>1, FormsStay DEF FormLetsGo
<1>7. LoadedFirst'
  BY <1>1, <1>3, <1>4 DEF LoadedFirst
<1>8. /\ openings' \in [Openings -> OpeningRecords]
      /\ form' \in OpenFormRecords /\ form'.row \in TakenRows
      /\ \A n \in Openings :
            /\ openings'[n].form = openings[n].form
            /\ openings'[n].row = openings[n].row
            /\ openings'[n].effects = openings[n].effects
  BY <1>1, <1>3 DEF PageTypeOK, RowsAreTaken
<1>9. CASE EndTold(c, TRUE) /\ UNCHANGED row
  <2>1. astray' = astray /\ astray' \in BOOLEAN
    BY <1>3, <1>9, EndCallFacts DEF PageTypeOK
  <2>2. \A q \in PageRows : ~ Covers(callStep[c], calling[c], q)
    BY <1>1 DEF Covers
  <2>3. PageTypeOK' /\ CallsOnCourse' /\ RowsAreTaken' /\ ShownInv'
    <3>1. ~ astray => PanelKept("idle", NoPageCall)
      BY <1>1, NotResending DEF PanelKept
    <3>2. QED
      BY <1>1, <1>5, <1>8, <1>9, <2>1, <2>2, <3>1, EndedCall, QuietStepOK
  <2>4. QED
    BY <1>6, <1>7, <2>3 DEF PagesInv
<1>10. CASE EndTold(c, FALSE) /\ RowBecomes(r, 0)
  <2>1. astray' = TRUE
    BY <1>3, <1>10, EndCallFacts
  <2>2. taken' = taken \cup {r} /\ NoPageCall.row \in {r, NoPageRow} /\ 0 \in Nat
    BY <1>1, <1>4, EndedCall
  <2>3. PageTypeOK' /\ CallsOnCourse' /\ RowsAreTaken'
    BY <1>1, <1>4, <1>5, <1>8, <1>10, <2>1, <2>2, EndedCall, RowWritten
  <2>4. ShownInv'
    BY <2>1 DEF ShownInv
  <2>5. QED
    BY <1>6, <1>7, <2>3, <2>4 DEF PagesInv
<1>11. QED
  BY <1>2, <1>9, <1>10

LEMMA ReadListOK ==
    ASSUME PagesInv, NEW c \in PageCalls, ReadList(c)
    PROVE  PagesInv'
<1>0. PICK call, l, n0 :
         call \in PageCallRecords /\ call = calling[c] /\ l = row /\ n0 = call.opening
  BY DEF PagesInv, PageTypeOK
<1>1. /\ callStep[c] = "read" /\ TakesList(c, l) /\ Step(c, "show-list")
      /\ UNCHANGED <<page, row, taken, shown, loaded, form, openings>>
  BY <1>0 DEF ReadList, TakesList
<1>2. /\ PageTypeOK /\ CallsOnCourse /\ LoadedFirst /\ RowsAreTaken /\ ShownInv
      /\ CallOnCourse(callStep[c], call) /\ CallOfItsOpening(call)
  BY <1>0 DEF PagesInv, CallsOnCourse
<1>3. l \in Lists
  BY <1>0, <1>2 DEF PageTypeOK
<1>4. PICK m \in PageCallRecords :
         /\ CallComesTo(c, "show-list", m) /\ SameButList(m, calling[c]) /\ m.list = l
         /\ UNCHANGED astray
  BY <1>1, <1>2, <1>3, ListFacts
<1>5. /\ m.op = call.op /\ m.form = call.form /\ m.opening = n0 /\ m.row = call.row
  BY <1>0, <1>4 DEF SameButList
<1>6. FormsInv'
  <2>1. m.opening \in {0, n0} /\ n0 = calling[c].opening
    BY <1>0, <1>5
  <2>2. n0 \in Openings /\ IsOrderly(openings[n0]) =>
           /\ m.opening = n0 \/ form'.opening # n0
           /\ m.opening = n0 /\ "show-list" = "save" => callStep[c] = "save"
           /\ m.opening = n0 /\ "show-list" \in {"read", "show-list"} =>
                 callStep[c] \in {"read", "show-list"} \/ form'.opening # n0
    BY <1>1, <1>5
  <2>3. FormLetsGo /\ UNCHANGED <<page, openings>>
    BY <1>1 DEF FormLetsGo
  <2>4. QED
    BY <1>4, <2>1, <2>2, <2>3, FormsStay
<1>7. CallOnCourse("show-list", m) /\ CallOfItsOpening(m)
  BY <1>0, <1>1, <1>2, <1>5 DEF CallOnCourse, CallOfItsOpening, OfAForm
<1>8. /\ m.row \in TakenRows /\ \A q \in PageRows : m.list[q] # 0 => q \in taken
      /\ "show-list" \in CallSteps
  BY <1>0, <1>2, <1>4, <1>5 DEF RowsAreTaken, CallSteps
<1>9. ~ astray => \A d \in InFlight : d # c => ~ Disturb(m, calling[d])
  BY <1>0, <1>1, <1>2, <1>5 DEF ShownInv, Undisturbed, InFlight, Disturb, ShowsAList
<1>10. ReadyToShow("show-list", m)
  BY <1>0, <1>1, <1>2, <1>4, <1>5, <1>7, NothingInHand DEF ReadyToShow, CallOnCourse
<1>11. \A q \in PageRows : Covers("show-list", m, q)
  BY DEF Covers
<1>12. /\ openings' \in [Openings -> OpeningRecords] /\ astray' = astray /\ astray' \in BOOLEAN
       /\ form' \in OpenFormRecords /\ form'.row \in TakenRows
       /\ \A n \in Openings :
             /\ openings'[n].form = openings[n].form
             /\ openings'[n].row = openings[n].row
             /\ openings'[n].effects = openings[n].effects
  BY <1>1, <1>2, <1>4 DEF PageTypeOK, RowsAreTaken
<1>a. ~ astray => PanelKept("show-list", m)
  BY <1>1, NotResending DEF PanelKept
<1>13. PageTypeOK' /\ CallsOnCourse' /\ RowsAreTaken' /\ ShownInv'
  BY <1>1, <1>4, <1>7, <1>8, <1>9, <1>10, <1>11, <1>12, <1>a, QuietStepOK
<1>14. LoadedFirst'
  <2>1. \A d \in PageCalls : calling'[d].op = calling[d].op
    BY <1>0, <1>4, <1>5 DEF CallComesTo
  <2>2. QED
    BY <1>1, <1>2, <2>1 DEF LoadedFirst
<1>15. QED
  BY <1>6, <1>13, <1>14 DEF PagesInv

\* A call ends that shows its answer, or fails to.
LEMMA AnswerTakenOK ==
    ASSUME PagesInv, NEW c \in PageCalls, CallComesTo(c, "idle", NoPageCall),
           UNCHANGED <<page, row, taken, openings>>,
           shown' \in Lists, \A r \in PageRows : shown'[r] # 0 => r \in taken,
           loaded' \in BOOLEAN, astray' \in BOOLEAN,
           form' = form \/ form' = NothingOpen,
           NEW n0, n0 = calling[c].opening,
           n0 \in Openings /\ IsOrderly(openings[n0]) => form'.opening # n0
    PROVE  PageTypeOK' /\ CallsOnCourse' /\ RowsAreTaken' /\ FormsInv'
<1>1. PageTypeOK /\ CallsOnCourse /\ RowsAreTaken
  BY DEF PagesInv
<1>2. form' \in OpenFormRecords /\ form'.row \in TakenRows
  BY <1>1, NothingInHand DEF PageTypeOK, RowsAreTaken, TakenRows
<1>3. PageTypeOK'
  <2>1. callStep' \in [PageCalls -> CallSteps] /\ calling' \in [PageCalls -> PageCallRecords]
    BY <1>1, EndedCall, CallTypes DEF CallSteps
  <2>2. QED
    BY <1>1, <1>2, <2>1 DEF PageTypeOK, CallSteps
<1>4. CallsOnCourse'
  <2>1. \A n \in Openings : openings'[n].form = openings[n].form
    OBVIOUS
  <2>2. QED
    BY <1>1, <2>1, EndedCall, CourseStays
<1>5. RowsAreTaken'
  <2>1. TakenRows' = TakenRows
    BY DEF TakenRows
  <2>2. \A r \in PageRows : row'[r] # 0 \/ shown'[r] # 0 => r \in taken'
    BY <1>1 DEF RowsAreTaken
  <2>3. \A n \in Openings :
           /\ openings'[n].row = openings[n].row \/ openings'[n].row \in taken'
           /\ openings'[n].effects = openings[n].effects \/ openings'[n].row \in PageRows
           /\ openings[n].effects # 0 => openings'[n].row \in PageRows
    BY <1>1 DEF RowsAreTaken
  <2>4. /\ taken \subseteq taken' /\ NoPageCall.row \in TakenRows'
        /\ \A r \in PageRows : NoPageCall.list[r] # 0 => r \in taken'
        /\ form'.row \in TakenRows'
    BY <1>2, <2>1, EndedCall
  <2>5. QED
    BY <1>1, <2>2, <2>3, <2>4, RowsStayTaken
<1>6. FormsInv'
  <2>1. NoPageCall.opening = 0 /\ NoPageCall.opening \in {0, n0} /\ 0 \notin Openings
    BY <1>1, EndedCall, FormFacts
  <2>2. QED
    BY <2>1, FormsStay DEF FormLetsGo
<1>7. QED
  BY <1>3, <1>4, <1>5, <1>6

LEMMA ListFailsOK ==
    ASSUME PagesInv, NEW c \in PageCalls, ListFails(c)
    PROVE  PagesInv'
<1>0. PICK n0 : n0 = calling[c].opening
  OBVIOUS
<1>1. /\ callStep[c] \in {"read", "show-list"} /\ loaded' = TRUE /\ EndTold(c, FALSE)
      /\ UNCHANGED <<page, row, taken, shown, form, openings>>
  BY DEF ListFails
<1>2. PageTypeOK /\ FormsInv /\ RowsAreTaken
  BY DEF PagesInv
<1>3. CallComesTo(c, "idle", NoPageCall) /\ astray' = TRUE
  BY <1>1, <1>2, EndCallFacts
<1>4. n0 \in Openings /\ IsOrderly(openings[n0]) => form'.opening # n0
  BY <1>0, <1>1, <1>2 DEF FormsInv, SavedOnce
<1>5. shown' \in Lists /\ \A r \in PageRows : shown'[r] # 0 => r \in taken
  BY <1>1, <1>2 DEF PageTypeOK, RowsAreTaken
<1>6. PageTypeOK' /\ CallsOnCourse' /\ RowsAreTaken' /\ FormsInv'
  BY <1>0, <1>1, <1>3, <1>4, <1>5, AnswerTakenOK
<1>7. ShownInv' /\ LoadedFirst'
  BY <1>1, <1>3 DEF ShownInv, LoadedFirst
<1>8. QED
  BY <1>6, <1>7 DEF PagesInv

LEMMA ShowListOK ==
    ASSUME PagesInv, NEW c \in PageCalls, ShowList(c)
    PROVE  PagesInv'
<1>0. PICK call, n0 :
         call \in PageCallRecords /\ call = calling[c] /\ n0 = call.opening
  BY DEF PagesInv, PageTypeOK
<1>1. /\ callStep[c] = "show-list" /\ shown' = call.list /\ loaded' = TRUE
      /\ EndTold(c, TRUE)
      /\ form' = form \/ form' = NothingOpen
      /\ UNCHANGED <<page, row, taken, openings>>
  BY <1>0 DEF ShowList, FormClosedBy, End
<1>2. /\ PageTypeOK /\ FormsInv /\ RowsAreTaken /\ CallsOnCourse
      /\ CallOnCourse(callStep[c], call)
  BY <1>0 DEF PagesInv, CallsOnCourse
<1>3. CallComesTo(c, "idle", NoPageCall) /\ astray' = astray
  BY <1>1, <1>2, EndCallFacts DEF PageTypeOK
<1>4. n0 \in Openings /\ IsOrderly(openings[n0]) => form'.opening # n0
  BY <1>0, <1>1, <1>2, FormFacts DEF FormsInv, SavedOnce
<1>5. shown' \in Lists /\ \A r \in PageRows : shown'[r] # 0 => r \in taken
  BY <1>0, <1>1, <1>2 DEF RowsAreTaken, PageCallRecords
<1>6. PageTypeOK' /\ CallsOnCourse' /\ RowsAreTaken' /\ FormsInv'
  <2>1. loaded' \in BOOLEAN /\ astray' \in BOOLEAN /\ n0 = calling[c].opening
    BY <1>0, <1>1, <1>2, <1>3 DEF PageTypeOK
  <2>2. QED
    BY <1>1, <1>3, <1>4, <1>5, <2>1, AnswerTakenOK
<1>7. LoadedFirst'
  BY <1>1 DEF LoadedFirst
<1>8. ShownInv'
  <2> SUFFICES ASSUME ~ astray PROVE ShownInv'
    BY <1>3 DEF ShownInv
  <2>1. shown' = row' /\ Undisturbed
    BY <1>0, <1>1 DEF PagesInv, ShownInv, ReadyToShow
  <2>2. \A d \in PageCalls \ {c} : callStep[d] = "idle"
    BY <1>0, <1>1, <1>2, <2>1 DEF Undisturbed, Disturb, ShowsAList, CallOnCourse, InFlight
  <2>3. Undisturbed'
    BY <1>3, <2>1, UndisturbedStays
  <2>4. \A d \in PageCalls : callStep'[d] = "idle"
    BY <1>3, <2>2 DEF CallComesTo
  <2>5. \A d \in PageCalls : ReadyToShow(callStep[d], calling[d])'
    BY <2>4 DEF ReadyToShow
  <2>6. AtTheFile'
    BY <1>1, NotResending, NothingInHand DEF AtTheFile
  <2>7. QED
    BY <2>1, <2>3, <2>5, <2>6 DEF ShownInv
<1>9. QED
  BY <1>6, <1>7, <1>8 DEF PagesInv

\* The list after an answer has been put in it.
ListWith(list, r, op, v) ==
    [list EXCEPT ![r] = IF op # "create" /\ @ = 0 THEN 0 ELSE v]

LEMMA ShowAnswerOK ==
    ASSUME PagesInv, NEW c \in PageCalls, ShowAnswer(c)
    PROVE  PagesInv'
<1>0. PICK call, n0, r, v, list :
         /\ call \in PageCallRecords /\ call = calling[c] /\ n0 = call.opening /\ r = call.row /\ v = call.seen
         /\ list = IF call.form.then = "captured" THEN call.list ELSE shown
  BY DEF PagesInv, PageTypeOK
<1>1. /\ callStep[c] = "show" /\ shown' = ListWith(list, r, call.op, v)
      /\ EndTold(c, TRUE)
      /\ form' = IF form.form = call.form THEN NothingOpen ELSE form
      /\ UNCHANGED <<page, row, taken, loaded, openings>>
  BY <1>0 DEF ShowAnswer, FormClosedBy, End, ListWith
<1>2. /\ PageTypeOK /\ FormsInv /\ RowsAreTaken /\ CallsOnCourse /\ LoadedFirst
      /\ CallOnCourse(callStep[c], call) /\ CallOfItsOpening(call)
  BY <1>0 DEF PagesInv, CallsOnCourse
<1>3. CallComesTo(c, "idle", NoPageCall) /\ astray' = astray
  BY <1>1, <1>2, EndCallFacts DEF PageTypeOK
<1>4. /\ call.op \in {"remove", "create", "edit", "act"}
      /\ r \in PageRows /\ v \in Nat /\ r \in taken
      /\ call.op = "remove" => v = 0 /\ n0 = 0
      /\ call.form.then \in {"patch", "captured"}
  <2>1. /\ call.op \in {"none", "load", "remove", "create", "edit", "act"} /\ v \in Nat
    BY <1>0 DEF PageCallRecords
  <2>2. r \in PageRows /\ r \in taken
    BY <1>0, <1>1, <1>2, PageRowsAssumption DEF CallOnCourse, RowsAreTaken, TakenRows
  <2>3. QED
    BY <1>0, <1>1, <1>2, <2>1, <2>2 DEF CallOnCourse
<1>5. n0 \in Openings => form'.opening # n0
  <2> SUFFICES ASSUME n0 \in Openings, form.opening = n0 PROVE form' = NothingOpen
    BY <1>1, <1>2, FormFacts
  <2>1. OfAForm(call) /\ form # NothingOpen
    BY <1>2, <1>4, FormFacts DEF OfAForm
  <2>2. form.form = call.form
    BY <1>0, <1>2, <2>1 DEF CallOfItsOpening, FormsInv, FormOfItsOpening
  <2>3. QED
    BY <1>1, <2>2
<1>6. list \in Lists /\ \A q \in PageRows : list[q] # 0 => q \in taken
  <2>1. /\ call.list \in Lists /\ \A q \in PageRows : call.list[q] # 0 => q \in taken
    BY <1>0, <1>2 DEF RowsAreTaken, PageCallRecords
  <2>2. /\ shown \in Lists /\ \A q \in PageRows : shown[q] # 0 => q \in taken
    BY <1>2 DEF RowsAreTaken, PageTypeOK
  <2>3. QED
    BY <1>0, <2>1, <2>2
<1>7. /\ shown' \in Lists
      /\ \A q \in PageRows \ {r} : shown'[q] = list[q]
      /\ shown'[r] = IF call.op # "create" /\ list[r] = 0 THEN 0 ELSE v
  BY <1>1, <1>4, <1>6 DEF ListWith, Lists
<1>8. PageTypeOK' /\ CallsOnCourse' /\ RowsAreTaken' /\ FormsInv'
  <2>1. /\ loaded' \in BOOLEAN /\ astray' \in BOOLEAN /\ n0 = calling[c].opening
        /\ form' = form \/ form' = NothingOpen
    BY <1>0, <1>1, <1>2, <1>3 DEF PageTypeOK
  <2>2. \A q \in PageRows : shown'[q] # 0 => q \in taken
    BY <1>4, <1>6, <1>7
  <2>3. QED
    BY <1>1, <1>3, <1>5, <1>7, <2>1, <2>2, AnswerTakenOK
<1>9. LoadedFirst'
  BY <1>0, <1>1, <1>2, <1>4 DEF LoadedFirst
<1>10. ShownInv'
  <2> SUFFICES ASSUME ~ astray PROVE ShownInv'
    BY <1>3 DEF ShownInv
  <2>1. /\ Undisturbed /\ ReadyToShow("show", call)
        /\ \A d \in PageCalls : ReadyToShow(callStep[d], calling[d])
    BY <1>0, <1>1 DEF PagesInv, ShownInv
  <2>2. list = shown
    BY <1>0, <2>1 DEF ReadyToShow
  <2>3. shown'[r] = row[r]
    BY <1>0, <1>4, <1>7, <2>1, <2>2 DEF ReadyToShow
  <2>4. Undisturbed'
    BY <1>3, <2>1, UndisturbedStays
  <2>5. /\ callStep'[c] = "idle"
        /\ \A d \in PageCalls \ {c} : callStep'[d] = callStep[d] /\ calling'[d] = calling[d]
    BY <1>3 DEF CallComesTo
  <2>6. ASSUME NEW d \in PageCalls PROVE ReadyToShow(callStep[d], calling[d])'
    <3>1. CASE callStep'[d] = "idle"
      BY <3>1 DEF ReadyToShow
    <3>2. CASE callStep'[d] # "idle"
      <4>1. d # c /\ d \in InFlight /\ callStep'[d] = callStep[d] /\ calling'[d] = calling[d]
        BY <2>5, <3>2 DEF InFlight
      <4>2. ~ Disturb(call, calling[d])
        BY <1>0, <1>1, <2>1, <4>1 DEF Undisturbed, InFlight
      <4>3. CallOnCourse(callStep[d], calling[d]) /\ r # NoPageRow
        BY <1>2, <1>4, PageRowsAssumption DEF CallsOnCourse
      <4>4. /\ calling[d].row # r
            /\ calling[d].form.then # "captured" /\ callStep[d] # "show-list"
        BY <1>0, <4>2, <4>3 DEF Disturb, ShowsAList, CallOnCourse
      <4>5. callStep[d] \in {"file", "show"} => calling[d].row \in PageRows
        BY <4>3 DEF CallOnCourse
      <4>6. callStep[d] \in {"file", "show"} => shown'[calling[d].row] = shown[calling[d].row]
        BY <1>7, <2>2, <4>4, <4>5
      <4>7. QED
        BY <1>1, <2>1, <4>1, <4>4, <4>6 DEF ReadyToShow
    <3>3. QED
      BY <3>1, <3>2
  <2>7. ASSUME NEW q \in PageRows, loaded', shown'[q] # row'[q]
        PROVE  \E d \in PageCalls : Covers(callStep'[d], calling'[d], q)
    <3>1. q # r /\ shown[q] # row[q] /\ loaded /\ ~ form.resend
      BY <1>1, <1>7, <2>2, <2>3, <2>7, NotResending
    <3>2. PICK d \in PageCalls : Covers(callStep[d], calling[d], q)
      BY <3>1 DEF PagesInv, ShownInv
    <3>3. d # c
      BY <1>0, <1>1, <3>1, <3>2 DEF Covers
    <3>4. QED
      BY <2>5, <3>2, <3>3
  <2>8. AtTheFile'
    BY <1>1, NotResending, NothingInHand DEF AtTheFile
  <2>9. QED
    BY <2>4, <2>6, <2>7, <2>8 DEF ShownInv
<1>11. QED
  BY <1>8, <1>9, <1>10 DEF PagesInv

(***************************************************************************)
(* The theorems.                                                           *)
(***************************************************************************)
LEMMA PagesInitOK == PagesInit => PagesInv
<1> SUFFICES ASSUME PagesInit PROVE PagesInv
  OBVIOUS
<1>1. /\ page \in Pages /\ taken \in SUBSET PageRows
      /\ row = [r \in PageRows |-> IF r \in taken THEN 1 ELSE 0]
      /\ shown = NoListShown /\ loaded = FALSE /\ form = NothingOpen
      /\ openings = [n \in Openings |-> NotOpened]
      /\ callStep = [c \in PageCalls |-> "idle"]
      /\ calling = [c \in PageCalls |-> NoPageCall]
      /\ astray = FALSE
  BY DEF PagesInit
<1>2. row \in Lists /\ \A r \in PageRows : row[r] # 0 => r \in taken
  BY <1>1 DEF Lists
<1>3. PageTypeOK
  BY <1>1, <1>2, NothingInHand DEF PageTypeOK
<1>4. \A c \in PageCalls : callStep[c] = "idle" /\ calling[c] = NoPageCall
  BY <1>1
<1>5. \A n \in Openings : openings[n] = NotOpened
  BY <1>1
<1>6. CallsOnCourse
  <2>1. CallOnCourse("idle", NoPageCall) /\ CallOfItsOpening(NoPageCall)
    BY EndedCall
  <2>2. QED
    BY <1>4, <2>1 DEF CallsOnCourse
<1>7. LoadedFirst
  BY <1>1, <1>4, NothingInHand DEF LoadedFirst
<1>8. FormsInv
  <2>1. FormOfItsOpening
    BY <1>1 DEF FormOfItsOpening
  <2>2. OpeningsInOrder
    <3>1. 0 \in 0..MaxOpenings /\ \A n \in Openings : ~ (n <= 0)
      BY PageRowsAssumption DEF Openings
    <3>2. QED
      BY <1>5, <3>1 DEF OpeningsInOrder
  <2>3. ASSUME NEW n \in Openings PROVE SavedOnce(n)
    <3>1. openings[n].effects = 0 /\ openings[n].failed = {} /\ n # 0
      BY <1>3, <1>5, NothingInHand, FormFacts
    <3>2. form.opening # n /\ \A c \in PageCalls : calling[c].opening # n
      BY <1>1, <1>4, <3>1, NothingInHand
    <3>3. QED
      BY <3>1, <3>2 DEF SavedOnce
  <2>4. QED
    BY <2>1, <2>2, <2>3 DEF FormsInv
<1>9. RowsAreTaken
  BY <1>1, <1>2, <1>4, <1>5, NothingInHand DEF RowsAreTaken, TakenRows
<1>10. ShownInv
  <2>1. Undisturbed
    BY <1>4 DEF Undisturbed, InFlight
  <2>2. \A c \in PageCalls : ReadyToShow(callStep[c], calling[c])
    BY <1>4 DEF ReadyToShow
  <2>3. AtTheFile
    BY <1>1, NothingInHand DEF AtTheFile
  <2>4. QED
    BY <1>1, <2>1, <2>2, <2>3 DEF ShownInv
<1>11. QED
  BY <1>3, <1>6, <1>7, <1>8, <1>9, <1>10 DEF PagesInv

LEMMA PagesStepOK == PagesInv /\ [PagesNext]_pageVars => PagesInv'
<1> SUFFICES ASSUME PagesInv, [PagesNext]_pageVars PROVE PagesInv'
  OBVIOUS
<1>1. CASE UNCHANGED pageVars
  BY <1>1
  DEF PagesInv, pageVars, PageTypeOK, CallsOnCourse, CallOfItsOpening, LoadedFirst, FormsInv,
      FormOfItsOpening, OpeningsInOrder, SavedOnce, HasACall, RowsAreTaken, TakenRows,
      ShownInv, Undisturbed, AtTheFile, InFlight, ReadyToShow
<1>2. CASE CloseForm
  BY <1>2, CloseFormOK
<1>3. ASSUME NEW f \in page.forms, NEW r \in PageRows \cup {NoPageRow}, OpenForm(f, r)
      PROVE  PagesInv'
  BY <1>3, OpenFormOK
<1>4. ASSUME NEW c \in PageCalls, LoadPage(c) PROVE PagesInv'
  BY <1>4, LoadPageOK
<1>5. ASSUME NEW c \in PageCalls, SubmitForm(c) PROVE PagesInv'
  BY <1>5, SubmitFormOK
<1>6. ASSUME NEW c \in PageCalls, NEW r \in PageRows, RemoveRow(c, r) PROVE PagesInv'
  BY <1>6, RemoveRowOK
<1>7. ASSUME NEW c \in PageCalls, NEW r \in PageRows, Save(c, r) PROVE PagesInv'
  BY <1>7, SaveOK
<1>8. ASSUME NEW c \in PageCalls, SaveTheSame(c) PROVE PagesInv'
  BY <1>8, SaveTheSameOK
<1>9. ASSUME NEW c \in PageCalls, SaveFails(c) PROVE PagesInv'
  BY <1>9, SaveFailsOK
<1>10. ASSUME NEW c \in PageCalls, SendFile(c) PROVE PagesInv'
  BY <1>10, SendFileOK
<1>11. ASSUME NEW c \in PageCalls, FileFails(c) PROVE PagesInv'
  BY <1>11, FileFailsOK
<1>12. ASSUME NEW c \in PageCalls, Remove(c) PROVE PagesInv'
  BY <1>12, RemoveOK
<1>13. ASSUME NEW c \in PageCalls, RemoveFails(c) PROVE PagesInv'
  BY <1>13, RemoveFailsOK
<1>14. ASSUME NEW c \in PageCalls, ShowAnswer(c) PROVE PagesInv'
  BY <1>14, ShowAnswerOK
<1>15. ASSUME NEW c \in PageCalls, ReadList(c) PROVE PagesInv'
  BY <1>15, ReadListOK
<1>16. ASSUME NEW c \in PageCalls, ShowList(c) PROVE PagesInv'
  BY <1>16, ShowListOK
<1>17. ASSUME NEW c \in PageCalls, ListFails(c) PROVE PagesInv'
  BY <1>17, ListFailsOK
<1>18. ASSUME NEW c \in PageCalls, ResendFile(c) PROVE PagesInv'
  BY <1>18, ResendFileOK
<1>19. ASSUME NEW c \in PageCalls, GiveFileUp(c) PROVE PagesInv'
  BY <1>19, GiveFileUpOK
<1>20. QED
  BY <1>1, <1>2, <1>3, <1>4, <1>5, <1>6, <1>7, <1>8, <1>9, <1>10, <1>11, <1>12, <1>13,
     <1>14, <1>15, <1>16, <1>17, <1>18, <1>19
  DEF PagesNext

\* On every page, whatever its forms: once nothing is in flight, and no file is left
\* to send again, the list shown is the rows as they are, unless calls crossed that do not bear it or the page was
\* not told of a change (setItems after apiPost, apiPut and apiDelete in the pages).
THEOREM PagesFollowTheServer == PagesInit /\ [][PagesNext]_pageVars => []PagesShowTheirRows
<1>1. PagesInv => PagesShowTheirRows
  <2> SUFFICES ASSUME PagesInv, loaded, InFlight = {}, ~ form.resend, ~ astray
               PROVE  shown = row
    BY DEF PagesShowTheirRows
  <2>1. \A c \in PageCalls, r \in PageRows : ~ Covers(callStep[c], calling[c], r)
    BY DEF InFlight, Covers
  <2>2. \A r \in PageRows : shown[r] = row[r]
    BY <2>1 DEF PagesInv, ShownInv
  <2>3. shown \in Lists /\ row \in Lists
    BY DEF PagesInv, PageTypeOK
  <2>4. QED
    BY <2>2, <2>3 DEF Lists
<1>2. QED
  BY <1>1, PagesInitOK, PagesStepOK, PTL

\* A form takes effect once, however often its button is clicked: unless the button
\* is not held while a call is in flight, an answer was lost, or a file failed that
\* fails the save (the saving flags and the handlers of the pages' dialogs).
THEOREM FormsTakeEffectOnce == PagesInit /\ [][PagesNext]_pageVars => []FormsSaveOnce
<1>1. PagesInv => FormsSaveOnce
  <2> SUFFICES ASSUME PagesInv, NEW n \in Openings, openings[n].effects > 1
               PROVE  /\ openings[n].form.twice = "again"
                      /\ openings[n].form.holds # "for-good"
                      /\ \/ openings[n].form.holds = "never" /\ openings[n].again
                         \/ "answer" \in openings[n].failed
                         \/ /\ openings[n].form.file = "with-the-save"
                            /\ "file" \in openings[n].failed
    BY DEF FormsSaveOnce
  <2>1. SavedOnce(n) /\ openings[n] \in OpeningRecords
    BY DEF PagesInv, FormsInv, PageTypeOK
  <2>2. openings[n].effects \notin {0, 1} /\ openings[n].failed \in SUBSET {"answer", "file"}
    BY <2>1 DEF OpeningRecords
  <2>3. openings[n].form.twice = "again" /\ ~ IsOrderly(openings[n])
        /\ ("file" \in openings[n].failed => openings[n].form.file = "with-the-save")
    BY <2>1, <2>2 DEF SavedOnce
  <2>4. QED
    BY <2>2, <2>3 DEF IsOrderly
<1>2. QED
  BY <1>1, PagesInitOK, PagesStepOK, PTL
=============================================================================
