------------------------------ MODULE WebSession ------------------------------
(***************************************************************************)
(* Who a browser takes its user for.  A login leaves its mark in three     *)
(* places: the session cookie, localStorage.user, which the tabs of the    *)
(* browser share, and the user context of the tab.  Requests carry the     *)
(* cookie of the moment they are sent, and an answer that saves the        *)
(* session brings the whole cookie back (App.js, LoginForm.js, Header.js,  *)
(* GitHubOAuth.js, PrivateRoute.js, helpers, contexts).                    *)
(***************************************************************************)
EXTENDS Naturals, FiniteSets

CONSTANTS
  Tab,         \* tabs of one browser
  User,        \* accounts whose passwords or identities its users know
  Role,        \* [User -> 1..100]
  MaxActs,     \* bound: what users do, and sessions that run out
  MaxRequests, \* bound: requests under way at once
  MaxFaults,   \* bound: requests without a usable answer
  None         \* nobody

RoleCommonUser == 1
RoleAdminUser == 10
RoleRootUser == 100

ASSUME UserAssumption == None \notin User /\ Role \in [User -> 1..100]
ASSUME BoundAssumption == MaxActs \in Nat /\ MaxRequests \in Nat /\ MaxFaults \in Nat

VARIABLES
  cookie,   \* the session: user, and whether Turnstile was passed
  store,    \* localStorage.user
  context,  \* userState.user of each tab
  page,     \* what each tab shows
  rendered, \* localStorage.user when the tab was rendered last
  requests, \* requests under way and answers not yet dealt with
  acts, faults, \* how many there were
  settled,  \* history: nothing has come between since the last login or logout
  current   \* history: tabs that were loaded or logged in or out since then

vars == <<cookie, store, context, page, rendered, requests, acts, faults,
          settled, current>>

-------------------------------------------------------------------------------
\* The routes and the links to them.

\* "home" stands for all public pages that send nothing to do with a session,
\* "tables" for those of profiles and of users, "system" for the panes of the
\* settings that only root sees.
Page == {"home", "login", "register", "edit", "tables", "setting", "system", "oauth"}
Private == {"tables", "setting", "system"}

\* The role the requests of a page need at the server: 0 for none.
Needed(p) ==
  CASE p = "tables" -> RoleAdminUser
    [] p = "system" -> RoleRootUser
    [] p = "edit"   -> RoleCommonUser
    [] OTHER        -> 0

\* Mutant: every user is an administrator.
IsUser(u) == u # None

IsAdmin(u) == u # None /\ Role[u] >= RoleAdminUser
IsRoot(u) == u # None /\ Role[u] >= RoleRootUser

\* authHelper, as the session of user u passes it.
Allowed(u, p) == Needed(p) = 0 \/ (u # None /\ Role[u] >= Needed(p))

\* renderButtons of the header, the panes of the settings and the links of the
\* pages themselves.
Links(t) ==
  {"home", "setting"}
    \cup (IF IsAdmin(rendered[t]) THEN {"tables"} ELSE {})
    \cup (IF context[t] = None THEN {"login"} ELSE {})
    \cup (IF page[t] = "login" THEN {"register"} ELSE {})
    \cup (IF page[t] = "register" THEN {"login"} ELSE {})
    \cup (IF page[t] = "setting" THEN {"edit"} ELSE {})
    \cup (IF page[t] = "setting" /\ IsRoot(rendered[t]) THEN {"system"} ELSE {})

\* PrivateRoute.
Guarded(p, u) == IF p \in Private /\ u = None THEN "login" ELSE p

-------------------------------------------------------------------------------
Kind == {"status", "load", "login", "oauth", "logout", "code"}
Answer == {"none", "granted", "refused", "bound"}
Session == [user : User \cup {None}, checked : BOOLEAN]

Request ==
  [tab : Tab, kind : Kind, user : User \cup {None}, copy : 0..MaxRequests,
   sent : Session, answer : Answer, alone : BOOLEAN]

\* Requests whose answers may save the session.
Writers(rs) == {r \in rs : r.kind \in {"login", "oauth", "logout", "code"}}

TypeOK ==
  /\ cookie \in Session
  /\ store \in User \cup {None}
  /\ context \in [Tab -> User \cup {None}]
  /\ page \in [Tab -> Page]
  /\ rendered \in [Tab -> User \cup {None}]
  /\ requests \subseteq Request
  /\ acts \in 0..MaxActs
  /\ faults \in 0..MaxFaults
  /\ settled \in BOOLEAN
  /\ current \subseteq Tab

\* The n-th request of this kind that tab t has under way.
NthNew(t, kind, u, n) ==
  [tab |-> t, kind |-> kind, user |-> u, copy |-> n, sent |-> cookie,
   answer |-> "none", alone |-> TRUE]

New(t, kind, u) == NthNew(t, kind, u, 0)

\* What tells another request from those under way: the least number that is free.
Another(t, kind) ==
  LET taken == {r.copy : r \in {q \in requests : q.tab = t /\ q.kind = kind}}
  IN  {n \in (0..MaxRequests) \ taken : \A m \in 0..MaxRequests : m < n => m \in taken}

Disturbed(rs) == {[r EXCEPT !.alone = FALSE] : r \in rs}

\* Adds the requests new to rs.  Requests that write the session are alone while
\* there is one of them.
Joined(rs, new) ==
  LET all == rs \cup new
  IN  IF Writers(new) = {} \/ \A r, s \in Writers(all) : r = s THEN all
      ELSE (all \ Writers(all)) \cup Disturbed(Writers(all))

\* What a page asks the server for when it is shown.
LoadOf(t, p) == IF Needed(p) > 0 THEN {New(t, "load", None)} ELSE {}

Act == acts < MaxActs /\ acts' = acts + 1

-------------------------------------------------------------------------------
\* A tab is loaded: by hand, by the way back from GitHub, or by showError.

\* Mutant: App does not read localStorage.
NobodyLoaded(t) == None

\* loadUser.
LoadedUser(t) == store

\* App and what it shows are mounted; what the tab had under way is dropped.
\* The way back from GitHub brings the code of an identity of user u.
Mount(t, p, u) ==
  LET shown == Guarded(p, store)
      kept == {r \in requests : r.tab # t}
      new == {New(t, "status", None)} \cup LoadOf(t, shown)
               \cup (IF shown = "oauth" THEN {New(t, "oauth", u)} ELSE {})
  IN  /\ requests' = Joined(kept, new)
      /\ page' = [page EXCEPT ![t] = shown]
      /\ context' = [context EXCEPT ![t] = LoadedUser(t)]
      /\ rendered' = [rendered EXCEPT ![t] = store]
      /\ current' = current \cup {t}
      /\ settled' = /\ settled
                    /\ \A r \in requests \ kept : r.answer = "none"
                    /\ \A r \in Writers(requests') : r.alone

Open(t, p, u) ==
  /\ Act
  /\ u # None <=> p = "oauth"
  /\ p # "system"
  /\ Mount(t, p, u)
  /\ Cardinality(requests') <= MaxRequests
  /\ UNCHANGED <<cookie, store, faults>>

-------------------------------------------------------------------------------
\* Within a tab.

\* The tab goes to page p, with u in localStorage by then, and is rendered.
Goes(t, p, u) ==
  /\ page' = [page EXCEPT ![t] = Guarded(p, u)]
  /\ rendered' = [rendered EXCEPT ![t] = u]

Send(rs, new) ==
  /\ requests' = Joined(rs, new)
  /\ Cardinality(requests') <= MaxRequests
  /\ settled' = (settled /\ \A r \in Writers(requests') : r.alone)

\* A link is followed.
Visit(t, p) ==
  /\ Act
  /\ p \in Links(t) \ {page[t]}
  /\ Goes(t, p, store)
  /\ Send(requests, LoadOf(t, Guarded(p, store)))
  /\ UNCHANGED <<cookie, store, context, faults, current>>

\* handleSubmit and onSubmitWeChatVerificationCode of LoginForm.
Login(t, u) ==
  /\ Act
  /\ page[t] = "login"
  /\ \E n \in Another(t, "login") : Send(requests, {NthNew(t, "login", u, n)})
  /\ UNCHANGED <<cookie, store, context, page, rendered, faults, current>>

\* logout of Header, up to the request.
Logout(t) ==
  /\ Act
  /\ context[t] # None
  /\ \E n \in Another(t, "logout") : Send(requests, {NthNew(t, "logout", None, n)})
  /\ UNCHANGED <<cookie, store, context, page, rendered, faults, current>>

\* sendVerificationCode of the registration and of the settings: a request that
\* passes Turnstile.
SendCode(t) ==
  /\ Act
  /\ page[t] \in {"register", "setting"}
  /\ \E n \in Another(t, "code") : Send(requests, {NthNew(t, "code", None, n)})
  /\ UNCHANGED <<cookie, store, context, page, rendered, faults, current>>

-------------------------------------------------------------------------------
\* The server answers and the browser takes the cookie over.

Becomes(r, answer) == requests' = (requests \ {r}) \cup {[r EXCEPT !.answer = answer]}

\* setupLogin: the session the request came with, with another user.
LogsIn(r) ==
  /\ Becomes(r, "granted")
  /\ cookie' = [r.sent EXCEPT !.user = r.user]

AnswerLogin(r) ==
  /\ r.kind = "login"
  /\ LogsIn(r) \/ (Becomes(r, "refused") /\ UNCHANGED cookie)

\* GitHubOAuth of the server: a session that has a user is for binding.
AnswerOAuth(r) ==
  /\ r.kind = "oauth"
  /\ \/ r.sent.user = None /\ LogsIn(r)
     \/ r.sent.user # None /\ Becomes(r, "bound") /\ UNCHANGED cookie
     \/ Becomes(r, "refused") /\ UNCHANGED cookie

\* Mutant: the session is not cleared.
AnswerLogoutKept(r) ==
  /\ r.kind = "logout"
  /\ Becomes(r, "granted")
  /\ UNCHANGED cookie

AnswerLogout(r) ==
  /\ r.kind = "logout"
  /\ Becomes(r, "granted")
  /\ cookie' = [user |-> None, checked |-> FALSE]

\* TurnstileCheck: the session is saved if it had not passed yet.
AnswerCode(r) ==
  /\ r.kind = "code"
  /\ requests' = requests \ {r}
  /\ IF r.sent.checked THEN UNCHANGED cookie
     ELSE \/ cookie' = [r.sent EXCEPT !.checked = TRUE]
          \/ UNCHANGED cookie

Answers(r) ==
  /\ r.answer = "none"
  /\ AnswerLogin(r) \/ AnswerOAuth(r) \/ AnswerLogout(r) \/ AnswerCode(r)
  /\ UNCHANGED <<store, context, page, rendered, acts, faults, settled, current>>

-------------------------------------------------------------------------------
\* The tab deals with an answer.

\* The tab t has user u from now on, as far as it and localStorage go.
TakesOver(r, u) ==
  /\ context' = [context EXCEPT ![r.tab] = u]
  /\ store' = u
  /\ current' = {r.tab}
  /\ settled' = r.alone

Keeps == UNCHANGED <<store, context, current, settled>>

\* Mutant: the tab remembers who logged in, localStorage does not.
OnLoginForgotten(r) ==
  /\ r.kind \in {"login", "oauth"} /\ r.answer = "granted"
  /\ context' = [context EXCEPT ![r.tab] = r.user]
  /\ current' = {r.tab}
  /\ settled' = r.alone
  /\ UNCHANGED store
  /\ Goes(r.tab, "home", store)
  /\ requests' = requests \ {r}

\* Of LoginForm and of GitHubOAuth.
OnLogin(r) ==
  /\ r.kind \in {"login", "oauth"} /\ r.answer = "granted"
  /\ TakesOver(r, r.user)
  /\ Goes(r.tab, "home", r.user)
  /\ requests' = requests \ {r}

\* A refused login leaves the form as it is.
OnRefusal(r) ==
  /\ r.kind = "login" /\ r.answer = "refused"
  /\ requests' = requests \ {r}
  /\ Keeps
  /\ UNCHANGED <<page, rendered>>

\* Mutant: after a failure the page waits.
OnOAuthBound(r) ==
  /\ r.kind = "oauth" /\ r.answer \in {"bound", "refused"}
  /\ requests' = requests \ {r}
  /\ IF r.answer = "bound" THEN Goes(r.tab, "setting", store)
     ELSE UNCHANGED <<page, rendered>>
  /\ Keeps

\* sendCode of GitHubOAuth, when it has bound an identity or failed; it is
\* called with the count 0 and so never tries again.
OnOAuth(r) ==
  /\ r.kind = "oauth" /\ r.answer \in {"bound", "refused"}
  /\ requests' = requests \ {r}
  /\ Goes(r.tab, "setting", store)
  /\ Keeps

\* logout of Header, after the request.
OnLogout(r) ==
  /\ r.kind = "logout" /\ r.answer = "granted"
  /\ TakesOver(r, None)
  /\ Goes(r.tab, "login", None)
  /\ requests' = requests \ {r}

\* loadStatus: App is rendered again, and PrivateRoute with it.
OnStatus(r) ==
  /\ r.kind = "status"
  /\ Goes(r.tab, page[r.tab], store)
  /\ requests' = requests \ {r}
  /\ Keeps

\* A page is given its data, or a refusal for want of a higher role, which it
\* shows.
OnLoad(r) ==
  /\ r.kind = "load" /\ r.sent.user # None
  /\ requests' = requests \ {r}
  /\ Keeps
  /\ UNCHANGED <<page, rendered>>

Deals(r) ==
  /\ OnLogin(r) \/ OnRefusal(r) \/ OnOAuth(r) \/ OnLogout(r) \/ OnStatus(r) \/ OnLoad(r)
  /\ UNCHANGED <<cookie, acts, faults>>

\* showError of a 401: the whole tab goes to the login page.
Unauthorized(r) ==
  /\ r.kind = "load" /\ r.sent.user = None
  /\ Mount(r.tab, "login", None)
  /\ UNCHANGED <<cookie, store, acts, faults>>

\* A request fails, or is turned away by the limiter.  The interceptor shows the
\* error and the code after the request stops at what is missing, except in
\* logout, which does not look at the answer.
Fail(r) ==
  /\ r.answer = "none"
  /\ faults < MaxFaults
  /\ faults' = faults + 1
  /\ requests' = requests \ {r}
  /\ IF r.kind = "logout"
     THEN /\ context' = [context EXCEPT ![r.tab] = None]
          /\ store' = None
          /\ current' = {r.tab}
          /\ settled' = FALSE
          /\ Goes(r.tab, "login", None)
     ELSE Keeps /\ UNCHANGED <<page, rendered>>
  /\ UNCHANGED <<cookie, acts>>

\* The cookie gets too old, or was signed with another secret.
Expire ==
  /\ Act
  /\ cookie.user # None
  /\ cookie' = [user |-> None, checked |-> FALSE]
  /\ requests' = (requests \ Writers(requests)) \cup Disturbed(Writers(requests))
  /\ settled' = FALSE
  /\ UNCHANGED <<store, context, page, rendered, faults, current>>

-------------------------------------------------------------------------------
\* The tabs have been loaded with some page, and somebody logged in or nobody.
Init ==
  /\ store \in User \cup {None}
  /\ cookie = [user |-> store, checked |-> FALSE]
  /\ context = [t \in Tab |-> store]
  /\ \E p \in {"home", "login", "setting"} : page = [t \in Tab |-> Guarded(p, store)]
  /\ rendered = context
  /\ requests = {}
  /\ acts = 0 /\ faults = 0
  /\ settled = TRUE
  /\ current = Tab

Server == \E r \in requests : Answers(r)
Browser == \E r \in requests : Deals(r) \/ Unauthorized(r)

Next ==
  \/ \E t \in Tab :
       \/ \E p \in Page, u \in User \cup {None} : Open(t, p, u)
       \/ \E p \in Page : Visit(t, p)
       \/ \E u \in User : Login(t, u)
       \/ Logout(t)
       \/ SendCode(t)
  \/ Server
  \/ Browser
  \/ \E r \in requests : Fail(r)
  \/ Expire

\* Every request is answered unless it fails, and the tab gets to run.
Fairness == WF_vars(Server) /\ WF_vars(Browser)

Spec == Init /\ [][Next]_vars /\ Fairness

-------------------------------------------------------------------------------
\* Properties.

Quiet == Writers(requests) = {}

\* When nothing that writes the session is under way, and the last login or
\* logout ran alone, whatever happened before it, then the session at the server
\* is that of the user in localStorage, and a tab that was loaded since names
\* this user, too.
OneUserEverywhere ==
  settled /\ Quiet =>
    /\ store = cookie.user
    /\ \A t \in current : context[t] = store /\ rendered[t] = store

\* Then no link that such a tab offers leads to a page whose requests the server
\* refuses: the browser's idea of roles is the server's.
LinksAreAllowed ==
  settled /\ Quiet =>
    \A t \in current : \A p \in Links(t) :
      Guarded(p, store) # p \/ Allowed(cookie.user, p)

\* An identity is bound to the account the tab names, as long as nothing came
\* between: GitHub sends its users back to one address, whether they came to log
\* in or to bind.
BoundToTheNamedUser ==
  [][\A r \in requests :
       [r EXCEPT !.answer = "bound"] \in requests' /\ r.answer = "none" /\ settled
         => context[r.tab] = r.sent.user]_vars

\* The page between GitHub and the application is left again, unless a request
\* fails.
OAuthEnds ==
  \A t \in Tab : page[t] = "oauth" ~> page[t] # "oauth" \/ faults > 0
===============================================================================
