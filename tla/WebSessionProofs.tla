--------------------------- MODULE WebSessionProofs ---------------------------
(***************************************************************************)
(* Proofs about WebSession for any tabs, users and roles.                  *)
(***************************************************************************)
EXTENDS WebSession, TLAPS

-------------------------------------------------------------------------------
\* Sets of requests.

\* A writer that is alone is the only one.
OnlyWriter(rs) == \A r, s \in Writers(rs) : r.alone => r = s

LEMMA Records ==
  ASSUME NEW r \in Request
  PROVE  /\ r.tab \in Tab /\ r.kind \in Kind /\ r.user \in User \cup {None}
         /\ r.sent \in Session /\ r.answer \in Answer /\ r.alone \in BOOLEAN
         /\ [r EXCEPT !.alone = FALSE] \in Request
         /\ [r EXCEPT !.alone = FALSE].kind = r.kind
         /\ [r EXCEPT !.alone = FALSE].answer = r.answer
         /\ [r EXCEPT !.alone = FALSE].alone = FALSE
         /\ \A answer \in Answer :
              /\ [r EXCEPT !.answer = answer] \in Request
              /\ [r EXCEPT !.answer = answer].answer = answer
              /\ [r EXCEPT !.answer = answer].kind = r.kind
              /\ [r EXCEPT !.answer = answer].user = r.user
              /\ [r EXCEPT !.answer = answer].tab = r.tab
              /\ [r EXCEPT !.answer = answer].alone = r.alone
BY DEF Request

LEMMA DisturbedIs ==
  ASSUME NEW rs \in SUBSET Request
  PROVE  /\ Disturbed(Writers(rs)) \in SUBSET Request
         /\ \A d \in Disturbed(Writers(rs)) :
              /\ d.alone = FALSE /\ d \in Writers(Disturbed(Writers(rs)))
              /\ \E q \in rs : d.kind = q.kind /\ d.answer = q.answer
         /\ rs \ Writers(rs) \in SUBSET Request
         /\ Writers((rs \ Writers(rs)) \cup Disturbed(Writers(rs)))
              = Disturbed(Writers(rs))
<1>1. \A w \in Writers(rs) : w \in rs /\ w \in Request
                             /\ w.kind \in {"login", "oauth", "logout", "code"}
  BY DEF Writers
<1>2. \A d \in Disturbed(Writers(rs)) :
        \E w \in Writers(rs) : d = [w EXCEPT !.alone = FALSE]
  BY DEF Disturbed
<1>3. ASSUME NEW d \in Disturbed(Writers(rs))
      PROVE  /\ d \in Request /\ d.alone = FALSE
             /\ d.kind \in {"login", "oauth", "logout", "code"}
             /\ \E q \in rs : d.kind = q.kind /\ d.answer = q.answer
  <2>1. PICK w \in Writers(rs) : d = [w EXCEPT !.alone = FALSE]
    BY <1>2
  <2> QED
    BY <1>1, <2>1, Records
<1>4. \A d \in Disturbed(Writers(rs)) : d \in Writers(Disturbed(Writers(rs)))
  BY <1>3 DEF Writers
<1>5. Writers((rs \ Writers(rs)) \cup Disturbed(Writers(rs))) = Disturbed(Writers(rs))
  BY <1>3 DEF Writers
<1> QED
  BY <1>3, <1>4, <1>5

LEMMA JoinedIs ==
  ASSUME NEW rs \in SUBSET Request, NEW new \in SUBSET Request, OnlyWriter(rs)
  PROVE  /\ Joined(rs, new) \in SUBSET Request
         /\ OnlyWriter(Joined(rs, new))
         /\ \A r \in Writers(Joined(rs, new)) : r.alone => r \in rs \cup new
         /\ (\A r \in Writers(Joined(rs, new)) : r.alone) => Joined(rs, new) = rs \cup new
         /\ \A r \in Joined(rs, new) :
              \E q \in rs \cup new : r.kind = q.kind /\ r.answer = q.answer
<1> DEFINE all == rs \cup new
<1>1. all \in SUBSET Request
  OBVIOUS
<1>2. CASE Writers(new) = {} \/ \A r, s \in Writers(all) : r = s
  <2>1. Joined(rs, new) = all
    BY <1>2 DEF Joined
  <2>2. OnlyWriter(all)
    BY <1>2 DEF OnlyWriter, Writers
  <2>3. \A r \in Writers(all) : r \in all
    BY DEF Writers
  <2> QED
    BY <1>1, <2>1, <2>2, <2>3
<1>3. CASE ~ (Writers(new) = {} \/ \A r, s \in Writers(all) : r = s)
  <2> DEFINE d == Disturbed(Writers(all))
  <2>1. Joined(rs, new) = (all \ Writers(all)) \cup d
    BY <1>3 DEF Joined
  <2>2. /\ d \in SUBSET Request /\ all \ Writers(all) \in SUBSET Request
        /\ \A r \in d : /\ r.alone = FALSE
                        /\ \E q \in all : r.kind = q.kind /\ r.answer = q.answer
        /\ Writers((all \ Writers(all)) \cup d) = d
    BY <1>1, DisturbedIs
  <2>3. d # {}
    BY <1>3 DEF Disturbed
  <2> HIDE DEF d
  <2>4. Writers(Joined(rs, new)) = d
    BY <2>1, <2>2
  <2> QED
    BY <2>1, <2>2, <2>3, <2>4 DEF OnlyWriter
<1> QED
  BY <1>2, <1>3

-------------------------------------------------------------------------------
\* The invariant.

Typed ==
  /\ cookie \in Session
  /\ store \in User \cup {None}
  /\ context \in [Tab -> User \cup {None}]
  /\ page \in [Tab -> Page]
  /\ rendered \in [Tab -> User \cup {None}]
  /\ requests \subseteq Request
  /\ current \subseteq Tab

\* A writer that is alone came with the session of now, or has made it what it is;
\* one that came back from GitHub was sent by a tab that was loaded since.
AloneInv ==
  /\ OnlyWriter(requests)
  /\ \A r \in Writers(requests) :
       r.alone =>
         /\ r.answer = "none" => r.sent = cookie
         /\ r.answer = "granted" => cookie.user = IF r.kind = "logout" THEN None ELSE r.user
         /\ r.kind = "oauth" => r.tab \in current

\* When nothing has come between, the tabs name the user of the session, but for an
\* answer that the tab has not dealt with yet.
Agreed ==
  /\ store = cookie.user
  /\ \A t \in current : context[t] = store /\ rendered[t] = store

Granted(rs) == {r \in Writers(rs) : r.answer = "granted"}

SettledInv ==
  settled =>
    /\ \A r \in Writers(requests) : r.alone
    /\ Granted(requests) = {} => Agreed

\* Nobody sees a private page, and only bindings are bound.
PageInv ==
  /\ \A t \in Tab : page[t] \in Private => rendered[t] # None
  /\ \A r \in requests : r.answer = "bound" => r.kind = "oauth"

SessionInv == Typed /\ AloneInv /\ SettledInv /\ PageInv

LEMMA SessionInit == Init => SessionInv
<1> SUFFICES ASSUME Init PROVE SessionInv
  OBVIOUS
<1>1. \A p \in {"home", "login", "setting"} :
        Guarded(p, store) \in Page /\ (Guarded(p, store) \in Private => store # None)
  BY DEF Guarded, Page, Private
<1>2. /\ page \in [Tab -> Page]
      /\ \A t \in Tab : page[t] \in Private => store # None
  BY <1>1 DEF Init
<1>3. Typed
  BY <1>2 DEF Init, Typed, Session
<1>4. requests = {}
  BY DEF Init
<1>5. Writers(requests) = {}
  BY <1>4 DEF Writers
<1>6. AloneInv
  BY <1>5 DEF AloneInv, OnlyWriter
<1>7. SettledInv
  BY <1>5 DEF Init, SettledInv, Agreed
<1>8. PageInv
  BY <1>2, <1>4 DEF Init, PageInv
<1> QED
  BY <1>3, <1>6, <1>7, <1>8 DEF SessionInv

\* Going to a page leaves types and private pages in order.
LEMMA GoesIs ==
  ASSUME Typed, PageInv, NEW t \in Tab, NEW p \in Page, NEW u \in User \cup {None},
         Goes(t, p, u)
  PROVE  /\ page' \in [Tab -> Page]
         /\ rendered' \in [Tab -> User \cup {None}]
         /\ rendered' = [rendered EXCEPT ![t] = u]
         /\ \A v \in Tab : page'[v] \in Private => rendered'[v] # None
<1>1. Guarded(p, u) \in Page /\ (Guarded(p, u) \in Private => u # None)
  BY DEF Guarded, Page, Private
<1>2. page' = [page EXCEPT ![t] = Guarded(p, u)] /\ rendered' = [rendered EXCEPT ![t] = u]
  BY DEF Goes
<1> QED
  BY <1>1, <1>2 DEF Typed, PageInv

-------------------------------------------------------------------------------
\* Requests are sent.

\* The requests new join those that are kept, by what a tab does.
LEMMA Joins ==
  ASSUME SessionInv, NEW kept \in SUBSET requests, NEW new \in SUBSET Request,
         requests' = Joined(kept, new), UNCHANGED <<cookie, store>>,
         \A n \in new : /\ n.answer = "none" /\ n.sent = cookie
                        /\ n.kind = "oauth" => n.tab \in current',
         settled' => /\ settled /\ \A r \in requests \ kept : r.answer = "none"
                     /\ \A r \in Writers(requests') : r.alone,
         current \subseteq current', current' \subseteq Tab,
         context' \in [Tab -> User \cup {None}],
         page' \in [Tab -> Page], rendered' \in [Tab -> User \cup {None}],
         \A v \in Tab : page'[v] \in Private => rendered'[v] # None,
         \A v \in current' :
           \/ v \in current /\ context'[v] = context[v]
                /\ rendered'[v] \in {rendered[v], store}
           \/ context'[v] = store /\ rendered'[v] = store
  PROVE  SessionInv'
<1>1. Typed /\ AloneInv /\ SettledInv /\ PageInv
  BY DEF SessionInv
<1>2. kept \in SUBSET Request /\ OnlyWriter(kept)
  BY <1>1 DEF Typed, AloneInv, OnlyWriter, Writers
<1>3. /\ requests' \in SUBSET Request
      /\ OnlyWriter(requests')
      /\ \A r \in Writers(requests') : r.alone => r \in kept \cup new
      /\ (\A r \in Writers(requests') : r.alone) => requests' = kept \cup new
      /\ \A r \in requests' :
           \E q \in kept \cup new : r.kind = q.kind /\ r.answer = q.answer
  BY <1>2, JoinedIs
<1>4. Typed'
  BY <1>1, <1>3 DEF Typed
<1>5. AloneInv'
  <2>1. ASSUME NEW r \in Writers(requests'), r.alone
        PROVE  /\ r.answer = "none" => r.sent = cookie
               /\ r.answer = "granted" =>
                    cookie.user = IF r.kind = "logout" THEN None ELSE r.user
               /\ r.kind = "oauth" => r.tab \in current'
    <3>1. r \in kept \cup new /\ r.kind \in {"login", "oauth", "logout", "code"}
      BY <1>3, <2>1 DEF Writers
    <3>2. CASE r \in new
      BY <3>2
    <3>3. CASE r \in kept
      <4>1. r \in Writers(requests)
        BY <3>1, <3>3 DEF Writers
      <4> QED
        BY <1>1, <2>1, <4>1 DEF AloneInv
    <3> QED
      BY <3>1, <3>2, <3>3
  <2> QED
    BY <1>3, <2>1 DEF AloneInv
<1>6. SettledInv'
  <2> SUFFICES ASSUME settled'
               PROVE  (\A r \in Writers(requests') : r.alone)
                        /\ (Granted(requests)' = {} => Agreed')
    BY DEF SettledInv
  <2>1. /\ settled /\ requests' = kept \cup new
        /\ \A r \in requests \ kept : r.answer = "none"
    BY <1>3
  <2>2. Granted(requests)' = {} => Granted(requests) = {}
    BY <2>1 DEF Granted, Writers
  <2>3. Agreed => Agreed'
    BY DEF Agreed
  <2> QED
    BY <1>1, <2>1, <2>2, <2>3 DEF SettledInv
<1>7. PageInv'
  <2>1. \A r \in requests' : r.answer = "bound" => r.kind = "oauth"
    BY <1>1, <1>3 DEF PageInv
  <2> QED
    BY <2>1 DEF PageInv
<1> QED
  BY <1>4, <1>5, <1>6, <1>7 DEF SessionInv

\* A new request is one.
LEMMA NewIs ==
  ASSUME Typed, NEW t \in Tab, NEW kind \in Kind, NEW u \in User \cup {None},
         NEW n \in 0..MaxRequests
  PROVE  /\ NthNew(t, kind, u, n) \in Request
         /\ NthNew(t, kind, u, n).answer = "none"
         /\ NthNew(t, kind, u, n).sent = cookie
         /\ NthNew(t, kind, u, n).kind = kind
         /\ NthNew(t, kind, u, n).tab = t
BY DEF NthNew, Request, Answer, Typed

LEMMA NewZero ==
  ASSUME Typed, NEW t \in Tab, NEW kind \in Kind, NEW u \in User \cup {None}
  PROVE  /\ New(t, kind, u) \in Request
         /\ New(t, kind, u).answer = "none"
         /\ New(t, kind, u).sent = cookie
         /\ New(t, kind, u).kind = kind
         /\ New(t, kind, u).tab = t
<1>1. 0 \in 0..MaxRequests
  BY BoundAssumption
<1> QED
  BY <1>1, NewIs DEF New

LEMMA MountStep ==
  ASSUME SessionInv, NEW t \in Tab, NEW p \in Page, NEW u \in User \cup {None},
         Mount(t, p, u), UNCHANGED <<cookie, store>>
  PROVE  SessionInv'
<1> DEFINE shown == Guarded(p, store)
           kept == {r \in requests : r.tab # t}
           new == {New(t, "status", None)} \cup LoadOf(t, shown)
                    \cup (IF shown = "oauth" THEN {New(t, "oauth", u)} ELSE {})
<1>1. Typed /\ PageInv
  BY DEF SessionInv
<1>2. /\ requests' = Joined(kept, new)
      /\ page' = [page EXCEPT ![t] = shown]
      /\ context' = [context EXCEPT ![t] = store]
      /\ rendered' = [rendered EXCEPT ![t] = store]
      /\ current' = current \cup {t}
      /\ settled' => /\ settled /\ \A r \in requests \ kept : r.answer = "none"
                     /\ \A r \in Writers(requests') : r.alone
  BY DEF Mount, LoadedUser
<1>3. Goes(t, p, store) /\ store \in User \cup {None}
  BY <1>1, <1>2 DEF Goes, Typed
<1>4. /\ page' \in [Tab -> Page]
      /\ rendered' \in [Tab -> User \cup {None}]
      /\ \A v \in Tab : page'[v] \in Private => rendered'[v] # None
  BY <1>1, <1>3, GoesIs
<1>5. kept \in SUBSET requests
  OBVIOUS
<1>6. /\ new \in SUBSET Request
      /\ \A n \in new : /\ n.answer = "none" /\ n.sent = cookie
                        /\ n.kind = "oauth" => n.tab \in current'
  <2>1. {"status", "load", "oauth"} \subseteq Kind
    BY DEF Kind
  <2>2. \A kind \in {"status", "load", "oauth"}, w \in {u, None} :
          /\ New(t, kind, w) \in Request /\ New(t, kind, w).answer = "none"
          /\ New(t, kind, w).sent = cookie /\ New(t, kind, w).tab = t
    BY <1>1, <2>1, NewZero
  <2>3. \A n \in new : \E kind \in {"status", "load", "oauth"}, w \in {u, None} :
                         n = New(t, kind, w)
    BY DEF LoadOf
  <2> QED
    BY <1>2, <2>2, <2>3
<1>7. /\ context' \in [Tab -> User \cup {None}]
      /\ \A v \in current' :
           \/ v \in current /\ context'[v] = context[v]
                /\ rendered'[v] \in {rendered[v], store}
           \/ context'[v] = store /\ rendered'[v] = store
      /\ current \subseteq current' /\ current' \subseteq Tab
  BY <1>1, <1>2 DEF Typed
<1> HIDE DEF shown, kept, new
<1> QED
  BY <1>2, <1>4, <1>5, <1>6, <1>7, Joins

\* A tab sends a request, or goes to a page and loads it.
LEMMA SendStep ==
  ASSUME SessionInv, NEW new \in SUBSET Request, Send(requests, new),
         \A n \in new : n.answer = "none" /\ n.sent = cookie /\ n.kind # "oauth",
         UNCHANGED <<cookie, store, context, current>>,
         \/ UNCHANGED <<page, rendered>>
         \/ \E t \in Tab, p \in Page : Goes(t, p, store)
  PROVE  SessionInv'
<1>1. Typed /\ PageInv
  BY DEF SessionInv
<1>2. /\ requests' = Joined(requests, new)
      /\ settled' => settled /\ \A r \in Writers(requests') : r.alone
  BY DEF Send
<1>3. /\ page' \in [Tab -> Page] /\ rendered' \in [Tab -> User \cup {None}]
      /\ \A v \in Tab : page'[v] \in Private => rendered'[v] # None
      /\ \A v \in Tab : rendered'[v] \in {rendered[v], store}
  <2>1. CASE UNCHANGED <<page, rendered>>
    BY <1>1, <2>1 DEF Typed, PageInv
  <2>2. CASE \E t \in Tab, p \in Page : Goes(t, p, store)
    <3>1. store \in User \cup {None} /\ rendered \in [Tab -> User \cup {None}]
      BY <1>1 DEF Typed
    <3> QED
      BY <1>1, <2>2, <3>1, GoesIs
  <2> QED
    BY <2>1, <2>2
<1>4. context' \in [Tab -> User \cup {None}] /\ current' \subseteq Tab
  BY <1>1 DEF Typed
<1> QED
  BY <1>2, <1>3, <1>4, Joins DEF Typed

-------------------------------------------------------------------------------
\* The server answers.

\* Request r is answered and waits for its tab.
LEMMA Answered ==
  ASSUME SessionInv, NEW r \in Writers(requests), r.answer = "none",
         NEW answer \in Answer, Becomes(r, answer),
         cookie' \in Session,
         UNCHANGED <<store, context, page, rendered, settled, current>>,
         answer = "bound" => r.kind = "oauth",
         \/ answer # "granted" /\ UNCHANGED cookie
         \/ /\ answer = "granted"
            /\ cookie'.user = IF r.kind = "logout" THEN None ELSE r.user
  PROVE  SessionInv'
<1> DEFINE new == [r EXCEPT !.answer = answer]
<1>1. Typed /\ AloneInv /\ SettledInv /\ PageInv
  BY DEF SessionInv
<1>2. /\ r \in requests /\ r \in Request
      /\ r.kind \in {"login", "oauth", "logout", "code"}
  BY <1>1 DEF Writers, Typed
<1>3. /\ new \in Request /\ new.answer = answer /\ new.kind = r.kind /\ new.user = r.user
      /\ new.tab = r.tab /\ new.alone = r.alone /\ new.sent = r.sent
  BY <1>2, Records DEF Request
<1>4. requests' = (requests \ {r}) \cup {new}
  BY DEF Becomes
<1> HIDE DEF new
<1>5. Writers(requests)' = (Writers(requests) \ {r}) \cup {new}
  BY <1>2, <1>3, <1>4 DEF Writers
<1>6. Typed'
  BY <1>1, <1>3, <1>4 DEF Typed
<1>7. AloneInv'
  <2>1. ASSUME NEW a \in Writers(requests'), NEW b \in Writers(requests'), a.alone
        PROVE  a = new /\ b = new
    <3>1. a \in Writers(requests) \/ a = new
      BY <1>5
    <3>2. a = new
      BY <1>1, <1>5, <2>1, <3>1 DEF AloneInv, OnlyWriter
    <3>3. \A q \in Writers(requests) : q = r
      BY <1>1, <1>3, <2>1, <3>2 DEF AloneInv, OnlyWriter
    <3> QED
      BY <1>5, <3>2, <3>3
  <2>2. OnlyWriter(requests)'
    BY <2>1 DEF OnlyWriter
  <2>3. new.alone =>
          /\ new.answer # "none" \/ (new.sent = cookie' /\ UNCHANGED cookie)
          /\ new.answer = "granted" =>
               cookie'.user = IF new.kind = "logout" THEN None ELSE new.user
          /\ new.kind = "oauth" => new.tab \in current'
    BY <1>1, <1>3 DEF AloneInv
  <2> QED
    BY <2>1, <2>2, <2>3 DEF AloneInv
<1>8. SettledInv'
  <2> SUFFICES ASSUME settled
               PROVE  (\A q \in Writers(requests') : q.alone)
                        /\ (Granted(requests)' = {} => Agreed')
    BY DEF SettledInv
  <2>1. \A q \in Writers(requests') : q.alone
    BY <1>1, <1>3, <1>5 DEF SettledInv
  <2>2. CASE answer = "granted"
    BY <1>3, <1>5, <2>1, <2>2 DEF Granted
  <2>3. CASE answer # "granted"
    <3>1. Granted(requests)' = {} => Granted(requests) = {}
      BY <1>3, <1>5 DEF Granted
    <3>2. UNCHANGED cookie
      BY <2>3
    <3> QED
      BY <1>1, <2>1, <3>1, <3>2 DEF SettledInv, Agreed
  <2> QED
    BY <2>2, <2>3
<1>9. PageInv'
  BY <1>1, <1>3, <1>4 DEF PageInv
<1> QED
  BY <1>6, <1>7, <1>8, <1>9 DEF SessionInv

\* A request is over, and the session stays that of its user.
LEMMA Over ==
  ASSUME SessionInv, NEW r \in requests, requests' = requests \ {r},
         cookie' \in Session,
         UNCHANGED cookie \/ (r \in Writers(requests) /\ cookie'.user = r.sent.user),
         r \in Writers(requests) => r.answer # "granted",
         cookie' # cookie => r.answer = "none",
         UNCHANGED <<store, context, settled, current>>,
         \/ UNCHANGED <<page, rendered>>
         \/ \E t \in Tab, p \in Page : Goes(t, p, store)
  PROVE  SessionInv'
<1>1. Typed /\ AloneInv /\ SettledInv /\ PageInv
  BY DEF SessionInv
<1>2. /\ page' \in [Tab -> Page] /\ rendered' \in [Tab -> User \cup {None}]
      /\ \A v \in Tab : page'[v] \in Private => rendered'[v] # None
      /\ \A v \in Tab : rendered'[v] \in {rendered[v], store}
  <2>1. CASE UNCHANGED <<page, rendered>>
    BY <1>1, <2>1 DEF Typed, PageInv
  <2>2. CASE \E t \in Tab, p \in Page : Goes(t, p, store)
    <3>1. store \in User \cup {None} /\ rendered \in [Tab -> User \cup {None}]
      BY <1>1 DEF Typed
    <3> QED
      BY <1>1, <2>2, <3>1, GoesIs
  <2> QED
    BY <2>1, <2>2
<1>3. Typed'
  BY <1>1, <1>2 DEF Typed
<1>4. Writers(requests)' = Writers(requests) \ {r}
  BY DEF Writers
<1>5. AloneInv'
  <2>1. OnlyWriter(requests)'
    BY <1>1, <1>4 DEF AloneInv, OnlyWriter
  <2>2. ASSUME NEW q \in Writers(requests'), q.alone PROVE UNCHANGED cookie
    BY <1>1, <1>4, <2>2 DEF AloneInv, OnlyWriter
  <2> QED
    BY <1>1, <1>4, <2>1, <2>2 DEF AloneInv
<1>6. SettledInv'
  <2> SUFFICES ASSUME settled
               PROVE  (\A q \in Writers(requests') : q.alone)
                        /\ (Granted(requests)' = {} => Agreed')
    BY DEF SettledInv
  <2>1. \A q \in Writers(requests) : q.alone
    BY <1>1 DEF SettledInv
  <2>2. Granted(requests)' = Granted(requests)
    BY <1>4 DEF Granted
  <2>3. cookie'.user = cookie.user
    <3>1. CASE UNCHANGED cookie
      BY <3>1
    <3>2. CASE ~ UNCHANGED cookie
      <4>1. r \in Writers(requests) /\ cookie'.user = r.sent.user /\ r.answer = "none"
        BY <3>2
      <4> QED
        BY <1>1, <2>1, <4>1 DEF AloneInv
    <3> QED
      BY <3>1, <3>2
  <2> QED
    BY <1>1, <1>2, <1>4, <2>1, <2>2, <2>3 DEF SettledInv, Agreed, Typed
<1>7. PageInv'
  BY <1>1, <1>2 DEF PageInv
<1> QED
  BY <1>3, <1>5, <1>6, <1>7 DEF SessionInv

LEMMA AnswersStep ==
  ASSUME SessionInv, NEW r \in requests, Answers(r)
  PROVE  SessionInv'
<1>1. Typed /\ r \in Request /\ r.sent \in Session /\ r.user \in User \cup {None}
  BY Records DEF SessionInv, Typed
<1>2. /\ r.answer = "none"
      /\ UNCHANGED <<store, context, page, rendered, settled, current>>
  BY DEF Answers
<1>3. {"granted", "refused", "bound"} \subseteq Answer
  BY DEF Answer
<1>4. /\ [r.sent EXCEPT !.user = r.user] \in Session
      /\ [r.sent EXCEPT !.user = r.user].user = r.user
      /\ [r.sent EXCEPT !.checked = TRUE] \in Session
      /\ [r.sent EXCEPT !.checked = TRUE].user = r.sent.user
      /\ [user |-> None, checked |-> FALSE] \in Session
      /\ [user |-> None, checked |-> FALSE].user = None
      /\ cookie \in Session
  BY <1>1 DEF Session, Typed
<1>5. CASE AnswerLogin(r)
  <2>1. r \in Writers(requests) /\ r.kind = "login"
    BY <1>5 DEF AnswerLogin, Writers
  <2>2. \/ Becomes(r, "granted") /\ cookie' = [r.sent EXCEPT !.user = r.user]
        \/ Becomes(r, "refused") /\ UNCHANGED cookie
    BY <1>5 DEF AnswerLogin, LogsIn
  <2> QED
    BY <1>2, <1>3, <1>4, <2>1, <2>2, Answered
<1>6. CASE AnswerOAuth(r)
  <2>1. r \in Writers(requests) /\ r.kind = "oauth"
    BY <1>6 DEF AnswerOAuth, Writers
  <2>2. \/ Becomes(r, "granted") /\ cookie' = [r.sent EXCEPT !.user = r.user]
        \/ Becomes(r, "bound") /\ UNCHANGED cookie
        \/ Becomes(r, "refused") /\ UNCHANGED cookie
    BY <1>6 DEF AnswerOAuth, LogsIn
  <2> QED
    BY <1>2, <1>3, <1>4, <2>1, <2>2, Answered
<1>7. CASE AnswerLogout(r)
  <2>1. r \in Writers(requests) /\ r.kind = "logout"
    BY <1>7 DEF AnswerLogout, Writers
  <2>2. Becomes(r, "granted") /\ cookie' = [user |-> None, checked |-> FALSE]
    BY <1>7 DEF AnswerLogout
  <2> QED
    BY <1>2, <1>3, <1>4, <2>1, <2>2, Answered
<1>8. CASE AnswerCode(r)
  <2>1. /\ r \in Writers(requests) /\ requests' = requests \ {r}
        /\ UNCHANGED cookie \/ cookie' = [r.sent EXCEPT !.checked = TRUE]
    BY <1>8 DEF AnswerCode, Writers
  <2> QED
    BY <1>2, <1>4, <2>1, Over
<1> QED
  BY <1>5, <1>6, <1>7, <1>8 DEF Answers

-------------------------------------------------------------------------------
\* The tabs deal with the answers.

\* A tab takes the user over that its request has made.
LEMMA TakesOverStep ==
  ASSUME SessionInv, NEW r \in Writers(requests), r.answer = "granted",
         NEW u \in User \cup {None}, NEW p \in Page,
         u = IF r.kind = "logout" THEN None ELSE r.user,
         TakesOver(r, u), Goes(r.tab, p, u), requests' = requests \ {r}, UNCHANGED cookie
  PROVE  SessionInv'
<1>1. Typed /\ AloneInv /\ SettledInv /\ PageInv
  BY DEF SessionInv
<1>2. r \in Request /\ r.tab \in Tab
  BY <1>1, Records DEF Writers, Typed
<1>3. /\ context' = [context EXCEPT ![r.tab] = u]
      /\ store' = u
      /\ current' = {r.tab}
      /\ settled' = r.alone
  BY DEF TakesOver
<1>4. /\ page' \in [Tab -> Page] /\ rendered' \in [Tab -> User \cup {None}]
      /\ rendered' = [rendered EXCEPT ![r.tab] = u]
      /\ \A v \in Tab : page'[v] \in Private => rendered'[v] # None
  BY <1>1, <1>2, GoesIs
<1>5. Typed'
  BY <1>1, <1>2, <1>3, <1>4 DEF Typed
<1>6. Writers(requests)' = Writers(requests) \ {r}
  BY DEF Writers
<1>7. \A q \in Writers(requests)' : ~ q.alone
  BY <1>1, <1>6 DEF AloneInv, OnlyWriter
<1>8. AloneInv'
  BY <1>7 DEF AloneInv, OnlyWriter
<1>9. SettledInv'
  <2> SUFFICES ASSUME r.alone
               PROVE  (\A q \in Writers(requests') : q.alone) /\ Agreed'
    BY <1>3 DEF SettledInv
  <2>1. \A q \in Writers(requests') : q.alone
    BY <1>1, <1>6 DEF AloneInv, OnlyWriter
  <2>2. cookie.user = u
    BY <1>1 DEF AloneInv
  <2>3. context'[r.tab] = u /\ rendered'[r.tab] = u
    BY <1>1, <1>2, <1>3, <1>4 DEF Typed
  <2> QED
    BY <1>3, <2>1, <2>2, <2>3 DEF Agreed
<1>10. PageInv'
  BY <1>1, <1>4 DEF PageInv
<1> QED
  BY <1>5, <1>8, <1>9, <1>10 DEF SessionInv

LEMMA DealsStep ==
  ASSUME SessionInv, NEW r \in requests, Deals(r)
  PROVE  SessionInv'
<1>1. /\ Typed /\ r \in Request /\ r.tab \in Tab /\ r.user \in User \cup {None}
      /\ cookie \in Session /\ page \in [Tab -> Page]
  BY Records DEF SessionInv, Typed
<1>2. UNCHANGED cookie
  BY DEF Deals
<1>3. {"home", "login", "setting"} \subseteq Page
  BY DEF Page
<1>4. CASE OnLogin(r)
  <2>1. /\ r \in Writers(requests) /\ r.answer = "granted" /\ r.kind # "logout"
        /\ TakesOver(r, r.user) /\ Goes(r.tab, "home", r.user)
        /\ requests' = requests \ {r}
    BY <1>4 DEF OnLogin, Writers
  <2> QED
    BY <1>1, <1>2, <1>3, <2>1, TakesOverStep
<1>5. CASE OnLogout(r)
  <2>1. /\ r \in Writers(requests) /\ r.answer = "granted" /\ r.kind = "logout"
        /\ TakesOver(r, None) /\ Goes(r.tab, "login", None)
        /\ requests' = requests \ {r}
    BY <1>5 DEF OnLogout, Writers
  <2> QED
    BY <1>1, <1>2, <1>3, <2>1, TakesOverStep
<1>6. CASE OnRefusal(r) \/ OnOAuth(r) \/ OnStatus(r) \/ OnLoad(r)
  <2>1. /\ requests' = requests \ {r} /\ Keeps
        /\ r \in Writers(requests) => r.answer # "granted"
    BY <1>6 DEF OnRefusal, OnOAuth, OnStatus, OnLoad, Writers
  <2>2. page[r.tab] \in Page
    BY <1>1
  <2>3. \/ UNCHANGED <<page, rendered>>
        \/ \E t \in Tab, p \in Page : Goes(t, p, store)
    BY <1>1, <1>3, <1>6, <2>2 DEF OnRefusal, OnOAuth, OnStatus, OnLoad
  <2> QED
    BY <1>1, <1>2, <2>1, <2>3, Over DEF Keeps
<1> QED
  BY <1>4, <1>5, <1>6 DEF Deals

LEMMA FailStep ==
  ASSUME SessionInv, NEW r \in requests, Fail(r)
  PROVE  SessionInv'
<1>1. Typed /\ AloneInv /\ PageInv /\ r \in Request /\ r.tab \in Tab
  BY Records DEF SessionInv, Typed
<1>2. r.answer = "none" /\ requests' = requests \ {r} /\ UNCHANGED cookie
  BY DEF Fail
<1>3. CASE r.kind = "logout"
  <2>1. /\ context' = [context EXCEPT ![r.tab] = None]
        /\ store' = None
        /\ current' = {r.tab}
        /\ settled' = FALSE
        /\ Goes(r.tab, "login", None)
    BY <1>3 DEF Fail
  <2>2. "login" \in Page
    BY DEF Page
  <2>3. /\ page' \in [Tab -> Page] /\ rendered' \in [Tab -> User \cup {None}]
        /\ \A v \in Tab : page'[v] \in Private => rendered'[v] # None
    BY <1>1, <2>1, <2>2, GoesIs
  <2>4. Typed'
    BY <1>1, <1>2, <2>1, <2>3 DEF Typed
  <2>5. r \in Writers(requests) /\ Writers(requests)' = Writers(requests) \ {r}
    BY <1>2, <1>3 DEF Writers
  <2>6. \A q \in Writers(requests)' : ~ q.alone
    BY <1>1, <2>5 DEF AloneInv, OnlyWriter
  <2>7. AloneInv' /\ SettledInv'
    BY <2>1, <2>6 DEF AloneInv, OnlyWriter, SettledInv
  <2>8. PageInv'
    BY <1>1, <1>2, <2>3 DEF PageInv
  <2> QED
    BY <2>4, <2>7, <2>8 DEF SessionInv
<1>4. CASE r.kind # "logout"
  <2>1. UNCHANGED <<store, context, current, settled, page, rendered>>
    BY <1>4 DEF Fail, Keeps
  <2>2. cookie' \in Session
    BY <1>1, <1>2 DEF Typed
  <2> QED
    BY <1>2, <2>1, <2>2, Over
<1> QED
  BY <1>3, <1>4

LEMMA ExpireStep ==
  ASSUME SessionInv, Expire
  PROVE  SessionInv'
<1>1. Typed /\ PageInv
  BY DEF SessionInv
<1>2. /\ cookie' = [user |-> None, checked |-> FALSE]
      /\ requests' = (requests \ Writers(requests)) \cup Disturbed(Writers(requests))
      /\ settled' = FALSE
      /\ UNCHANGED <<store, context, page, rendered, current>>
  BY DEF Expire
<1>3. requests \in SUBSET Request
  BY <1>1 DEF Typed
<1>4. /\ requests' \in SUBSET Request
      /\ \A r \in Writers(requests') : ~ r.alone
      /\ \A r \in requests' : \E q \in requests : r.kind = q.kind /\ r.answer = q.answer
  BY <1>2, <1>3, DisturbedIs
<1>5. Typed'
  BY <1>1, <1>2, <1>4 DEF Typed, Session
<1>6. AloneInv' /\ SettledInv'
  BY <1>2, <1>4 DEF AloneInv, OnlyWriter, SettledInv
<1>7. PageInv'
  BY <1>1, <1>2, <1>4 DEF PageInv
<1> QED
  BY <1>5, <1>6, <1>7 DEF SessionInv

-------------------------------------------------------------------------------
\* Every step.

LEMMA SessionStep == SessionInv /\ [Next]_vars => SessionInv'
<1> SUFFICES ASSUME SessionInv, [Next]_vars PROVE SessionInv'
  OBVIOUS
<1>1. Typed /\ AloneInv /\ SettledInv /\ PageInv
  BY DEF SessionInv
<1>2. ASSUME NEW t \in Tab, NEW p \in Page, NEW u \in User \cup {None}, Open(t, p, u)
      PROVE  SessionInv'
  BY <1>2, MountStep DEF Open
<1>3. ASSUME NEW t \in Tab, NEW p \in Page, Visit(t, p)
      PROVE  SessionInv'
  <2> DEFINE new == LoadOf(t, Guarded(p, store))
  <2>1. /\ Send(requests, new) /\ Goes(t, p, store)
        /\ UNCHANGED <<cookie, store, context, current>>
    BY <1>3 DEF Visit
  <2>2. "load" \in Kind /\ None \in User \cup {None}
    BY DEF Kind
  <2>3. \A n \in new : n = New(t, "load", None)
    BY DEF LoadOf
  <2>4. /\ new \in SUBSET Request
        /\ \A n \in new : n.answer = "none" /\ n.sent = cookie /\ n.kind # "oauth"
    BY <1>1, <2>2, <2>3, NewZero
  <2> HIDE DEF new
  <2> QED
    BY <2>1, <2>4, SendStep
<1>4. ASSUME NEW t \in Tab, NEW kind \in {"login", "logout", "code"},
             NEW u \in User \cup {None}, NEW n \in Another(t, kind),
             Send(requests, {NthNew(t, kind, u, n)}),
             UNCHANGED <<cookie, store, context, page, rendered, current>>
      PROVE  SessionInv'
  <2>1. kind \in Kind /\ n \in 0..MaxRequests
    BY DEF Kind, Another
  <2>2. /\ NthNew(t, kind, u, n) \in Request
        /\ NthNew(t, kind, u, n).answer = "none"
        /\ NthNew(t, kind, u, n).sent = cookie
        /\ NthNew(t, kind, u, n).kind = kind
    BY <1>1, <2>1, NewIs
  <2> QED
    BY <1>4, <2>2, SendStep
<1>5. ASSUME NEW t \in Tab, NEW u \in User, Login(t, u)
      PROVE  SessionInv'
  BY <1>4, <1>5 DEF Login
<1>6. ASSUME NEW t \in Tab, Logout(t) \/ SendCode(t)
      PROVE  SessionInv'
  BY <1>4, <1>6 DEF Logout, SendCode
<1>7. ASSUME NEW r \in requests, Unauthorized(r)
      PROVE  SessionInv'
  <2>1. r.tab \in Tab
    BY <1>1, Records DEF Typed
  <2>2. "login" \in Page /\ None \in User \cup {None}
    BY DEF Page
  <2> QED
    BY <1>7, <2>1, <2>2, MountStep DEF Unauthorized
<1>8. CASE UNCHANGED vars
  BY <1>1, <1>8
     DEF vars, SessionInv, Typed, AloneInv, SettledInv, PageInv, OnlyWriter, Writers,
         Granted, Agreed
<1>9. CASE Server \/ Browser
  BY <1>7, <1>9, AnswersStep, DealsStep DEF Server, Browser
<1> QED
  BY <1>2, <1>3, <1>5, <1>6, <1>8, <1>9, FailStep, ExpireStep DEF Next

LEMMA SessionAlways == Spec => []SessionInv
<1>1. Init => SessionInv
  BY SessionInit
<1>2. SessionInv /\ [Next]_vars => SessionInv'
  BY SessionStep
<1> QED
  BY <1>1, <1>2, PTL DEF Spec

-------------------------------------------------------------------------------
\* The properties.

\* When nothing that writes the session is under way and the last login or logout
\* ran alone, server, localStorage and tabs name the same user: whatever two tabs
\* sent at once before it (App.js, LoginForm.js, Header.js, the cookie store).
THEOREM NamesAgree == Spec => []OneUserEverywhere
<1>1. SessionInv => OneUserEverywhere
  <2> SUFFICES ASSUME SessionInv, settled, Quiet PROVE Agreed
    BY DEF OneUserEverywhere, Agreed
  <2>1. Granted(requests) = {}
    BY DEF Quiet, Granted
  <2> QED
    BY <2>1 DEF SessionInv, SettledInv
<1> QED
  BY <1>1, SessionAlways, PTL

\* Then every link of such a tab leads to a page whose requests the server allows:
\* the roles of the browser are those of authHelper.
THEOREM LinksLead == Spec => []LinksAreAllowed
<1>1. SessionInv => LinksAreAllowed
  <2> SUFFICES ASSUME SessionInv, settled, Quiet, NEW t \in current, NEW p \in Links(t),
                      Guarded(p, store) = p
               PROVE  Allowed(cookie.user, p)
    BY DEF LinksAreAllowed
  <2>1. Granted(requests) = {} /\ Typed /\ PageInv /\ t \in Tab
    BY DEF Quiet, Granted, SessionInv, Typed
  <2>2. store = cookie.user /\ rendered[t] = store /\ context[t] = store
    BY <2>1 DEF SessionInv, SettledInv, Agreed
  <2>3. cookie.user # None => Role[cookie.user] \in 1..100
    BY <2>1, UserAssumption DEF Typed, Session
  <2>4. CASE p \in {"home", "login", "register", "setting", "oauth"}
    BY <2>4 DEF Allowed, Needed
  <2>5. CASE p = "edit"
    <3>1. page[t] = "setting"
      BY <2>5 DEF Links
    <3>2. cookie.user # None
      BY <2>1, <2>2, <3>1 DEF PageInv, Private
    <3> QED
      BY <2>3, <2>5, <3>2 DEF Allowed, Needed, RoleCommonUser
  <2>6. CASE p = "tables"
    BY <2>2, <2>6 DEF Links, Allowed, Needed, IsAdmin
  <2>7. CASE p = "system"
    BY <2>2, <2>7 DEF Links, Allowed, Needed, IsRoot
  <2> QED
    BY <2>4, <2>5, <2>6, <2>7 DEF Links
<1> QED
  BY <1>1, SessionAlways, PTL

\* An identity is bound to the account that the tab names: the way back from GitHub
\* is the same for a login and for a binding, and the session decides which it is
\* (GitHubOAuth of the page and of the server).
THEOREM BoundToNamed == Spec => BoundToTheNamedUser
<1>1. ASSUME SessionInv, SessionInv', NEW r \in requests, r.answer = "none", settled,
             [r EXCEPT !.answer = "bound"] \in requests'
      PROVE  context[r.tab] = r.sent.user
  <2>1. Typed /\ AloneInv /\ SettledInv /\ PageInv' /\ r \in Request
    BY <1>1 DEF SessionInv, Typed
  <2>2. /\ [r EXCEPT !.answer = "bound"].answer = "bound"
        /\ [r EXCEPT !.answer = "bound"].kind = r.kind
    BY <2>1, Records DEF Answer
  <2>3. r.kind = "oauth"
    BY <1>1, <2>1, <2>2 DEF PageInv
  <2>4. r \in Writers(requests)
    BY <1>1, <2>3 DEF Writers
  <2>5. r.alone
    BY <1>1, <2>1, <2>4 DEF SettledInv
  <2>6. r.sent = cookie /\ r.tab \in current
    BY <1>1, <2>1, <2>3, <2>4, <2>5 DEF AloneInv
  <2>7. Granted(requests) = {}
    BY <1>1, <2>1, <2>4, <2>5 DEF AloneInv, OnlyWriter, Granted
  <2> QED
    BY <1>1, <2>1, <2>6, <2>7 DEF SettledInv, Agreed
<1>2. SessionInv /\ SessionInv' /\ [Next]_vars =>
        [\A r \in requests :
           [r EXCEPT !.answer = "bound"] \in requests' /\ r.answer = "none" /\ settled
             => context[r.tab] = r.sent.user]_vars
  BY <1>1
<1>3. Spec => [][Next]_vars
  BY PTL DEF Spec
<1> QED
  BY <1>2, <1>3, SessionAlways, PTL DEF BoundToTheNamedUser

-------------------------------------------------------------------------------
\* Types.

Counted == acts \in 0..MaxActs /\ faults \in 0..MaxFaults
Flagged == settled \in BOOLEAN

LEMMA CountedStep == Counted /\ [Next]_vars => Counted'
<1> SUFFICES ASSUME Counted, [Next]_vars PROVE Counted'
  OBVIOUS
<1>1. \/ acts' = acts /\ faults' = faults
      \/ acts < MaxActs /\ acts' = acts + 1 /\ faults' = faults
      \/ faults < MaxFaults /\ faults' = faults + 1 /\ acts' = acts
  <2>1. ASSUME NEW t \in Tab, NEW p \in Page, NEW u \in User \cup {None},
               Open(t, p, u) \/ Visit(t, p) \/ Login(t, u) \/ Logout(t) \/ SendCode(t)
        PROVE  acts < MaxActs /\ acts' = acts + 1 /\ faults' = faults
    BY <2>1 DEF Open, Visit, Login, Logout, SendCode, Act
  <2>2. CASE Expire
    BY <2>2 DEF Expire, Act
  <2>3. ASSUME NEW r \in requests, Fail(r)
        PROVE  faults < MaxFaults /\ faults' = faults + 1 /\ acts' = acts
    BY <2>3 DEF Fail
  <2>4. CASE Server \/ Browser \/ UNCHANGED vars
    BY <2>4 DEF Server, Browser, Answers, Deals, Unauthorized, vars
  <2>5. "home" \in Page /\ None \in User \cup {None}
    BY DEF Page
  <2> QED
    BY <2>1, <2>2, <2>3, <2>4, <2>5 DEF Next
<1> QED
  BY <1>1, BoundAssumption DEF Counted

LEMMA FlaggedStep == SessionInv /\ Flagged /\ [Next]_vars => Flagged'
<1> SUFFICES ASSUME SessionInv, settled \in BOOLEAN, [Next]_vars
             PROVE  settled' \in BOOLEAN
  BY DEF Flagged
<1>1. \A r \in requests : r.alone \in BOOLEAN /\ r.tab \in Tab
  BY Records DEF SessionInv, Typed
<1>2. ASSUME NEW t, NEW p, NEW u, Mount(t, p, u) PROVE settled' \in BOOLEAN
  BY <1>2 DEF Mount
<1>3. ASSUME NEW rs, NEW new, Send(rs, new) PROVE settled' \in BOOLEAN
  BY <1>3 DEF Send
<1>4. ASSUME NEW r \in requests, Answers(r) \/ Deals(r) \/ Unauthorized(r) \/ Fail(r)
      PROVE  settled' \in BOOLEAN
  <2>1. CASE Answers(r)
    BY <2>1 DEF Answers
  <2>2. CASE Deals(r)
    BY <1>1, <2>2
       DEF Deals, OnLogin, OnRefusal, OnOAuth, OnLogout, OnStatus, OnLoad, TakesOver, Keeps
  <2>3. CASE Unauthorized(r)
    BY <1>2, <2>3 DEF Unauthorized
  <2>4. CASE Fail(r)
    BY <2>4 DEF Fail, Keeps
  <2> QED
    BY <1>4, <2>1, <2>2, <2>3, <2>4
<1>5. CASE \E t \in Tab :
             \/ \E p \in Page, u \in User \cup {None} : Open(t, p, u)
             \/ \E p \in Page : Visit(t, p)
             \/ \E u \in User : Login(t, u)
             \/ Logout(t)
             \/ SendCode(t)
  BY <1>2, <1>3, <1>5 DEF Open, Visit, Login, Logout, SendCode
<1>6. CASE Expire \/ UNCHANGED vars
  BY <1>6 DEF Expire, vars
<1> QED
  BY <1>4, <1>5, <1>6 DEF Next, Server, Browser

\* Every variable keeps its type, the bounds included.
THEOREM TypeCorrect == Spec => []TypeOK
<1>1. Init => Counted
  BY BoundAssumption DEF Init, Counted
<1>2. Init => Flagged
  BY DEF Init, Flagged
<1>3. Spec => []Counted /\ []Flagged
  BY <1>1, <1>2, CountedStep, FlaggedStep, SessionAlways, PTL DEF Spec
<1>4. SessionInv /\ Counted /\ Flagged => TypeOK
  BY DEF SessionInv, Typed, Counted, Flagged, TypeOK
<1> QED
  BY <1>3, <1>4, SessionAlways, PTL

===============================================================================
