---------------------------- MODULE WebFormsProofs ----------------------------
(***************************************************************************)
(* Proofs about WebForms for every set of forms and texts, and any numbers  *)
(* of clicks, changes by others, tokens and faults.                         *)
(***************************************************************************)
EXTENDS WebForms, TLAPS

-------------------------------------------------------------------------------
\* What variables and requests are.

Filled(f) == [Fields(f) -> Text \cup {Blank}]

Values == {None} \cup UNION {Filled(f) : f \in AllForms}

RequestRecord ==
  [id : Nat, button : Button, phase : Phase, sent : Values, token : 0..MaxTokens,
   checked : BOOLEAN, twin : BOOLEAN, dirty : SUBSET (AllFields \ {"status"}),
   value : Values, secret : Nat]

ButtonsOf(f) ==
  CASE f \in {"register", "left"} -> {"register", "code"}
    [] f = "personal" -> {"code", "token", "bindEmail", "bindWeChat"}
    [] f = "reset" -> {"mail"}
    [] f = "confirm" -> {"confirm"}
    [] f \in Edits -> {"submit", "load"}
    [] OTHER -> {"submit"}

\* A request is one that the open form sends.
Fits(r) ==
  /\ r.button \in ButtonsOf(form)
  /\ r.button = "submit" => r.sent \in Filled(form)
  /\ r.button = "load" /\ r.phase = "granted" => r.value \in Filled(form)
  /\ r.button \in {"load", "submit"} => r.phase \in {"passed", "granted", "refused"}
  /\ r.button \in Guarded /\ status.turnstile_check => r.token # 0

TypeInv ==
  /\ TypeOK
  /\ requests \subseteq RequestRecord
  /\ \A r \in requests : Fits(r)
  /\ form \notin Edits => row = None
  /\ "status" \notin touched \cup dirty

-------------------------------------------------------------------------------
\* Forms and buttons.

LEMMA FieldsAreFields == \A f \in AllForms \cup {"left"} : Fields(f) \subseteq AllFields
<1>1. \A f \in AllForms : Fields(f) \subseteq AllFields
  BY DEF AllFields
<1>2. Fields("left") = {}
  BY DEF Fields, UserEdits
<1> QED
  BY <1>1, <1>2

LEMMA FormIs == TypeOK => form \in AllForms \cup {"left"}
BY FormAssumption DEF TypeOK

\* What can be typed into is a field of the form, and never the status.
LEMMA TypedFields ==
  ASSUME TypeOK
  PROVE  /\ Page.typed \subseteq Fields(form) \ {"status"}
         /\ form \in Edits /\ loading => Page.typed = {}
<1>1. form \in AllForms \cup {"left"}
  BY FormIs
<1>2. status.email_verification \in BOOLEAN
  BY DEF TypeOK
<1> QED
  BY <1>1, <1>2
  DEF Page, RegisterPage, PersonalPage, ResetPage, ConfirmPage, AddUserPage, EditUserPage,
      EditProfilePage, Shown, Fields, AllForms, Edits, UserEdits

\* The buttons of a page are those of its form.
LEMMA ShownButtons ==
  ASSUME TypeOK, NEW b \in Page.buttons
  PROVE  /\ b \in ButtonsOf(form)
         /\ b \in Button
         /\ form \in AllForms
         /\ b # "load"
         /\ form \in Edits => ~loading
<1>1. form \in AllForms \cup {"left"}
  BY FormIs
<1> QED
  BY <1>1
  DEF Page, RegisterPage, PersonalPage, ResetPage, ConfirmPage, AddUserPage, EditUserPage,
      EditProfilePage, Shown, ButtonsOf, Button, Guarded, Spinning, AllForms, Edits, UserEdits

Click(b) == Press(b, TRUE)

LEMMA UserClicks ==
  ASSUME User
  PROVE  \/ \E f \in AllFields, text \in Text \cup {Blank} : Type(f, text)
         \/ \E m \in {"none", "email", "wechat"} : Turn(m)
         \/ \E b \in Page.buttons : Click(b)
BY DEF User, Register, SendVerificationCode, SendReset, ConfirmReset, GenerateToken,
       BindEmail, BindWeChat, SubmitUser, SubmitEdit, SubmitProfile, Click, Press
-------------------------------------------------------------------------------
\* How the set of requests changes.

\* The record of a request, except that it may be a twin now.
Alike(q, r) ==
  /\ q.id = r.id /\ q.button = r.button /\ q.phase = r.phase /\ q.sent = r.sent
  /\ q.token = r.token /\ q.checked = r.checked /\ q.dirty = r.dirty
  /\ q.value = r.value /\ q.secret = r.secret
  /\ r.twin => q.twin

\* A click adds a request and makes twins of some others.
IsNew(new, b, twin) ==
  /\ new \in RequestRecord
  /\ new.button = b
  /\ new.phase = IF b \in {"load", "submit"} THEN "passed" ELSE "sent"
  /\ new.sent = IF b = "submit" THEN inputs ELSE None
  /\ new.token = IF b \in Guarded THEN token ELSE 0
  /\ new.checked = checked
  /\ new.dirty = dirty
  /\ new.twin = twin

\* A request comes before the same guards with the same token.
Shares(r, b) == b \in Guarded /\ r.button \in Guarded /\ r.token = token

Sends(b, new) ==
  /\ IsNew(new, b, Twins(b) # {})
  /\ new \in requests'
  /\ \A q \in requests' : q = new \/ \E r \in requests : Alike(q, r)
  /\ \A q \in requests' : q \in RequestRecord
  /\ \A q \in requests' :
       \/ q = new
       \/ q \in requests /\ ~ Shares(q, b)
       \/ q.twin /\ Shares(q, b)
  /\ \A r \in requests : \E q \in requests' : Alike(q, r)

LEMMA MadeTwin ==
  ASSUME NEW r \in RequestRecord
  PROVE  /\ [r EXCEPT !.twin = TRUE] \in RequestRecord
         /\ Alike([r EXCEPT !.twin = TRUE], r)
         /\ [r EXCEPT !.twin = TRUE].twin
         /\ Alike(r, r)
BY DEF RequestRecord, Alike

LEMMA NewRequest ==
  ASSUME TypeInv, NEW b \in Page.buttons, NEW twin \in BOOLEAN, NEW id \in Nat,
         NEW new, new = [Request(id, b) EXCEPT !.twin = twin]
  PROVE  IsNew(new, b, twin)
<1>1. b \in Button /\ form \in AllForms
  BY ShownButtons DEF TypeInv
<1>2. inputs \in Values
  BY <1>1 DEF TypeInv, TypeOK, Values, Filled
<1>3. None \in Values
  BY DEF Values
<1>4. /\ token \in 0..MaxTokens /\ 0 \in 0..MaxTokens
      /\ checked \in BOOLEAN /\ dirty \in SUBSET (AllFields \ {"status"})
  BY BoundAssumption DEF TypeInv, TypeOK
<1>5. (IF b \in {"load", "submit"} THEN "passed" ELSE "sent") \in Phase
  BY DEF Phase
<1> DEFINE phase == IF b \in {"load", "submit"} THEN "passed" ELSE "sent"
           sent == IF b = "submit" THEN inputs ELSE None
           t == IF b \in Guarded THEN token ELSE 0
<1>6. new
        = [id |-> id, button |-> b, phase |-> phase, sent |-> sent, token |-> t,
           checked |-> checked, twin |-> twin, dirty |-> dirty, value |-> None,
           secret |-> 0]
  BY DEF Request
<1>7. /\ phase \in Phase /\ sent \in Values /\ t \in 0..MaxTokens
  BY <1>2, <1>3, <1>4, <1>5
<1> HIDE DEF phase, sent, t
<1>8. [id |-> id, button |-> b, phase |-> phase, sent |-> sent, token |-> t,
       checked |-> checked, twin |-> twin, dirty |-> dirty, value |-> None,
       secret |-> 0] \in RequestRecord
  BY <1>1, <1>3, <1>4, <1>7 DEF RequestRecord
<1>9. /\ new \in RequestRecord
      /\ new.button = b /\ new.phase = phase /\ new.sent = sent /\ new.token = t
      /\ new.checked = checked /\ new.dirty = dirty /\ new.twin = twin
  <2>1. new \in RequestRecord
    BY <1>6, <1>8
  <2>2. new.button = b /\ new.phase = phase /\ new.sent = sent /\ new.token = t
    BY <1>6
  <2>3. new.checked = checked
    BY <1>4, <1>6
  <2>4. new.dirty = dirty
    BY <1>6
  <2>5. new.twin = twin
    BY <1>6, Zenon
  <2> QED
    BY <2>1, <2>2, <2>3, <2>4, <2>5, Zenon
<1> QED
  BY <1>9 DEF phase, sent, t, IsNew

LEMMA Clicked ==
  ASSUME TypeInv, NEW b \in Page.buttons, Click(b)
  PROVE  \E new : Sends(b, new)
<1> DEFINE twins == Twins(b)
           new == [Request(clicks', b) EXCEPT !.twin = (twins # {})]
<1>1. requests' = (requests \ twins) \cup {[r EXCEPT !.twin = TRUE] : r \in twins} \cup {new}
  BY DEF Click, Press
<1>2. clicks' \in Nat
  BY DEF Click, Press, TypeInv, TypeOK
<1>3. IsNew(new, b, twins # {})
  <2>1. (twins # {}) \in BOOLEAN
    OBVIOUS
  <2>2. PICK twin \in BOOLEAN : twin = (twins # {})
    BY <2>1
  <2>3. new = [Request(clicks', b) EXCEPT !.twin = twin]
    BY <2>2
  <2> HIDE DEF new, twins
  <2> QED
    BY <1>2, <2>2, <2>3, NewRequest
<1>4. /\ twins \subseteq requests
      /\ \A r \in requests : r \in twins <=> Shares(r, b)
  BY DEF Twins, Shares
<1>5. twins = Twins(b)
  OBVIOUS
<1> HIDE DEF twins, new
<1>6. requests \subseteq RequestRecord
  BY DEF TypeInv
<1>7. new \in requests'
  BY <1>1
<1>8. ASSUME NEW q \in requests'
      PROVE  /\ q = new \/ \E r \in requests : Alike(q, r)
             /\ q \in RequestRecord
             /\ \/ q = new
                \/ q \in requests /\ ~ Shares(q, b)
                \/ q.twin /\ Shares(q, b)
  <2>1. CASE q = new
    BY <1>3, <2>1 DEF IsNew
  <2>2. CASE q \in requests \ twins
    BY <1>4, <1>6, <2>2, MadeTwin
  <2>3. CASE q \in {[r EXCEPT !.twin = TRUE] : r \in twins}
    <3>1. PICK r \in twins : q = [r EXCEPT !.twin = TRUE]
      BY <2>3
    <3> QED
      BY <1>4, <1>6, <3>1, MadeTwin DEF Shares, Alike
  <2> QED
    BY <1>1, <2>1, <2>2, <2>3
<1>9. ASSUME NEW r \in requests PROVE \E q \in requests' : Alike(q, r)
  <2>1. CASE r \in twins
    <3>1. [r EXCEPT !.twin = TRUE] \in requests'
      BY <1>1, <2>1
    <3> QED
      BY <1>6, <3>1, MadeTwin
  <2>2. CASE r \notin twins
    BY <1>1, <1>6, <2>2, MadeTwin
  <2> QED
    BY <2>1, <2>2
<1>10. Sends(b, new)
  BY <1>3, <1>5, <1>7, <1>8, <1>9 DEF Sends
<1> QED
  BY <1>10
\* The server changes one request.
Moves(r, s) ==
  /\ s \in RequestRecord
  /\ requests' = (requests \ {r}) \cup {s}
  /\ s.id = r.id /\ s.button = r.button /\ s.sent = r.sent /\ s.token = r.token
  /\ s.checked = r.checked /\ s.twin = r.twin /\ s.dirty = r.dirty

LEMMA BecomesMoves ==
  ASSUME NEW r \in RequestRecord, NEW phase \in Phase, Becomes(r, phase)
  PROVE  \E s : Moves(r, s) /\ s.phase = phase /\ s.value = r.value /\ s.secret = r.secret
<1> DEFINE s == [r EXCEPT !.phase = phase]
<1>1. /\ s \in RequestRecord
      /\ s.id = r.id /\ s.button = r.button /\ s.sent = r.sent /\ s.token = r.token
      /\ s.checked = r.checked /\ s.twin = r.twin /\ s.dirty = r.dirty
      /\ s.phase = phase /\ s.value = r.value /\ s.secret = r.secret
  BY DEF RequestRecord
<1>2. requests' = (requests \ {r}) \cup {s}
  BY DEF Becomes
<1> HIDE DEF s
<1> QED
  BY <1>1, <1>2 DEF Moves

WithSecret(r, phase, n) == [r EXCEPT !.phase = phase, !.secret = n]

WithValue(r, phase, v) == [r EXCEPT !.phase = phase, !.value = v]

LEMMA SecretMoves ==
  ASSUME NEW r \in RequestRecord, NEW phase \in Phase, NEW n \in Nat,
         NEW s, s = WithSecret(r, phase, n), requests' = (requests \ {r}) \cup {s}
  PROVE  Moves(r, s) /\ s.phase = phase /\ s.value = r.value /\ s.secret = n
<1>1. /\ s \in RequestRecord
      /\ s.id = r.id /\ s.button = r.button /\ s.sent = r.sent /\ s.token = r.token
      /\ s.checked = r.checked /\ s.twin = r.twin /\ s.dirty = r.dirty
      /\ s.phase = phase /\ s.value = r.value /\ s.secret = n
  BY DEF RequestRecord, WithSecret
<1> QED
  BY <1>1 DEF Moves

LEMMA ValueMoves ==
  ASSUME NEW r \in RequestRecord, NEW phase \in Phase, NEW v \in Values,
         NEW s, s = WithValue(r, phase, v), requests' = (requests \ {r}) \cup {s}
  PROVE  Moves(r, s) /\ s.phase = phase /\ s.value = v /\ s.secret = r.secret
<1>1. /\ s \in RequestRecord
      /\ s.id = r.id /\ s.button = r.button /\ s.sent = r.sent /\ s.token = r.token
      /\ s.checked = r.checked /\ s.twin = r.twin /\ s.dirty = r.dirty
      /\ s.phase = phase /\ s.value = v /\ s.secret = r.secret
  BY DEF RequestRecord, WithValue
<1> QED
  BY <1>1 DEF Moves

\* What a handler finds out before it writes.
Asked(r) == status.turnstile_check /\ ~r.checked

Begins(r, s) ==
  /\ Moves(r, s)
  /\ s.phase \in {"passed", "refused", "turnstile"}
  /\ s.value = r.value
  /\ UNCHANGED <<row, secret, code>>
  /\ r.button \notin {"load", "submit"}
  /\ IF r.button \in Guarded
     THEN /\ spent' = IF Asked(r) THEN spent \cup {r.token} ELSE spent
          /\ s.phase = IF Asked(r) /\ r.token \in spent THEN "turnstile" ELSE "passed"
     ELSE spent' = spent /\ s.phase # "turnstile"
  /\ r.button \in {"token", "bindEmail", "bindWeChat"} =>
       s.phase = "passed" /\ s.secret = secret

LEMMA BeginMoves ==
  ASSUME TypeInv, NEW r \in requests, Begin(r)
  PROVE  \E s : Begins(r, s)
<1>1. r \in RequestRecord /\ secret \in Nat
  BY DEF TypeInv, TypeOK
<1>2. {"passed", "refused", "turnstile"} \subseteq Phase
  BY DEF Phase
<1>3. CASE CheckTurnstile(r)
  <2> DEFINE phase == IF Asked(r) /\ r.token \in spent THEN "turnstile" ELSE "passed"
  <2>1. /\ r.button \in Guarded
        /\ spent' = IF Asked(r) THEN spent \cup {r.token} ELSE spent
        /\ UNCHANGED <<row, secret, code>>
    BY <1>3 DEF CheckTurnstile, Asked
  <2>2. Becomes(r, phase)
    BY <1>3 DEF CheckTurnstile, Asked
  <2>3. phase \in {"passed", "turnstile"}
    OBVIOUS
  <2>4. phase = IF Asked(r) /\ r.token \in spent THEN "turnstile" ELSE "passed"
    OBVIOUS
  <2> HIDE DEF phase
  <2>5. PICK s : Moves(r, s) /\ s.phase = phase /\ s.value = r.value
    BY <1>1, <1>2, <2>2, <2>3, BecomesMoves
  <2>6. r.button \notin {"load", "submit", "token", "bindEmail", "bindWeChat"}
    BY <2>1 DEF Guarded
  <2>7. Begins(r, s)
    BY <2>1, <2>3, <2>4, <2>5, <2>6 DEF Begins
  <2> QED
    BY <2>7
<1>4. CASE CheckCode(r)
  <2> DEFINE phase == IF code THEN "passed" ELSE "refused"
  <2>1. r.button = "confirm" /\ Becomes(r, phase) /\ UNCHANGED <<spent, row, secret, code>>
    BY <1>4 DEF CheckCode, server
  <2>2. phase \in {"passed", "refused"}
    OBVIOUS
  <2> HIDE DEF phase
  <2>3. PICK s : Moves(r, s) /\ s.phase = phase /\ s.value = r.value
    BY <1>1, <1>2, <2>1, <2>2, BecomesMoves
  <2>4. r.button \notin Guarded \cup {"load", "submit", "token", "bindEmail", "bindWeChat"}
    BY <2>1 DEF Guarded
  <2>5. Begins(r, s)
    BY <2>1, <2>2, <2>3, <2>4 DEF Begins
  <2> QED
    BY <2>5
<1>5. CASE ReadUser(r)
  <2>1. /\ r.button \in {"token", "bindEmail", "bindWeChat"}
        /\ requests' = (requests \ {r}) \cup {WithSecret(r, "passed", secret)}
        /\ UNCHANGED <<spent, row, secret, code>>
    BY <1>5 DEF ReadUser, server, WithSecret
  <2>2. PICK s : s = WithSecret(r, "passed", secret)
    OBVIOUS
  <2>3. Moves(r, s) /\ s.phase = "passed" /\ s.value = r.value /\ s.secret = secret
    BY <1>1, <1>2, <2>1, <2>2, SecretMoves
  <2>4. r.button \notin Guarded \cup {"load", "submit"}
    BY <2>1 DEF Guarded
  <2>5. Begins(r, s)
    BY <2>1, <2>3, <2>4 DEF Begins
  <2> QED
    BY <2>5
<1> QED
  BY <1>3, <1>4, <1>5 DEF Begin

\* What a handler writes.
Got == [f \in Fields(form) |-> IF f = "password" THEN Blank ELSE row[f]]

Finishes(r, s) ==
  /\ Moves(r, s)
  /\ UNCHANGED spent
  /\ \/ /\ s.phase = "refused" /\ s.secret = r.secret
        /\ r.button = "load" => row = None
        /\ UNCHANGED <<row, secret>>
     \/ /\ s.phase = "granted" /\ r.button = "submit" /\ form \in Edits
        /\ row' = IF row = None THEN None ELSE Stored(r)
        /\ UNCHANGED secret
     \/ /\ s.phase = "granted" /\ r.button \in Guarded \cup {"submit"}
        /\ r.button = "submit" => form \notin Edits
        /\ UNCHANGED <<row, secret>>
     \/ /\ s.phase = "granted" /\ r.button \in {"confirm", "token"}
        /\ secret' = r.id /\ s.secret = r.id
        /\ UNCHANGED row
     \/ /\ s.phase = "granted" /\ r.button \in {"bindEmail", "bindWeChat"}
        /\ secret' = r.secret
        /\ UNCHANGED row
     \/ /\ s.phase = "granted" /\ r.button = "load" /\ row # None
        /\ s.value = Got /\ Got \in Filled(form)
        /\ UNCHANGED <<row, secret>>

LEMMA FinishMoves ==
  ASSUME TypeInv, NEW r \in requests, Finish(r)
  PROVE  \E s : Finishes(r, s)
<1>1. r \in RequestRecord /\ Fits(r) /\ spent' = spent
  BY DEF TypeInv, Finish
<1>2. {"granted", "refused"} \subseteq Phase /\ r.id \in Nat
  BY <1>1 DEF Phase, RequestRecord
<1>3. CASE Save(r)
  <2>1. PICK s : Moves(r, s) /\ s.phase = "granted"
    BY <1>1, <1>2, <1>3, BecomesMoves DEF Save
  <2> QED
    BY <1>1, <1>3, <2>1 DEF Save, Finishes
<1>4. CASE Grant(r)
  <2>1. PICK s : Moves(r, s) /\ s.phase = "granted"
    BY <1>1, <1>2, <1>4, BecomesMoves DEF Grant
  <2>2. /\ r.button \in Guarded \cup {"submit"}
        /\ r.button = "submit" => form \notin Edits
        /\ UNCHANGED <<row, secret>>
    BY <1>4 DEF Grant, Guarded
  <2> QED
    BY <1>1, <2>1, <2>2 DEF Finishes
<1>5. CASE SetPassword(r) \/ SetToken(r)
  <2>1. /\ r.button \in {"confirm", "token"} /\ secret' = r.id /\ UNCHANGED row
        /\ requests' = (requests \ {r}) \cup {WithSecret(r, "granted", r.id)}
    BY <1>5 DEF SetPassword, SetToken, WithSecret
  <2>2. PICK s : s = WithSecret(r, "granted", r.id)
    OBVIOUS
  <2>3. Moves(r, s) /\ s.phase = "granted" /\ s.secret = r.id
    BY <1>1, <1>2, <2>1, <2>2, SecretMoves
  <2> QED
    BY <1>1, <2>1, <2>3 DEF Finishes
<1>6. CASE Bind(r)
  <2>1. PICK s : Moves(r, s) /\ s.phase = "granted"
    BY <1>1, <1>2, <1>6, BecomesMoves DEF Bind
  <2> QED
    BY <1>1, <1>6, <2>1 DEF Bind, Finishes
<1>7. CASE Read(r)
  <2>1. /\ r.button = "load" /\ row # None /\ UNCHANGED <<row, secret>>
        /\ requests' = (requests \ {r}) \cup {WithValue(r, "granted", Got)}
    BY <1>7 DEF Read, Got, WithValue
  <2>2. form \in Edits
    BY <1>1, <2>1 DEF Fits, ButtonsOf
  <2>3. Got \in Filled(form)
    <3>1. row \in [Columns(form) -> Text \cup {Blank}]
      BY <2>1 DEF TypeInv, TypeOK, Record
    <3>2. Fields(form) \subseteq Columns(form)
      BY <2>2 DEF Columns
    <3> QED
      BY <3>1, <3>2 DEF Got, Filled
  <2>4. Got \in Values
    BY <2>2, <2>3 DEF Values, AllForms
  <2>5. PICK s : s = WithValue(r, "granted", Got)
    OBVIOUS
  <2>6. Moves(r, s) /\ s.phase = "granted" /\ s.value = Got
    BY <1>1, <1>2, <2>1, <2>4, <2>5, ValueMoves
  <2> QED
    BY <1>1, <2>1, <2>3, <2>6 DEF Finishes
<1>8. CASE Refuse(r)
  <2>1. PICK s : Moves(r, s) /\ s.phase = "refused" /\ s.secret = r.secret
    BY <1>1, <1>2, <1>8, BecomesMoves DEF Refuse
  <2> QED
    BY <1>1, <1>8, <2>1 DEF Refuse, Finishes
<1> QED
  BY <1>3, <1>4, <1>5, <1>6, <1>7, <1>8 DEF Finish
\* What a form does with an answer.
Deals(r) ==
  /\ r.phase \in {"granted", "refused", "turnstile"}
  /\ requests' = requests \ {r}
  /\ UNCHANGED <<status, token, server, checked, clicks, others, faults, foreign, lone>>
  /\ \/ form = "left" /\ Stays /\ UNCHANGED loading
     \/ /\ form # "left" /\ loading' = (loading /\ r.button \notin Spinning \cup {"load"})
        /\ \/ r.phase # "granted" /\ OnRefused(r)
           \/ r.phase = "granted" /\ form = "register" /\ r.button = "register" /\ OnRegister
           \/ r.phase = "granted" /\ form \in {"reset", "addUser"} /\ OnBlanked
           \/ r.phase = "granted" /\ r.button \in {"confirm", "token"} /\ OnSecret(r)
           \/ r.phase = "granted" /\ r.button = "bindEmail" /\ OnBound("email")
           \/ r.phase = "granted" /\ r.button = "bindWeChat" /\ OnBound("wechat")
           \/ r.phase = "granted" /\ r.button = "load" /\ OnLoaded(r)
           \/ r.phase = "granted" /\ r.button \in {"code", "submit"} /\ Stays

LEMMA DealIs ==
  ASSUME TypeInv, NEW r \in requests, Deal(r)
  PROVE  Deals(r)
<1>1. r \in RequestRecord /\ Fits(r)
  BY DEF TypeInv
<1>2. r.button \in Button
  BY <1>1 DEF RequestRecord
<1>3. /\ r.phase \in {"granted", "refused", "turnstile"}
      /\ requests' = requests \ {r}
      /\ UNCHANGED <<status, token, server, checked, clicks, others, faults, foreign, lone>>
      /\ IF form = "left" THEN Stays /\ UNCHANGED loading
         ELSE /\ IF r.phase = "granted" THEN OnGranted(r) ELSE OnRefused(r)
              /\ loading' = (loading /\ r.button \notin Spinning \cup {"load"})
  BY DEF Deal, LoadingAfter
<1>4. CASE form = "left" \/ r.phase # "granted"
  BY <1>3, <1>4 DEF Deals
<1>5. CASE form # "left" /\ r.phase = "granted"
  <2>1. /\ r.button = "register" => form = "register"
        /\ r.button = "mail" => form = "reset"
        /\ form = "addUser" => r.button = "submit"
    BY <1>1, <1>5, FormIs DEF Fits, ButtonsOf, TypeInv, AllForms, Edits, UserEdits
  <2>2. r.button \in {"register", "code", "mail", "confirm", "bindEmail", "bindWeChat",
                      "token", "submit", "load"}
    BY <1>2 DEF Button, Guarded, Spinning
  <2>3. \/ r.button = "register" /\ OnRegister
        \/ (r.button = "mail" \/ form = "addUser") /\ OnBlanked
        \/ r.button \in {"confirm", "token"} /\ OnSecret(r)
        \/ r.button = "bindEmail" /\ OnBound("email")
        \/ r.button = "bindWeChat" /\ OnBound("wechat")
        \/ r.button = "load" /\ OnLoaded(r)
        \/ r.button \in {"code", "submit"} /\ Stays
    BY <1>3, <1>5, <2>2 DEF OnGranted
  <2> QED
    BY <1>3, <1>5, <2>1, <2>3 DEF Deals
<1> QED
  BY <1>3, <1>4, <1>5

-------------------------------------------------------------------------------
\* The variables keep their types.

\* The part of TypeOK that is about requests follows from RequestRecord.
LEMMA RecordsAreTyped ==
  ASSUME NEW R, R \subseteq RequestRecord
  PROVE  \A r \in R :
           /\ r.id \in Nat
           /\ r.button \in Button
           /\ r.phase \in Phase
           /\ r.token \in 0..MaxTokens
           /\ r.secret \in Nat
           /\ r.dirty \subseteq AllFields
BY DEF RequestRecord

LEMMA TypeInit == Init => TypeInv
<1> SUFFICES ASSUME Init PROVE TypeInv
  OBVIOUS
<1>1. form \in AllForms
  BY FormAssumption DEF Init
<1>2. Some \in Text
  BY TextAssumption DEF Some
<1>3. inputs \in Filled(form)
  BY <1>2 DEF Init, Filled
<1>4. form \in Edits => row \in Record(form)
  BY <1>2 DEF Init, Record
<1>5. ASSUME form \in Edits
      PROVE  Request(0, "load") \in RequestRecord /\ Fits(Request(0, "load"))
  <2>1. "load" \notin Guarded /\ "load" \in Button /\ "passed" \in Phase /\ None \in Values
    BY DEF Guarded, Button, Phase, Values
  <2>2. Request(0, "load")
          = [id |-> 0, button |-> "load", phase |-> "passed", sent |-> None, token |-> 0,
             checked |-> FALSE, twin |-> FALSE, dirty |-> {}, value |-> None, secret |-> 0]
    BY <2>1 DEF Request, Init
  <2>3. 0 \in 0..MaxTokens
    BY BoundAssumption
  <2>4. [id |-> 0, button |-> "load", phase |-> "passed", sent |-> None, token |-> 0,
         checked |-> FALSE, twin |-> FALSE, dirty |-> {}, value |-> None, secret |-> 0]
          \in RequestRecord
    BY <2>1, <2>3 DEF RequestRecord
  <2>5. Request(0, "load") \in RequestRecord
    BY <2>2, <2>4
  <2> QED
    BY <1>5, <2>1, <2>2, <2>5 DEF Fits, ButtonsOf, Edits, UserEdits
<1>6. requests \subseteq RequestRecord /\ \A r \in requests : Fits(r)
  BY <1>5 DEF Init
<1>7. TypeOK
  <2>1. /\ 0 \in 0..MaxTokens /\ 0 \in 0..MaxOthers /\ 0 \in 0..MaxFaults /\ 0 \in Nat
        /\ {} \subseteq 1..MaxTokens /\ {} \subseteq AllFields
    BY BoundAssumption
  <2>2. \A r \in requests :
           /\ r.id \in Nat
           /\ r.button \in Button
           /\ r.phase \in Phase
           /\ r.token \in 0..MaxTokens
           /\ r.secret \in Nat
           /\ r.dirty \subseteq AllFields
    BY <1>6, RecordsAreTyped
  <2>3. row \in Record(form) \cup {None}
    BY <1>4 DEF Init
  <2>4. inputs \in [Fields(form) -> Text \cup {Blank}]
    BY <1>3 DEF Filled
  <2>5. loading \in BOOLEAN /\ code \in BOOLEAN /\ form \in Form
    BY DEF Init
  <2> QED
    BY <2>1, <2>2, <2>3, <2>4, <2>5 DEF Init, TypeOK
<1> QED
  BY <1>6, <1>7 DEF TypeInv, Init

\* A request that has been changed fits the form as it did.
LEMMA MovesFits ==
  ASSUME TypeInv, NEW r \in requests, NEW s, Moves(r, s), UNCHANGED <<form, status>>,
         s.button \in {"load", "submit"} => s.phase \in {"passed", "granted", "refused"},
         s.button = "load" /\ s.phase = "granted" => s.value \in Filled(form)
  PROVE  requests' \subseteq RequestRecord /\ \A q \in requests' : Fits(q)'
<1>1. Fits(s)'
  BY DEF TypeInv, Fits, Moves
<1>2. ASSUME NEW q \in requests PROVE Fits(q)'
  BY DEF TypeInv, Fits
<1> QED
  BY <1>1, <1>2 DEF Moves, TypeInv

LEMMA TypeStep == TypeInv /\ [Next]_vars => TypeInv'
<1> SUFFICES ASSUME TypeInv, [Next]_vars PROVE TypeInv'
  OBVIOUS
<1> USE DEF TypeInv
<1>1. ASSUME NEW f \in AllFields, NEW text \in Text \cup {Blank}, Type(f, text)
      PROVE  TypeInv'
  <2>1. f \in Fields(form) \ {"status"}
    BY <1>1, TypedFields DEF Type
  <2>2. UNCHANGED <<form, status, modal, loading, token, shown, server, checked, requests,
                    clicks, others, faults, foreign, lone>>
    BY <1>1 DEF Type
  <2>3. inputs' \in Filled(form)
    BY <1>1 DEF Type, TypeOK, Filled
  <2>4. touched' \subseteq touched \cup {f} /\ dirty' \subseteq dirty \cup {f}
    BY <1>1 DEF Type
  <2>5. \A r \in requests : Fits(r)'
    BY <2>2 DEF Fits
  <2> QED
    BY <2>1, <2>2, <2>3, <2>4, <2>5 DEF TypeOK, Filled, server
<1>2. ASSUME NEW m \in {"none", "email", "wechat"}, Turn(m) PROVE TypeInv'
  BY <1>2 DEF Turn, TypeOK, Fits, server, history
<1>3. CASE Verify
  BY <1>3, BoundAssumption DEF Verify, TypeOK, Fits, server, history
<1>4. ASSUME NEW b \in Page.buttons, Click(b) PROVE TypeInv'
  <2>1. PICK new : Sends(b, new)
    BY <1>4, Clicked
  <2>2. /\ UNCHANGED <<form, status, modal, inputs, token, shown, server, checked, others,
                       faults, touched, foreign>>
        /\ b \in Guarded /\ status.turnstile_check => token # 0
        /\ clicks' = clicks + 1
        /\ loading' = (loading \/ b \in Spinning)
        /\ lone' = (lone /\ requests = {})
        /\ dirty' = IF b = "submit" THEN {} ELSE dirty
    BY <1>4 DEF Click, Press
  <2>3. ASSUME NEW q \in requests' PROVE Fits(q)'
    <3>1. CASE q = new
      BY <2>1, <2>2, <3>1, ShownButtons DEF Sends, IsNew, Fits, TypeOK, Filled
    <3>2. ASSUME NEW r \in requests, Alike(q, r) PROVE Fits(q)'
      BY <2>2, <3>2 DEF Fits, Alike
    <3> QED
      BY <2>1, <3>1, <3>2 DEF Sends
  <2>4. requests' \subseteq RequestRecord
    BY <2>1 DEF Sends
  <2>5. /\ loading' \in BOOLEAN /\ lone' \in BOOLEAN
        /\ clicks' \in Nat /\ dirty' \subseteq dirty
    BY <2>2 DEF TypeOK
  <2>6. TypeOK'
    BY <2>2, <2>4, <2>5, RecordsAreTyped DEF TypeOK, server
  <2> QED
    BY <2>2, <2>3, <2>4, <2>5, <2>6 DEF server
<1>5. ASSUME NEW r \in requests, Begin(r) PROVE TypeInv'
  <2>1. PICK s : Begins(r, s)
    BY <1>5, BeginMoves
  <2>2. UNCHANGED <<status, page, checked, clicks, others, faults, history>>
    BY <1>5 DEF Begin
  <2>3. requests' \subseteq RequestRecord /\ \A q \in requests' : Fits(q)'
    BY <2>1, <2>2, MovesFits DEF Begins, Moves, page
  <2>4. spent' \subseteq 1..MaxTokens
    <3>1. r \in RequestRecord /\ Fits(r)
      OBVIOUS
    <3>2. Asked(r) /\ r.button \in Guarded => r.token \in 1..MaxTokens
      BY <3>1, BoundAssumption DEF Fits, Asked, RequestRecord
    <3> QED
      BY <2>1, <3>2 DEF Begins, TypeOK
  <2>5. TypeOK'
    BY <2>1, <2>2, <2>3, <2>4, RecordsAreTyped DEF Begins, TypeOK, page, history
  <2> QED
    BY <2>1, <2>2, <2>3, <2>5 DEF Begins, page, history
<1>6. ASSUME NEW r \in requests, Finish(r) PROVE TypeInv'
  <2>1. PICK s : Finishes(r, s)
    BY <1>6, FinishMoves
  <2>2. /\ UNCHANGED <<status, page, clicks, others, faults, touched, dirty, lone>>
        /\ checked' = (checked \/ (r.button \in Guarded /\ status.turnstile_check))
        /\ foreign' \subseteq foreign /\ code' \in {code, FALSE}
    BY <1>6 DEF Finish, Save, Grant, SetPassword, SetToken, Bind, Read, Refuse
  <2>3. r \in RequestRecord /\ Fits(r)
    OBVIOUS
  <2>4. requests' \subseteq RequestRecord /\ \A q \in requests' : Fits(q)'
    BY <2>1, <2>2, MovesFits DEF Finishes, Moves, page, Guarded
  <2>5. row' \in Record(form) \cup {None} /\ (form \notin Edits => row' = None)
    <3>1. CASE row' = row
      BY <3>1 DEF TypeOK
    <3>2. CASE row' # row
      <4>1. r.button = "submit" /\ form \in Edits /\ row # None /\ row' = Stored(r)
        BY <2>1, <3>2 DEF Finishes
      <4>2. r.sent \in Filled(form) /\ row \in Record(form)
        BY <2>3, <4>1 DEF Fits, TypeOK
      <4>3. Written(r) \subseteq Fields(form)
        BY <4>2 DEF Written, Filled
      <4>4. Stored(r) \in Record(form)
        BY <4>2, <4>3 DEF Stored, Record, Filled
      <4> QED
        BY <4>1, <4>4
    <3> QED
      BY <3>1, <3>2
  <2>6. secret' \in Nat
    BY <2>1, <2>3 DEF Finishes, RequestRecord, TypeOK
  <2>7. checked' \in BOOLEAN /\ code' \in BOOLEAN /\ spent' = spent
    BY <2>1, <2>2 DEF Finishes, TypeOK
  <2>8. TypeOK'
    BY <2>2, <2>4, <2>5, <2>6, <2>7, RecordsAreTyped DEF TypeOK, page
  <2> QED
    BY <2>2, <2>4, <2>5, <2>8 DEF page
<1>7. ASSUME NEW r \in requests, Deal(r) PROVE TypeInv'
  <2>1. Deals(r)
    BY <1>7, DealIs
  <2>2. r \in RequestRecord /\ Fits(r)
    OBVIOUS
  <2>3. /\ requests' = requests \ {r}
        /\ UNCHANGED <<status, token, spent, row, secret, code, checked, clicks, others,
                       faults, foreign, lone>>
    BY <2>1 DEF Deals, server
  <2>4. CASE form = "register" /\ form' = "left" /\ inputs' = [f \in {} |-> Blank]
             /\ UNCHANGED <<modal, shown, touched, dirty>> /\ loading' \in BOOLEAN
    <3>1. Fields("left") = {} /\ Columns("left") = {} /\ Columns("register") = {}
      BY DEF Fields, Columns, Edits, UserEdits
    <3>2. ButtonsOf("left") = ButtonsOf("register") /\ "register" \notin Edits
          /\ "left" \notin Edits
      BY DEF ButtonsOf, Edits, UserEdits
    <3>3. \A q \in requests' : Fits(q)'
      <4>1. {"register", "code"} = ButtonsOf("register")
        BY DEF ButtonsOf, Edits, UserEdits
      <4> QED
        BY <2>3, <2>4, <3>2, <4>1 DEF Fits
    <3>4. inputs' \in [Fields(form') -> Text \cup {Blank}]
      BY <2>4, <3>1
    <3>5. TypeOK'
      BY <2>3, <2>4, <3>1, <3>2, <3>4 DEF TypeOK, Record
    <3> QED
      BY <2>3, <2>4, <3>2, <3>3, <3>5
  <2>5. CASE /\ UNCHANGED form
             /\ inputs' \in Filled(form)
             /\ modal' \in {modal, "none"} /\ shown' \in {shown, r.secret}
             /\ touched' \subseteq touched /\ dirty' \subseteq dirty \cup r.dirty
             /\ loading' \in BOOLEAN
    <3>1. r.secret \in Nat /\ r.dirty \subseteq AllFields \ {"status"}
      BY <2>2 DEF RequestRecord
    <3>2. \A q \in requests' : Fits(q)'
      BY <2>3, <2>5 DEF Fits
    <3>3. TypeOK'
      BY <2>3, <2>5, <3>1 DEF TypeOK, Filled
    <3> QED
      BY <2>3, <2>5, <3>1, <3>2, <3>3
  <2>6. inputs \in Filled(form)
    BY DEF TypeOK, Filled
  <2>7. BlankInputs \in Filled(form)
    BY <2>6 DEF BlankInputs, Filled
  <2>8. r.button = "load" /\ r.phase = "granted" => r.value \in Filled(form)
    BY <2>2 DEF Fits
  <2>9. loading' \in BOOLEAN
    BY <2>1 DEF Deals, TypeOK
  <2> QED
    BY <2>1, <2>4, <2>5, <2>6, <2>7, <2>8, <2>9
    DEF Deals, Stays, OnRefused, OnRegister, OnBlanked, OnSecret, OnBound, OnLoaded
<1>8. ASSUME NEW f \in AllFields, NEW text \in Text, Others(f, text) PROVE TypeInv'
  <2>1. /\ UNCHANGED <<status, page, spent, secret, code, checked, requests, clicks, faults,
                       touched, dirty, lone>>
        /\ row # None /\ row' = [row EXCEPT ![f] = text]
        /\ others' \in 0..MaxOthers /\ foreign' = foreign \cup {f}
    BY <1>8, BoundAssumption DEF Others, TypeOK
  <2>2. row' \in Record(form)
    BY <2>1 DEF TypeOK, Record
  <2>3. \A r \in requests : Fits(r)'
    BY <2>1 DEF Fits, page
  <2> QED
    BY <2>1, <2>2, <2>3 DEF TypeOK, page
<1>9. CASE Delete
  BY <1>9, BoundAssumption DEF Delete, TypeOK, Fits, page, history
<1>10. ASSUME NEW r \in requests, Fail(r) PROVE TypeInv'
  <2>1. r.dirty \subseteq AllFields \ {"status"}
    BY DEF RequestRecord
  <2>2. \A q \in requests : Fits(q)'
    BY <1>10 DEF Fail, Fits, page
  <2> QED
    BY <1>10, <2>1, <2>2, BoundAssumption DEF Fail, TypeOK, page, server
<1>11. CASE UNCHANGED vars
  BY <1>11 DEF vars, page, server, history, TypeOK, Fits
<1> QED
  BY <1>1, <1>2, <1>3, <1>4, <1>5, <1>6, <1>7, <1>8, <1>9, <1>10, <1>11, UserClicks
  DEF Next, Server, Browser

\* The variables of the form, the server and the requests keep their types, and every
\* request is one that the open form sends.
THEOREM TypeCorrect == Spec => []TypeOK
<1>1. TypeInv => TypeOK
  BY DEF TypeInv
<1> QED
  BY <1>1, TypeInit, TypeStep, PTL DEF Spec
-------------------------------------------------------------------------------
\* Turnstile is asked for once.

Carries(r, t) == r.button \in Guarded /\ r.token = t

\* A token that is used up was accepted for a request which is still under way, or has
\* marked the session.
SpentMarks ==
  /\ spent # {} => status.turnstile_check
  /\ \A t \in spent : \/ checked \/ faults > 0
                      \/ \E q \in requests : Carries(q, t) /\ q.phase = "passed"

\* Requests with the same token know of each other.
TwinsKnow ==
  \A q, r \in requests :
    q # r /\ q.button \in Guarded /\ Carries(r, q.token) => q.twin /\ r.twin

\* So a request that will be asked for a token it has used up is a twin.
Spoiled(r) ==
  r.button \in Guarded /\ r.phase = "sent" /\ r.token \in spent /\ ~ r.checked

SpoiledAreTwins == \A r \in requests : Spoiled(r) => r.twin \/ faults > 0

TwinInv == SpentMarks /\ TwinsKnow /\ SpoiledAreTwins /\ PassedOnceIsEnough

LEMMA TwinInit == Init => TwinInv
BY DEF Init, TwinInv, SpentMarks, TwinsKnow, SpoiledAreTwins, PassedOnceIsEnough, Request,
       Spoiled, Guarded, Carries

LEMMA TwinStep == TypeInv /\ TwinInv /\ [Next]_vars => TwinInv'
<1> SUFFICES ASSUME TypeInv, TwinInv, [Next]_vars PROVE TwinInv'
  OBVIOUS
<1> USE DEF TwinInv
<1>0. faults \in Nat /\ requests \subseteq RequestRecord
  BY BoundAssumption DEF TypeInv, TypeOK
<1>1. CASE UNCHANGED <<requests, spent, checked, faults, status>>
  BY <1>1 DEF SpentMarks, TwinsKnow, SpoiledAreTwins, PassedOnceIsEnough, Spoiled, Carries
<1>2. ASSUME NEW b \in Page.buttons, Click(b) PROVE TwinInv'
  <2>1. PICK new : Sends(b, new)
    BY <1>2, Clicked
  <2>2. UNCHANGED <<spent, checked, faults, status>>
    BY <1>2 DEF Click, Press, server
  <2>3. SpentMarks'
    <3>1. ASSUME NEW t \in spent, NEW r \in requests, Carries(r, t), r.phase = "passed"
          PROVE  \E q \in requests' : Carries(q, t) /\ q.phase = "passed"
      BY <2>1, <3>1 DEF Sends, Alike, Carries
    <3> QED
      BY <2>2, <3>1 DEF SpentMarks, Carries
  <2>4. ASSUME NEW r \in requests, Shares(r, b) PROVE new.twin
    BY <2>1, <2>4 DEF Sends, IsNew, Twins, Shares
  <2>5. ASSUME NEW q \in requests', NEW r \in requests', q # r, q.button \in Guarded,
               Carries(r, q.token)
        PROVE  q.twin /\ r.twin
    <3>1. ASSUME NEW x \in requests', x # new, Carries(x, new.token), new.button \in Guarded
          PROVE  x.twin /\ new.twin
      <4>1. Shares(x, b)
        BY <2>1, <3>1 DEF Sends, IsNew, Shares, Carries
      <4>2. PICK y \in requests : Alike(x, y)
        BY <2>1, <3>1 DEF Sends
      <4>3. Shares(y, b)
        BY <4>1, <4>2 DEF Shares, Alike
      <4> QED
        BY <2>1, <2>4, <3>1, <4>1, <4>3 DEF Sends
    <3>2. CASE q = new \/ r = new
      BY <2>5, <3>1, <3>2 DEF Carries
    <3>3. CASE q # new /\ r # new
      <4>1. Shares(q, b) <=> Shares(r, b)
        BY <2>5 DEF Shares, Carries
      <4>2. CASE Shares(q, b)
        BY <2>1, <3>3, <4>1, <4>2 DEF Sends
      <4>3. CASE ~ Shares(q, b)
        <5>1. q \in requests /\ r \in requests
          BY <2>1, <3>3, <4>1, <4>3 DEF Sends
        <5> QED
          BY <2>5, <5>1 DEF TwinsKnow
      <4> QED
        BY <4>2, <4>3
    <3> QED
      BY <3>2, <3>3
  <2>6. ASSUME NEW r \in requests', r.button \in Guarded, r.phase = "sent",
               r.token \in spent, ~ r.checked
        PROVE  r.twin \/ faults > 0
    <3>1. CASE r = new
      <4>1. b \in Guarded /\ r.token = token /\ ~ checked
        BY <2>1, <2>6, <3>1 DEF Sends, IsNew
      <4>2. CASE \E q \in requests : Carries(q, r.token) /\ q.phase = "passed"
        <5>1. PICK q \in requests : Carries(q, r.token)
          BY <4>2
        <5>2. Shares(q, b)
          BY <4>1, <5>1 DEF Shares, Carries
        <5> QED
          BY <2>4, <3>1, <5>2
      <4> QED
        BY <2>6, <4>1, <4>2 DEF SpentMarks
    <3>2. ASSUME NEW q \in requests, Alike(r, q) PROVE r.twin \/ faults > 0
      BY <2>6, <3>2 DEF SpoiledAreTwins, Spoiled, Alike
    <3> QED
      BY <2>1, <3>1, <3>2 DEF Sends
  <2>7. PassedOnceIsEnough'
    <3>1. new.phase # "turnstile"
      BY <2>1 DEF Sends, IsNew
    <3>2. ASSUME NEW r \in requests', r.phase = "turnstile", NEW q \in requests, Alike(r, q)
          PROVE  r.twin \/ faults > 0
      BY <3>2 DEF PassedOnceIsEnough, Alike
    <3> QED
      BY <2>1, <2>2, <3>1, <3>2 DEF Sends, PassedOnceIsEnough
  <2> QED
    BY <2>2, <2>3, <2>5, <2>6, <2>7 DEF TwinsKnow, SpoiledAreTwins, Spoiled
<1>3. ASSUME NEW r \in requests, Begin(r) PROVE TwinInv'
  <2>1. PICK s : Begins(r, s)
    BY <1>3, BeginMoves
  <2>2. /\ r.phase = "sent" /\ UNCHANGED <<status, checked, faults>>
        /\ s.phase # "sent" /\ s.button = r.button /\ s.token = r.token
        /\ s.twin = r.twin /\ requests' = (requests \ {r}) \cup {s}
    BY <1>3, <2>1 DEF Begin, Begins, Moves
  <2>3. /\ spent \subseteq spent'
        /\ \A t \in spent' : t \notin spent =>
             /\ Carries(r, t) /\ s.phase = "passed" /\ status.turnstile_check
    BY <2>1 DEF Begins, Asked, Carries
  <2>4. SpentMarks'
    <3>1. ASSUME NEW t \in spent'
          PROVE  checked \/ faults > 0
                   \/ \E q \in requests' : Carries(q, t) /\ q.phase = "passed"
      <4>1. CASE t \in spent
        BY <2>2, <4>1 DEF SpentMarks
      <4>2. CASE t \notin spent
        BY <2>2, <2>3, <4>2 DEF Carries
      <4> QED
        BY <4>1, <4>2
    <3>2. spent' # {} => status.turnstile_check
      BY <2>3 DEF SpentMarks
    <3> QED
      BY <2>2, <3>1, <3>2 DEF SpentMarks, Carries
  <2>5. TwinsKnow'
    BY <2>2 DEF TwinsKnow, Carries
  <2>6. ASSUME NEW q \in requests', q.button \in Guarded, q.phase = "sent",
               q.token \in spent', ~ q.checked
        PROVE  q.twin \/ faults > 0
    <3>1. q \in requests /\ q # r
      BY <2>2, <2>6
    <3>2. CASE q.token \in spent
      BY <2>6, <3>1, <3>2 DEF SpoiledAreTwins, Spoiled
    <3>3. CASE q.token \notin spent
      BY <2>3, <2>6, <3>1, <3>3 DEF TwinsKnow, Carries
    <3> QED
      BY <3>2, <3>3
  <2>7. s.phase = "turnstile" => s.twin \/ faults > 0
    BY <2>1, <2>2 DEF Begins, Asked, SpoiledAreTwins, Spoiled
  <2> QED
    BY <2>2, <2>4, <2>5, <2>6, <2>7 DEF SpoiledAreTwins, Spoiled, PassedOnceIsEnough
<1>4. ASSUME NEW r \in requests, Finish(r) PROVE TwinInv'
  <2>1. PICK s : Finishes(r, s)
    BY <1>4, FinishMoves
  <2>2. /\ r.phase = "passed" /\ UNCHANGED <<status, faults, spent>>
        /\ checked' = (checked \/ (r.button \in Guarded /\ status.turnstile_check))
        /\ s.phase \in {"granted", "refused"} /\ s.button = r.button /\ s.token = r.token
        /\ s.twin = r.twin /\ requests' = (requests \ {r}) \cup {s}
    BY <1>4, <2>1 DEF Finish, Finishes, Moves
  <2>3. SpentMarks'
    BY <2>2 DEF SpentMarks, Carries
  <2> QED
    BY <2>2, <2>3 DEF TwinsKnow, Carries, SpoiledAreTwins, Spoiled, PassedOnceIsEnough
<1>5. ASSUME NEW r \in requests, Deal(r) PROVE TwinInv'
  <2>1. /\ requests' = requests \ {r} /\ r.phase # "passed"
        /\ UNCHANGED <<spent, checked, faults, status>>
    BY <1>5 DEF Deal, server
  <2> QED
    BY <2>1 DEF SpentMarks, TwinsKnow, Carries, SpoiledAreTwins, Spoiled, PassedOnceIsEnough
<1>6. ASSUME NEW r \in requests, Fail(r) PROVE TwinInv'
  <2>1. /\ requests' = requests \ {r} /\ faults' > 0
        /\ UNCHANGED <<spent, checked, status>>
    BY <1>0, <1>6 DEF Fail, server
  <2> QED
    BY <2>1 DEF SpentMarks, TwinsKnow, Carries, SpoiledAreTwins, Spoiled, PassedOnceIsEnough
<1>7. ASSUME NEW f \in AllFields, NEW text \in Text \cup {Blank}, Type(f, text)
      PROVE  UNCHANGED <<requests, spent, checked, faults, status>>
  BY <1>7 DEF Type, server
<1>8. ASSUME NEW m \in {"none", "email", "wechat"}, Turn(m)
      PROVE  UNCHANGED <<requests, spent, checked, faults, status>>
  BY <1>8 DEF Turn, server
<1>9. ASSUME NEW f \in AllFields, NEW text \in Text, Others(f, text)
      PROVE  UNCHANGED <<requests, spent, checked, faults, status>>
  BY <1>9 DEF Others
<1>10. CASE Verify \/ Delete \/ UNCHANGED vars
  BY <1>1, <1>10 DEF Verify, Delete, vars, server
<1> QED
  BY <1>1, <1>2, <1>3, <1>4, <1>5, <1>6, <1>7, <1>8, <1>9, <1>10, UserClicks
  DEF Next, Server, Browser

\* Who has passed Turnstile once is not refused for a used up token, unless another
\* request was under way with it or an answer was lost (TurnstileCheck, the forms that
\* keep their token).
THEOREM AskedOnce == Spec => []PassedOnceIsEnough
<1>1. TypeInv /\ TwinInv /\ [Next]_vars => TypeInv' /\ TwinInv'
  BY TypeStep, TwinStep
<1>2. TwinInv => PassedOnceIsEnough
  BY DEF TwinInv
<1> QED
  BY <1>1, <1>2, TypeInit, TwinInit, PTL DEF Spec
-------------------------------------------------------------------------------
\* A form that edits a record writes only what was typed.

\* While the record is loaded the form is left alone, and nothing else is sent.
LoadInv ==
  form \in Edits =>
    /\ \A r \in requests : r.button = "load" =>
         /\ requests = {r} /\ r.dirty = {} /\ loading
         /\ r.phase = "refused" => row = None
    /\ loading =>
         /\ \A r \in requests : r.button = "load"
         /\ touched = {} /\ dirty = {}

LEMMA InitialRequest ==
  ASSUME Init, NEW r \in requests
  PROVE  /\ form \in Edits /\ requests = {r}
         /\ r.button = "load" /\ r.phase = "passed" /\ r.dirty = {}
<1>1. form \in Edits /\ r = Request(0, "load") /\ requests = {Request(0, "load")}
  BY DEF Init
<1>2. /\ Request(0, "load").button = "load" /\ Request(0, "load").phase = "passed"
      /\ Request(0, "load").dirty = dirty
  BY DEF Request
<1>3. dirty = {}
  BY DEF Init
<1> QED
  BY <1>1, <1>2, <1>3

LEMMA LoadInit == Init => LoadInv
<1> SUFFICES ASSUME Init, form \in Edits PROVE LoadInv
  BY DEF LoadInv
<1>1. loading /\ touched = {} /\ dirty = {}
  BY DEF Init
<1> QED
  BY <1>1, InitialRequest DEF LoadInv

LEMMA EditButtons ==
  ASSUME TypeInv, form \in Edits, NEW r \in requests
  PROVE  r.button \in {"submit", "load"}
BY DEF TypeInv, Fits, ButtonsOf, Edits, UserEdits

LEMMA EditClick ==
  ASSUME TypeInv, form \in Edits, NEW b \in Page.buttons
  PROVE  b = "submit" /\ ~ loading
BY ShownButtons DEF TypeInv, ButtonsOf, Edits, UserEdits

\* What a form that edits a record does with an answer.
LEMMA EditDeals ==
  ASSUME TypeInv, LoadInv, form \in Edits, NEW r \in requests, Deals(r)
  PROVE  /\ ~ loading'
         /\ requests' = requests \ {r}
         /\ UNCHANGED <<form, row, foreign, lone, faults, status>>
         /\ \/ /\ r.button = "load" /\ r.phase = "granted" /\ inputs' = r.value
               /\ touched' = {} /\ dirty' = {}
            \/ /\ r.button = "load" /\ r.phase # "granted" /\ row = None
               /\ touched' = {} /\ dirty' = {}
            \/ /\ r.button = "submit" /\ ~ loading /\ UNCHANGED <<inputs, touched>>
               /\ r.phase = "granted" /\ dirty' = dirty
            \/ /\ r.button = "submit" /\ ~ loading /\ UNCHANGED <<inputs, touched>>
               /\ r.phase # "granted" /\ dirty' = dirty \cup r.dirty
<1>1. r.button \in {"submit", "load"} /\ form \notin {"left", "reset", "addUser", "register"}
  BY EditButtons DEF Edits, UserEdits
<1>2. /\ requests' = requests \ {r}
      /\ UNCHANGED <<row, foreign, lone, faults, status>>
      /\ loading' = (loading /\ r.button \notin Spinning \cup {"load"})
      /\ \/ r.phase # "granted" /\ OnRefused(r)
         \/ r.phase = "granted" /\ r.button = "load" /\ OnLoaded(r)
         \/ r.phase = "granted" /\ r.button = "submit" /\ Stays
  BY <1>1 DEF Deals, server
<1>3. CASE r.button = "load"
  <2>1. r.dirty = {} /\ loading /\ touched = {} /\ dirty = {}
    BY <1>3 DEF LoadInv
  <2>2. r.phase # "granted" => row = None
    BY <1>3 DEF LoadInv, TypeInv, Fits, Deals
  <2> QED
    BY <1>2, <1>3, <2>1, <2>2 DEF OnRefused, OnLoaded
<1>4. CASE r.button = "submit"
  <2>1. ~ loading
    BY <1>4 DEF LoadInv
  <2> QED
    BY <1>2, <1>4, <2>1 DEF OnRefused, Stays
<1> QED
  BY <1>1, <1>3, <1>4

LEMMA LoadStep == TypeInv /\ LoadInv /\ [Next]_vars => LoadInv'
<1> SUFFICES ASSUME TypeInv, LoadInv, [Next]_vars, form' \in Edits PROVE LoadInv'
  BY DEF LoadInv
<1>1. CASE UNCHANGED <<form, requests, loading, row, touched, dirty>>
  BY <1>1 DEF LoadInv
<1>2. ASSUME NEW f \in AllFields, NEW text \in Text \cup {Blank}, Type(f, text)
      PROVE  LoadInv'
  <2>1. form' = form /\ UNCHANGED <<requests, loading, row>> /\ f \in Page.typed
    BY <1>2 DEF Type, server
  <2>2. ~ loading
    BY <2>1, TypedFields DEF TypeInv
  <2> QED
    BY <2>1, <2>2 DEF LoadInv
<1>3. ASSUME NEW b \in Page.buttons, Click(b) PROVE LoadInv'
  <2>1. /\ UNCHANGED <<form, row, touched>>
        /\ loading' = (loading \/ b \in Spinning)
    BY <1>3 DEF Click, Press, server
  <2>2. b = "submit" /\ ~ loading
    BY <2>1, EditClick
  <2>3. ~ loading'
    BY <2>1, <2>2 DEF Spinning
  <2>4. PICK new : Sends(b, new)
    BY <1>3, Clicked
  <2>5. \A q \in requests' : q.button # "load"
    <3>1. \A r \in requests : r.button # "load"
      BY <2>1, <2>2 DEF LoadInv
    <3>2. new.button # "load"
      BY <2>2, <2>4 DEF Sends, IsNew
    <3> QED
      BY <2>4, <3>1, <3>2 DEF Sends, Alike
  <2> QED
    BY <2>3, <2>5 DEF LoadInv
<1>4. ASSUME NEW r \in requests, Begin(r) PROVE LoadInv'
  <2>1. form' = form
    BY <1>4 DEF Begin, page
  <2>2. PICK s : Begins(r, s)
    BY <1>4, BeginMoves
  <2> QED
    BY <2>1, <2>2, EditButtons DEF Begins
<1>5. ASSUME NEW r \in requests, Finish(r) PROVE LoadInv'
  <2>1. PICK s : Finishes(r, s)
    BY <1>5, FinishMoves
  <2>2. UNCHANGED <<form, loading, touched, dirty>>
    BY <1>5 DEF Finish, page
  <2>3. s.button = r.button /\ s.dirty = r.dirty /\ requests' = (requests \ {r}) \cup {s}
    BY <2>1 DEF Finishes, Moves
  <2>4. /\ row = None => row' = None
        /\ s.button = "load" /\ s.phase = "refused" => row' = None
    BY <2>1, <2>3 DEF Finishes
  <2> QED
    BY <2>2, <2>3, <2>4 DEF LoadInv
<1>6. ASSUME NEW r \in requests, Deal(r) PROVE LoadInv'
  <2>1. Deals(r)
    BY <1>6, DealIs
  <2>2. form = form'
    BY <2>1 DEF Deals, OnRefused, OnRegister, OnBlanked, OnSecret, OnBound, OnLoaded, Stays,
                Edits, UserEdits
  <2>3. ~ loading' /\ requests' = requests \ {r} /\ row' = row
    BY <2>1, <2>2, EditDeals
  <2>4. \A q \in requests' : q.button # "load"
    BY <2>2, <2>3 DEF LoadInv
  <2> QED
    BY <2>3, <2>4 DEF LoadInv
<1>7. ASSUME NEW f \in AllFields, NEW text \in Text, Others(f, text) PROVE LoadInv'
  <2>1. UNCHANGED <<form, requests, loading, touched, dirty>> /\ row # None
    BY <1>7 DEF Others, page
  <2> QED
    BY <2>1 DEF LoadInv
<1>8. CASE Delete
  BY <1>8 DEF Delete, LoadInv, page, history
<1>9. ASSUME NEW r \in requests, Fail(r) PROVE LoadInv'
  <2>1. /\ UNCHANGED <<form, loading, touched, row>>
        /\ requests' = requests \ {r} /\ dirty' = dirty \cup r.dirty
    BY <1>9 DEF Fail, page, server
  <2>2. \A q \in requests' : q.button # "load"
    BY <2>1 DEF LoadInv
  <2>3. loading => r.dirty = {}
    BY <2>1 DEF LoadInv
  <2> QED
    BY <2>1, <2>2, <2>3 DEF LoadInv
<1>10. ASSUME NEW m \in {"none", "email", "wechat"}, Turn(m)
      PROVE  UNCHANGED <<form, requests, loading, row, touched, dirty>>
  BY <1>10 DEF Turn, server, history
<1>11. CASE Verify \/ UNCHANGED vars
  BY <1>1, <1>11 DEF Verify, vars, page, server, history
<1> QED
  BY <1>1, <1>2, <1>3, <1>4, <1>5, <1>6, <1>7, <1>8, <1>9, <1>10, <1>11, UserClicks
  DEF Next, Server, Browser

\* A value that a submit leaves out, or that is there because somebody put it there.
Explained(f, value) ==
  \/ value = row[f]
  \/ f \in touched \cup foreign
  \/ form \in UserEdits /\ value = Blank

EditInv ==
  form \in Edits /\ row # None =>
    /\ ~ loading => \A f \in Fields(form) : Explained(f, inputs[f])
    /\ \A r \in requests : r.button = "submit" =>
         \A f \in Fields(form) : Explained(f, r.sent[f])
    /\ \A r \in requests : r.button = "load" /\ r.phase = "granted" =>
         \A f \in Fields(form) : \/ r.value[f] = row[f] \/ f \in foreign
                                 \/ form \in UserEdits /\ r.value[f] = Blank

LEMMA EditInit == Init => EditInv
<1> SUFFICES ASSUME Init, form \in Edits PROVE EditInv
  BY DEF EditInv
<1>1. loading
  BY DEF Init
<1> QED
  BY <1>1, InitialRequest DEF EditInv

\* What a submit changes in the record was typed, or others had changed it.
LEMMA ChangesAreExplained ==
  ASSUME TypeInv, EditInv, form \in Edits, row # None,
         NEW r \in requests, r.button = "submit",
         NEW f \in Columns(form), Stored(r)[f] # row[f]
  PROVE  f \in touched \/ (f \in foreign /\ (f = "status" => form = "editUser"))
<1>1. r.sent \in Filled(form) /\ row \in Record(form)
  BY DEF TypeInv, TypeOK, Fits
<1>2. f \in Written(r) /\ r.sent[f] # row[f]
  BY <1>1 DEF Stored, Record
<1>3. /\ f \in Fields(form)
      /\ form \in UserEdits => r.sent[f] # Blank
      /\ f = "status" => form = "editUser"
  <2>1. DOMAIN r.sent = Fields(form)
    BY <1>1 DEF Filled
  <2>2. form = "editProfile" => "status" \notin Fields(form)
    BY DEF Fields, Edits, UserEdits
  <2> QED
    BY <1>2, <2>1, <2>2 DEF Written, Edits, UserEdits
<1>4. Explained(f, r.sent[f])
  BY <1>3 DEF EditInv
<1> QED
  BY <1>2, <1>3, <1>4 DEF Explained

LEMMA EditStep == TypeInv /\ LoadInv /\ EditInv /\ [Next]_vars => EditInv'
<1> SUFFICES ASSUME TypeInv, LoadInv, EditInv, [Next]_vars, form' \in Edits, row' # None
             PROVE  EditInv'
  BY DEF EditInv
<1>1. CASE UNCHANGED <<form, requests, inputs, loading, row, touched, foreign>>
  BY <1>1 DEF EditInv, Explained
<1>2. ASSUME NEW f \in AllFields, NEW text \in Text \cup {Blank}, Type(f, text)
      PROVE  EditInv'
  <2>1. /\ UNCHANGED <<form, requests, row, loading, foreign>> /\ f \in Page.typed
        /\ inputs' = [inputs EXCEPT ![f] = text]
        /\ form \in Edits => touched' = touched \cup {f}
    BY <1>2 DEF Type, server
  <2>2. ~ loading
    BY <2>1, TypedFields DEF TypeInv
  <2>3. \A g \in Fields(form) : g # f => inputs'[g] = inputs[g]
    BY <2>1 DEF TypeInv, TypeOK
  <2> QED
    BY <2>1, <2>2, <2>3 DEF EditInv, Explained
<1>3. ASSUME NEW b \in Page.buttons, Click(b) PROVE EditInv'
  <2>1. /\ UNCHANGED <<form, row, inputs, touched, foreign>>
        /\ loading' = (loading \/ b \in Spinning)
    BY <1>3 DEF Click, Press, server
  <2>2. b = "submit" /\ ~ loading
    BY <2>1, EditClick
  <2>3. PICK new : Sends(b, new)
    BY <1>3, Clicked
  <2>4. new.sent = inputs /\ new.button = "submit"
    BY <2>2, <2>3 DEF Sends, IsNew
  <2>5. \A f \in Fields(form) : Explained(f, inputs[f])
    BY <2>1, <2>2 DEF EditInv
  <2>6. ASSUME NEW q \in requests', q.button = "submit", NEW f \in Fields(form)
        PROVE  Explained(f, q.sent[f])
    BY <2>1, <2>3, <2>4, <2>5, <2>6 DEF Sends, Alike, EditInv
  <2>7. \A q \in requests' : q.button # "load"
    <3>1. \A r \in requests : r.button # "load"
      BY <2>1, <2>2 DEF LoadInv
    <3> QED
      BY <2>3, <2>4, <3>1 DEF Sends, Alike
  <2> QED
    BY <2>1, <2>5, <2>6, <2>7 DEF EditInv, Explained
<1>4. ASSUME NEW r \in requests, Begin(r) PROVE EditInv'
  <2>1. form' = form
    BY <1>4 DEF Begin, page
  <2>2. PICK s : Begins(r, s)
    BY <1>4, BeginMoves
  <2> QED
    BY <2>1, <2>2, EditButtons DEF Begins
<1>5. ASSUME NEW r \in requests, Finish(r) PROVE EditInv'
  <2>1. PICK s : Finishes(r, s)
    BY <1>5, FinishMoves
  <2>2. UNCHANGED <<form, inputs, loading, touched, dirty>>
    BY <1>5 DEF Finish, page
  <2>3. /\ s.button = r.button /\ s.sent = r.sent
        /\ requests' = (requests \ {r}) \cup {s}
    BY <2>1 DEF Finishes, Moves
  <2>4. row # None /\ form \in Edits
    BY <2>1, <2>2 DEF Finishes
  <2>5. CASE r.button = "load"
    <3>1. requests' = {s} /\ loading
      BY <2>2, <2>3, <2>4, <2>5 DEF LoadInv
    <3>2. s.value = Got /\ row' = row /\ s.button = "load"
      BY <2>1, <2>3, <2>4, <2>5 DEF Finishes, Guarded
    <3>3. \A f \in Fields(form) :
             Got[f] = row[f] \/ (form \in UserEdits /\ Got[f] = Blank)
      <4>1. form \notin UserEdits => "password" \notin Fields(form)
        BY <2>4 DEF Fields, Edits, UserEdits
      <4> QED
        BY <4>1 DEF Got
    <3> QED
      BY <2>2, <3>1, <3>2, <3>3 DEF EditInv, Explained
  <2>6. CASE r.button # "load"
    <3>1. r.button = "submit" /\ foreign' = foreign
      BY <1>5, <2>4, <2>6, EditButtons DEF Finish
    <3>2. ASSUME NEW f \in Fields(form), row'[f] # row[f]
          PROVE  f \in touched \cup foreign
      <4>1. f \in Columns(form)
        BY <2>4 DEF Columns
      <4>2. row' = Stored(r)
        BY <2>1, <2>4, <3>1, <3>2 DEF Finishes
      <4> QED
        BY <2>4, <3>1, <3>2, <4>1, <4>2, ChangesAreExplained
    <3>3. \A f \in Fields(form) :
            /\ ~ loading => Explained(f, inputs[f])
            /\ \A q \in requests' : q.button = "submit" => Explained(f, q.sent[f])
      BY <2>3, <2>4 DEF EditInv
    <3>4. \A q \in requests' : q.button # "load"
      BY <2>2, <2>3, <2>4, <3>1 DEF LoadInv
    <3> QED
      BY <2>2, <3>1, <3>2, <3>3, <3>4 DEF EditInv, Explained
  <2> QED
    BY <2>5, <2>6
<1>6. ASSUME NEW r \in requests, Deal(r) PROVE EditInv'
  <2>1. Deals(r)
    BY <1>6, DealIs
  <2>2. form = form'
    BY <2>1 DEF Deals, OnRefused, OnRegister, OnBlanked, OnSecret, OnBound, OnLoaded, Stays,
                Edits, UserEdits
  <2>3. ~ loading' /\ requests' = requests \ {r} /\ UNCHANGED <<row, foreign>>
    BY <2>1, <2>2, EditDeals
  <2>4. CASE r.button = "load"
    <3>1. r.phase = "granted" /\ inputs' = r.value /\ requests' = {}
      BY <2>1, <2>2, <2>3, <2>4, EditDeals DEF LoadInv
    <3> QED
      BY <2>2, <2>3, <2>4, <3>1 DEF EditInv, Explained
  <2>5. CASE r.button # "load"
    <3>1. ~ loading /\ UNCHANGED <<inputs, touched>>
      BY <2>1, <2>2, <2>5, EditDeals
    <3> QED
      BY <2>2, <2>3, <3>1 DEF EditInv, Explained
  <2> QED
    BY <2>4, <2>5
<1>7. ASSUME NEW f \in AllFields, NEW text \in Text, Others(f, text) PROVE EditInv'
  <2>1. /\ UNCHANGED <<form, requests, inputs, loading, touched>> /\ row # None
        /\ row' = [row EXCEPT ![f] = text] /\ foreign' = foreign \cup {f}
    BY <1>7 DEF Others, page
  <2>2. \A g \in Fields(form) : g # f => row'[g] = row[g]
    <3>1. form \in Edits /\ row \in Record(form)
      BY <2>1 DEF TypeInv, TypeOK
    <3>2. Fields(form) \subseteq Columns(form)
      BY <3>1 DEF Columns
    <3> QED
      BY <2>1, <3>1, <3>2 DEF Record
  <2> QED
    BY <2>1, <2>2 DEF EditInv, Explained
<1>8. CASE Delete
  BY <1>8 DEF Delete
<1>9. ASSUME NEW r \in requests, Fail(r) PROVE EditInv'
  <2>1. /\ UNCHANGED <<form, inputs, loading, touched, foreign, row>>
        /\ requests' = requests \ {r}
    BY <1>9 DEF Fail, page, server
  <2> QED
    BY <2>1 DEF EditInv, Explained
<1>10. ASSUME NEW m \in {"none", "email", "wechat"}, Turn(m)
      PROVE  UNCHANGED <<form, requests, inputs, loading, row, touched, foreign>>
  BY <1>10 DEF Turn, server, history
<1>11. CASE Verify \/ UNCHANGED vars
  BY <1>1, <1>11 DEF Verify, vars, page, server, history
<1> QED
  BY <1>1, <1>2, <1>3, <1>4, <1>5, <1>6, <1>7, <1>8, <1>9, <1>10, <1>11, UserClicks
  DEF Next, Server, Browser

FormInv == TypeInv /\ LoadInv /\ EditInv

LEMMA FormInit == Init => FormInv
BY TypeInit, LoadInit, EditInit DEF FormInv

LEMMA FormStep == FormInv /\ [Next]_vars => FormInv'
BY TypeStep, LoadStep, EditStep DEF FormInv

\* The record is changed by others, or by a submit.
LEMMA OnlySubmitsWrite ==
  ASSUME TypeInv, [Next]_vars, others' = others, row' # row
  PROVE  /\ form \in Edits /\ row # None
         /\ \E r \in requests : r.button = "submit" /\ row' = Stored(r)
<1>1. ASSUME NEW r \in requests, Finish(r)
      PROVE  /\ form \in Edits /\ row # None
             /\ \E q \in requests : q.button = "submit" /\ row' = Stored(q)
  BY <1>1, FinishMoves DEF Finishes
<1>2. others \in Nat
  BY BoundAssumption DEF TypeInv, TypeOK
<1>3. ASSUME NEW r \in requests, Begin(r) \/ Deal(r) \/ Fail(r) PROVE FALSE
  <2>1. CASE Begin(r)
    BY <2>1, BeginMoves DEF Begins
  <2> QED
    BY <1>3, <2>1 DEF Deal, Fail, server
<1>4. ASSUME NEW f \in AllFields, NEW text \in Text, Others(f, text) PROVE FALSE
  BY <1>2, <1>4 DEF Others
<1>5. ASSUME Delete \/ Verify \/ UNCHANGED vars PROVE FALSE
  BY <1>2, <1>5 DEF Delete, Verify, vars, server
<1>6. ASSUME User PROVE FALSE
  BY <1>6, UserClicks DEF Type, Turn, Click, Press, server
<1> QED
  BY <1>1, <1>3, <1>4, <1>5, <1>6 DEF Next, Server, Browser

\* Saving changes no field that was not typed into, unless to undo what others did to it
\* since the form was loaded, and what the user may not change not even then (EditUser.js,
\* EditProfile.js, UpdateUser, UpdateSelf, UpdateProfile).
THEOREM EditsWritten == Spec => OnlyEditsAreWritten
<1>1. ASSUME FormInv, [Next]_vars, others' = others, row' # row, NEW f \in DOMAIN row,
             row'[f] # row[f]
      PROVE  f \in touched \/ (f \in foreign /\ (f = "status" => form = "editUser"))
  <2>1. form \in Edits /\ row # None /\ row \in Record(form)
    BY <1>1, OnlySubmitsWrite DEF FormInv, TypeInv, TypeOK
  <2>2. PICK r \in requests : r.button = "submit" /\ row' = Stored(r)
    BY <1>1, OnlySubmitsWrite DEF FormInv
  <2>3. f \in Columns(form)
    BY <2>1 DEF Record
  <2> QED
    BY <1>1, <2>1, <2>2, <2>3, ChangesAreExplained DEF FormInv
<1>2. FormInv /\ [Next]_vars =>
        [others' = others /\ row' # row =>
           \A f \in DOMAIN row : row'[f] # row[f] =>
             f \in touched \/ (f \in foreign /\ (f = "status" => form = "editUser"))]_vars
  BY <1>1
<1> QED
  BY <1>2, FormInit, FormStep, PTL DEF Spec, OnlyEditsAreWritten
-------------------------------------------------------------------------------
\* Requests that never overlapped.

Single == \A q, r \in requests : q = r

LoneInv == lone => Single

LEMMA LoneInit == Init => LoneInv
BY InitialRequest DEF LoneInv, Single

\* A request that is sent alone has no other beside it.
LEMMA SentAlone ==
  ASSUME TypeInv, NEW b \in Page.buttons, Click(b), lone'
  PROVE  lone /\ requests = {} /\ \E new : IsNew(new, b, FALSE) /\ requests' = {new}
<1>1. lone /\ requests = {}
  BY DEF Click, Press, TypeInv, TypeOK
<1>2. PICK new : Sends(b, new)
  BY Clicked
<1>3. Twins(b) = {}
  BY <1>1 DEF Twins
<1>4. IsNew(new, b, FALSE)
  <2>1. (Twins(b) # {}) = FALSE
    BY <1>3
  <2> QED
    BY <1>2, <2>1 DEF Sends
<1>5. requests' = {new}
  BY <1>1, <1>2 DEF Sends
<1> QED
  BY <1>1, <1>4, <1>5

\* No step but a click makes requests more.
LEMMA OtherSteps ==
  ASSUME TypeInv, [Next]_vars
  PROVE  \/ \E b \in Page.buttons : Click(b)
         \/ lone' = lone /\ \E r \in requests : \E s : requests' = (requests \ {r}) \cup {s}
         \/ lone' = lone /\ requests' \subseteq requests
<1>1. ASSUME NEW r \in requests, Begin(r) \/ Finish(r)
      PROVE  lone' = lone /\ \E s : requests' = (requests \ {r}) \cup {s}
  BY <1>1, BeginMoves, FinishMoves DEF Begins, Finishes, Moves, Begin, Finish, history
<1>2. ASSUME NEW r \in requests, Deal(r) \/ Fail(r)
      PROVE  lone' = lone /\ requests' \subseteq requests
  BY <1>2 DEF Deal, Fail
<1>3. ASSUME NEW f \in AllFields, NEW text \in Text \cup {Blank}, Type(f, text)
      PROVE  UNCHANGED <<lone, requests>>
  BY <1>3 DEF Type
<1>4. ASSUME NEW m \in {"none", "email", "wechat"}, Turn(m)
      PROVE  UNCHANGED <<lone, requests>>
  BY <1>4 DEF Turn, history
<1>5. ASSUME NEW f \in AllFields, NEW text \in Text, Others(f, text)
      PROVE  UNCHANGED <<lone, requests>>
  BY <1>5 DEF Others
<1>6. ASSUME Verify \/ Delete \/ UNCHANGED vars
      PROVE  UNCHANGED <<lone, requests>>
  BY <1>6 DEF Verify, Delete, vars, history
<1> QED
  BY <1>1, <1>2, <1>3, <1>4, <1>5, <1>6, UserClicks DEF Next, Server, Browser

LEMMA LoneStep == TypeInv /\ LoneInv /\ [Next]_vars => LoneInv'
<1> SUFFICES ASSUME TypeInv, LoneInv, [Next]_vars, lone' PROVE Single'
  BY DEF LoneInv
<1>1. ASSUME NEW b \in Page.buttons, Click(b) PROVE Single'
  BY <1>1, SentAlone DEF Single
<1>2. ASSUME lone' = lone, NEW r \in requests, NEW s, requests' = (requests \ {r}) \cup {s}
      PROVE  Single'
  BY <1>2 DEF LoneInv, Single
<1>3. ASSUME lone' = lone, requests' \subseteq requests PROVE Single'
  BY <1>3 DEF LoneInv, Single
<1> QED
  BY <1>1, <1>2, <1>3, OtherSteps

\* What a step does to a request that is alone.
LEMMA Alone ==
  ASSUME LoneInv, lone, NEW r \in requests
  PROVE  requests = {r}
BY DEF LoneInv, Single
-------------------------------------------------------------------------------
\* The secret that a form shows is the valid one.

Secrets == {"confirm", "token"}
Binds == {"bindEmail", "bindWeChat"}

\* What was shown has been replaced only by a secret that is on its way; what a bind has
\* read is what it will find when it writes.
SecretInv ==
  lone /\ faults = 0 =>
    /\ shown # 0 => \/ secret = shown
                    \/ \E r \in requests : r.button \in Secrets /\ r.phase = "granted"
    /\ \A r \in requests :
         /\ r.button \in Secrets /\ r.phase = "granted" => r.secret = secret
         /\ r.button \in Binds /\ r.phase = "passed" => r.secret = secret

LEMMA SecretInit == Init => SecretInv
<1> SUFFICES ASSUME Init PROVE SecretInv
  OBVIOUS
<1>1. shown = 0
  BY DEF Init
<1> QED
  BY <1>1, InitialRequest DEF SecretInv, Secrets, Binds

LEMMA SecretStep == TypeInv /\ LoneInv /\ SecretInv /\ [Next]_vars => SecretInv'
<1> SUFFICES ASSUME TypeInv, LoneInv, SecretInv, [Next]_vars, lone', faults' = 0
             PROVE  SecretInv'
  BY DEF SecretInv
<1>1. CASE UNCHANGED <<lone, faults, shown, secret, requests>>
  BY <1>1 DEF SecretInv
<1>2. ASSUME NEW b \in Page.buttons, Click(b) PROVE SecretInv'
  <2>1. UNCHANGED <<faults, shown, secret>>
    BY <1>2 DEF Click, Press, server
  <2>2. lone /\ requests = {}
    BY <1>2, SentAlone
  <2>3. PICK new : IsNew(new, b, FALSE) /\ requests' = {new}
    BY <1>2, SentAlone
  <2>4. new.phase # "granted" /\ (new.button \in Binds => new.phase # "passed")
    BY <2>3 DEF IsNew, Binds
  <2> QED
    BY <2>1, <2>2, <2>3, <2>4 DEF SecretInv
<1>3. ASSUME NEW r \in requests, Begin(r) PROVE SecretInv'
  <2>1. PICK s : Begins(r, s)
    BY <1>3, BeginMoves
  <2>2. r.phase = "sent" /\ UNCHANGED <<lone, faults, shown>>
    BY <1>3 DEF Begin, page, history
  <2>3. requests = {r} /\ requests' = {s}
    BY <2>1, <2>2, Alone DEF Begins, Moves
  <2>4. /\ secret' = secret /\ s.phase # "granted"
        /\ s.button \in Binds => s.secret = secret
    BY <2>1 DEF Begins, Moves, Binds
  <2> QED
    BY <2>2, <2>3, <2>4 DEF SecretInv
<1>4. ASSUME NEW r \in requests, Finish(r) PROVE SecretInv'
  <2>1. PICK s : Finishes(r, s)
    BY <1>4, FinishMoves
  <2>2. r.phase = "passed" /\ UNCHANGED <<lone, faults, shown>>
    BY <1>4 DEF Finish, page
  <2>3. requests = {r} /\ requests' = {s}
    BY <2>1, <2>2, Alone DEF Finishes, Moves
  <2>4. /\ shown # 0 => secret = shown
        /\ r.button \in Binds => r.secret = secret
    BY <2>2, <2>3 DEF SecretInv
  <2>5. s.button = r.button /\ s.phase \in {"granted", "refused"}
    BY <2>1 DEF Finishes, Moves
  <2>6. CASE r.button \in Secrets /\ s.phase = "granted"
    <3>1. s.secret = secret'
      BY <2>1, <2>6 DEF Finishes, Secrets, Guarded
    <3> QED
      BY <2>2, <2>3, <2>5, <2>6, <3>1 DEF SecretInv, Secrets, Binds
  <2>7. CASE ~ (r.button \in Secrets /\ s.phase = "granted")
    <3>1. secret' = secret
      BY <2>1, <2>4, <2>7 DEF Finishes, Secrets, Binds
    <3> QED
      BY <2>2, <2>3, <2>4, <2>5, <2>7, <3>1 DEF SecretInv
  <2> QED
    BY <2>6, <2>7
<1>5. ASSUME NEW r \in requests, Deal(r) PROVE SecretInv'
  <2>1. Deals(r) /\ Fits(r)
    BY <1>5, DealIs DEF TypeInv
  <2>2. UNCHANGED <<lone, faults, secret>>
    BY <2>1 DEF Deals, server
  <2>3. requests = {r} /\ requests' = {}
    BY <2>1, <2>2, Alone DEF Deals
  <2>4. CASE r.button \in Secrets /\ r.phase = "granted"
    <3>1. form \in {"confirm", "personal"}
      BY <2>1, <2>4, FormIs
      DEF TypeInv, Fits, ButtonsOf, Secrets, AllForms, Edits, UserEdits
    <3>2. shown' = r.secret
      BY <2>1, <2>4, <3>1 DEF Deals, Secrets, OnSecret
    <3>3. r.secret = secret
      BY <2>2, <2>4 DEF SecretInv
    <3> QED
      BY <2>2, <2>3, <3>2, <3>3 DEF SecretInv
  <2>5. CASE ~ (r.button \in Secrets /\ r.phase = "granted")
    <3>1. shown' = shown
      BY <2>1, <2>5
      DEF Deals, Secrets, Stays, OnRefused, OnRegister, OnBlanked, OnBound, OnLoaded
    <3>2. shown # 0 => secret = shown
      BY <2>2, <2>3, <2>5 DEF SecretInv
    <3> QED
      BY <2>2, <2>3, <3>1, <3>2 DEF SecretInv
  <2> QED
    BY <2>4, <2>5
<1>6. ASSUME NEW r \in requests, Fail(r) PROVE FALSE
  <2>1. faults \in Nat
    BY BoundAssumption DEF TypeInv, TypeOK
  <2> QED
    BY <1>6, <2>1 DEF Fail
<1>7. ASSUME NEW f \in AllFields, NEW text \in Text \cup {Blank}, Type(f, text)
      PROVE  UNCHANGED <<lone, faults, shown, secret, requests>>
  BY <1>7 DEF Type, server
<1>8. ASSUME NEW m \in {"none", "email", "wechat"}, Turn(m)
      PROVE  UNCHANGED <<lone, faults, shown, secret, requests>>
  BY <1>8 DEF Turn, server, history
<1>9. ASSUME NEW f \in AllFields, NEW text \in Text, Others(f, text)
      PROVE  UNCHANGED <<lone, faults, shown, secret, requests>>
  BY <1>9 DEF Others, page
<1>10. CASE Verify \/ Delete \/ UNCHANGED vars
  BY <1>1, <1>10 DEF Verify, Delete, vars, page, server, history
<1> QED
  BY <1>1, <1>2, <1>3, <1>4, <1>5, <1>6, <1>7, <1>8, <1>9, <1>10, UserClicks
  DEF Next, Server, Browser

\* The password or access token a form showed last is the valid one, unless requests
\* overlapped or an answer got lost (PasswordResetConfirm.js, PersonalSetting.js,
\* ResetPassword, GenerateToken, EmailBind, WeChatBind).
THEOREM SecretWorks == Spec => []ShownSecretWorks
<1>1. TypeInv /\ LoneInv /\ SecretInv /\ [Next]_vars => TypeInv' /\ LoneInv' /\ SecretInv'
  BY TypeStep, LoneStep, SecretStep
<1>2. SecretInv => ShownSecretWorks
  BY DEF SecretInv, ShownSecretWorks
<1> QED
  BY <1>1, <1>2, TypeInit, LoneInit, SecretInit, PTL DEF Spec
-------------------------------------------------------------------------------
\* A field that was not typed into since the last submit is in the record.

\* The record says of field f what the form does, as far as a submit writes it.
Tells(f, value) == value = row[f] \/ (form \in UserEdits /\ value = Blank)

\* A field that the record does not tell is in the submit that is under way, which has
\* what the form shows of all that was not typed into since.
CleanInv ==
  form \in Edits /\ lone /\ faults = 0 /\ row # None =>
    /\ requests = {} => ~ loading
    /\ ~ loading => \A f \in Fields(form) \ (dirty \cup foreign) :
         \/ Tells(f, inputs[f])
         \/ \E r \in requests : f \in r.dirty /\ r.phase # "granted"
    /\ \A r \in requests : r.button = "submit" /\ r.phase # "granted" =>
         \A f \in Fields(form) \ dirty : inputs[f] = r.sent[f]

LEMMA CleanInit == Init => CleanInv
<1> SUFFICES ASSUME Init, form \in Edits PROVE CleanInv
  BY DEF CleanInv
<1>1. loading /\ requests # {}
  BY DEF Init
<1> QED
  BY <1>1, InitialRequest DEF CleanInv

\* What a submit leaves out of the record is blank, or the status.
LEMMA LeftOut ==
  ASSUME TypeInv, form \in Edits, row # None, NEW r \in requests, r.button = "submit",
         NEW f \in Fields(form)
  PROVE  \/ Stored(r)[f] = r.sent[f]
         \/ Stored(r)[f] = row[f] /\ (f = "status" \/ (form \in UserEdits /\ r.sent[f] = Blank))
<1>1. row \in Record(form) /\ r.sent \in Filled(form)
  BY DEF TypeInv, TypeOK, Fits
<1>2. f \in DOMAIN row /\ f \in DOMAIN r.sent
  BY <1>1 DEF Record, Columns, Filled
<1>3. CASE f \in Written(r)
  BY <1>2, <1>3 DEF Stored
<1>4. CASE f \notin Written(r)
  <2>1. f = "status" \/ (form \in UserEdits /\ r.sent[f] = Blank)
    BY <1>2, <1>4 DEF Written, Edits, UserEdits
  <2> QED
    BY <1>2, <1>4, <2>1 DEF Stored
<1> QED
  BY <1>3, <1>4

LEMMA CleanStep == FormInv /\ LoneInv /\ CleanInv /\ [Next]_vars => CleanInv'
<1> SUFFICES ASSUME TypeInv, LoadInv, EditInv, LoneInv, CleanInv, [Next]_vars,
                    form' \in Edits, lone', faults' = 0, row' # None
             PROVE  CleanInv'
  BY DEF CleanInv, FormInv
<1>1. CASE UNCHANGED <<form, requests, inputs, loading, row, dirty, foreign, lone, faults>>
  BY <1>1 DEF CleanInv, Tells
<1>2. ASSUME NEW f \in AllFields, NEW text \in Text \cup {Blank}, Type(f, text)
      PROVE  CleanInv'
  <2>1. /\ UNCHANGED <<form, requests, row, loading, foreign, lone, faults>>
        /\ inputs' = [inputs EXCEPT ![f] = text]
        /\ form \in Edits => dirty' = dirty \cup {f}
        /\ f \in Page.typed
    BY <1>2 DEF Type, server
  <2>2. ~ loading
    BY <2>1, TypedFields DEF TypeInv
  <2>3. \A g \in Fields(form) : g # f => inputs'[g] = inputs[g]
    BY <2>1 DEF TypeInv, TypeOK
  <2> QED
    BY <2>1, <2>2, <2>3 DEF CleanInv, Tells
<1>3. ASSUME NEW b \in Page.buttons, Click(b) PROVE CleanInv'
  <2>1. /\ UNCHANGED <<form, row, inputs, foreign, faults>>
        /\ loading' = (loading \/ b \in Spinning)
        /\ dirty' = IF b = "submit" THEN {} ELSE dirty
    BY <1>3 DEF Click, Press, server
  <2>2. lone /\ requests = {} /\ b = "submit" /\ ~ loading
    BY <1>3, <2>1, SentAlone, EditClick
  <2>3. PICK new : IsNew(new, b, FALSE) /\ requests' = {new}
    BY <1>3, SentAlone
  <2>4. new.phase = "passed" /\ new.sent = inputs /\ new.dirty = dirty
    BY <2>2, <2>3 DEF IsNew
  <2>5. \A f \in Fields(form) \ (dirty \cup foreign) : Tells(f, inputs[f])
    BY <2>1, <2>2 DEF CleanInv
  <2> QED
    BY <2>1, <2>3, <2>4, <2>5 DEF CleanInv, Tells
<1>4. ASSUME NEW r \in requests, Begin(r) PROVE CleanInv'
  <2>1. form' = form
    BY <1>4 DEF Begin, page
  <2> QED
    BY <1>4, <2>1, EditButtons, BeginMoves DEF Begins
<1>5. ASSUME NEW r \in requests, Finish(r) PROVE CleanInv'
  <2>1. PICK s : Finishes(r, s)
    BY <1>5, FinishMoves
  <2>2. r.phase = "passed" /\ UNCHANGED <<form, inputs, loading, dirty, lone, faults>>
    BY <1>5 DEF Finish, page
  <2>3. /\ s.button = r.button /\ s.sent = r.sent /\ s.dirty = r.dirty
        /\ requests = {r} /\ requests' = {s}
    BY <2>1, <2>2, Alone DEF Finishes, Moves
  <2>4. row # None /\ form \in Edits
    BY <2>1, <2>2 DEF Finishes
  <2>5. CASE r.button = "load"
    <3>1. loading
      BY <2>4, <2>5 DEF LoadInv
    <3> QED
      BY <2>2, <2>3, <2>5, <3>1 DEF CleanInv
  <2>6. CASE r.button # "load"
    <3>1. r.button = "submit" /\ foreign' = foreign
      BY <1>5, <2>4, <2>6, EditButtons DEF Finish
    <3>2. \A f \in Fields(form) \ dirty : inputs[f] = r.sent[f]
      BY <2>2, <2>4, <3>1 DEF CleanInv
    <3>3. \A f \in Fields(form) \ (dirty \cup foreign) :
            ~ loading => Tells(f, inputs[f]) \/ f \in r.dirty
      BY <2>2, <2>3, <2>4 DEF CleanInv
    <3>4. CASE s.phase = "refused"
      <4>1. row' = row
        BY <2>1, <3>4 DEF Finishes
      <4> QED
        BY <2>2, <2>3, <3>1, <3>2, <3>3, <3>4, <4>1 DEF CleanInv, Tells
    <3>5. CASE s.phase # "refused"
      <4>1. s.phase = "granted" /\ row' = Stored(r)
        BY <2>1, <2>4, <3>1, <3>5 DEF Finishes, Secrets, Binds
      <4>2. "status" \notin r.dirty
        BY DEF TypeInv, RequestRecord
      <4>3. ASSUME NEW f \in Fields(form) \ (dirty \cup foreign), ~ loading
            PROVE  inputs[f] = row'[f] \/ (form \in UserEdits /\ inputs[f] = Blank)
        <5>1. CASE row'[f] = r.sent[f]
          BY <3>2, <5>1
        <5>2. CASE row'[f] = row[f] /\ f = "status"
          BY <3>3, <4>2, <4>3, <5>2 DEF Tells
        <5>3. CASE form \in UserEdits /\ r.sent[f] = Blank
          BY <3>2, <5>3
        <5> QED
          BY <2>4, <3>1, <4>1, <5>1, <5>2, <5>3, LeftOut
      <4> QED
        BY <2>2, <2>3, <3>1, <4>1, <4>3 DEF CleanInv, Tells
    <3> QED
      BY <3>4, <3>5
  <2> QED
    BY <2>5, <2>6
<1>6. ASSUME NEW r \in requests, Deal(r) PROVE CleanInv'
  <2>1. Deals(r)
    BY <1>6, DealIs
  <2>2. form = form'
    BY <2>1 DEF Deals, OnRefused, OnRegister, OnBlanked, OnSecret, OnBound, OnLoaded, Stays,
                Edits, UserEdits
  <2>3. /\ ~ loading' /\ requests' = requests \ {r}
        /\ UNCHANGED <<row, foreign, lone, faults>>
    BY <2>1, <2>2, EditDeals
  <2>4. requests = {r} /\ requests' = {}
    BY <2>3, Alone
  <2>5. \A f \in Fields(form) \ (dirty \cup foreign) :
          ~ loading => Tells(f, inputs[f]) \/ (f \in r.dirty /\ r.phase # "granted")
    BY <2>2, <2>3, <2>4 DEF CleanInv
  <2>6. CASE r.button = "load"
    <3>1. r.phase = "granted" /\ inputs' = r.value
      BY <2>1, <2>2, <2>3, <2>6, EditDeals
    <3>2. \A f \in Fields(form) \ foreign : Tells(f, r.value[f])
      BY <2>2, <2>3, <2>6, <3>1 DEF EditInv, Tells
    <3> QED
      BY <2>2, <2>3, <2>4, <3>1, <3>2 DEF CleanInv, Tells
  <2>7. CASE r.button # "load"
    <3>1. /\ ~ loading /\ UNCHANGED inputs
          /\ dirty' = IF r.phase = "granted" THEN dirty ELSE dirty \cup r.dirty
      BY <2>1, <2>2, <2>7, EditDeals
    <3> QED
      BY <2>2, <2>3, <2>4, <2>5, <3>1 DEF CleanInv, Tells
  <2> QED
    BY <2>6, <2>7
<1>7. ASSUME NEW f \in AllFields, NEW text \in Text, Others(f, text) PROVE CleanInv'
  <2>1. /\ UNCHANGED <<form, requests, inputs, loading, dirty, lone, faults>> /\ row # None
        /\ row' = [row EXCEPT ![f] = text] /\ foreign' = foreign \cup {f}
    BY <1>7 DEF Others, page
  <2>2. \A g \in Fields(form) : g # f => row'[g] = row[g]
    <3>1. form \in Edits /\ row \in Record(form)
      BY <2>1 DEF TypeInv, TypeOK
    <3>2. Fields(form) \subseteq Columns(form)
      BY <3>1 DEF Columns
    <3> QED
      BY <2>1, <3>1, <3>2 DEF Record
  <2> QED
    BY <2>1, <2>2 DEF CleanInv, Tells
<1>8. CASE Delete
  BY <1>8 DEF Delete
<1>9. ASSUME NEW r \in requests, Fail(r) PROVE FALSE
  <2>1. faults \in Nat
    BY BoundAssumption DEF TypeInv, TypeOK
  <2> QED
    BY <1>9, <2>1 DEF Fail
<1>10. ASSUME NEW m \in {"none", "email", "wechat"}, Turn(m)
      PROVE  UNCHANGED <<form, requests, inputs, loading, row, dirty, foreign, lone, faults>>
  BY <1>10 DEF Turn, server, history
<1>11. CASE Verify \/ UNCHANGED vars
  BY <1>1, <1>11 DEF Verify, vars, page, server, history
<1> QED
  BY <1>1, <1>2, <1>3, <1>4, <1>5, <1>6, <1>7, <1>8, <1>9, <1>10, <1>11, UserClicks
  DEF Next, Server, Browser

\* A field that was not typed into since the last submit is in the record as the form
\* shows it, whatever was refused before (EditUser.js, EditProfile.js, UpdateUser,
\* UpdateSelf, UpdateProfile).
THEOREM CleanSaved == Spec => []CleanFieldsAreSaved
<1>1. FormInv /\ LoneInv /\ CleanInv /\ [Next]_vars => FormInv' /\ LoneInv' /\ CleanInv'
  BY FormStep, LoneStep, CleanStep DEF FormInv
<1>2. FormInv /\ CleanInv => CleanFieldsAreSaved
  <2>1. TypeInv => DOMAIN inputs = Fields(form)
    BY DEF TypeInv, TypeOK
  <2> QED
    BY <2>1 DEF FormInv, CleanInv, CleanFieldsAreSaved, Tells
<1> QED
  BY <1>1, <1>2, FormInit, LoneInit, CleanInit, PTL DEF Spec
===============================================================================
