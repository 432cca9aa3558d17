------------------------------- MODULE WebForms -------------------------------
(***************************************************************************)
(* The forms of the web pages: one tab with one form open, which its user  *)
(* fills in and submits, again before the first answer if they like, while *)
(* others change the record that it edits (RegisterForm.js,                *)
(* PersonalSetting.js, PasswordResetForm.js, PasswordResetConfirm.js,      *)
(* AddUser.js, EditUser.js, EditProfile.js).  Of the server there is what  *)
(* the forms can tell: Turnstile, the record, the password or token that   *)
(* is valid.  A form whose segment is loading takes no input.              *)
(***************************************************************************)
EXTENDS Naturals, FiniteSets

CONSTANTS
  Form,      \* the forms that may be open
  Text,      \* what may be typed into a field, all of it fit for a password
  Blank,     \* nothing typed
  MaxClicks, \* bound: buttons pressed, for each form
  MaxOthers, \* bound: changes of the record by others
  MaxTokens, \* bound: Turnstile tokens
  MaxFaults, \* bound: requests or answers that get lost
  None       \* no record

UserEdits == {"editUser", "editSelf"}
Edits == UserEdits \cup {"editProfile"}
AllForms == Edits \cup {"register", "personal", "reset", "confirm", "addUser", "addProfile"}

ASSUME FormAssumption == Form \subseteq AllForms
ASSUME TextAssumption == Text # {} /\ Blank \notin Text
ASSUME BoundAssumption ==
  /\ MaxClicks \in [AllForms -> Nat] /\ MaxOthers \in Nat
  /\ MaxTokens \in Nat /\ MaxFaults \in Nat

VARIABLES
  form,     \* the open form, or "left"
  status,   \* localStorage.status
  modal,    \* the open dialog of the personal settings
  inputs,   \* what the form would send
  loading,
  token,    \* of Turnstile: 0 when there is none yet
  spent,    \* tokens Cloudflare was asked about
  checked,  \* whether the session has passed Turnstile
  requests, \* requests under way and answers not yet dealt with
  row,      \* the record the form edits
  secret,   \* the valid password or access token: the number of its request
  code,     \* whether the code of the reset link is valid
  shown,    \* the secret the form showed last
  clicks, others, faults, \* how many there were
  touched,  \* history: fields typed into since the record was loaded
  dirty,    \* history: fields typed into that no submit has taken yet
  foreign,  \* history: fields that others changed since the record was read
  lone      \* history: no request was sent while another was under way

page == <<form, modal, inputs, loading, token, shown>>
server == <<spent, row, secret, code>>
history == <<touched, dirty, foreign, lone>>
vars == <<status, page, server, checked, requests, clicks, others, faults, history>>

-------------------------------------------------------------------------------
\* The forms.

\* The fields of a form.  Of a profile, name stands for all that must not be
\* blank; of a user, username for the texts and status for all that the form
\* carries along and does not show for editing: role, status, email, identities.
Fields(f) ==
  CASE f = "register" -> {"username", "password", "password2", "email"}
    [] f = "personal" -> {"email", "email_verification_code", "wechat_verification_code"}
    [] f \in {"reset", "confirm"} -> {"email"}
    [] f = "addUser" -> {"username", "password"}
    [] f \in UserEdits -> {"username", "password", "status"}
    [] f \in {"editProfile", "addProfile"} -> {"name", "description"}
    [] OTHER -> {}

\* Columns of the record: those of the form, and its status.
Columns(f) == IF f \in Edits THEN Fields(f) \cup {"status"} ELSE {}

Record(f) == [Columns(f) -> Text \cup {Blank}]

ASSUME NoneAssumption == \A f \in AllForms : None \notin Record(f)

\* What a page shows: fields to type into, and buttons that send a request.
Shown(typed, buttons) == [typed |-> typed, buttons |-> buttons]

RegisterPage ==
  LET mail == status.email_verification
  IN  Shown({"username", "password", "password2"} \cup (IF mail THEN {"email"} ELSE {}),
            {"register"} \cup (IF mail THEN {"code"} ELSE {}))

\* The dialogs cover the page.
PersonalPage ==
  CASE modal = "email"  -> Shown({"email", "email_verification_code"}, {"code", "bindEmail"})
    [] modal = "wechat" -> Shown({"wechat_verification_code"}, {"bindWeChat"})
    [] OTHER            -> Shown({}, {"token"})

ResetPage == Shown({"email"}, {"mail"})

\* The address is that of the link.
ConfirmPage == Shown({}, {"confirm"})

AddUserPage == Shown({"username", "password"}, {"submit"})

\* While a segment is loading, it takes no input.
EditUserPage ==
  IF loading THEN Shown({}, {}) ELSE Shown({"username", "password"}, {"submit"})

EditProfilePage ==
  IF loading THEN Shown({}, {}) ELSE Shown({"name", "description"}, {"submit"})

Page ==
  CASE form = "register"    -> RegisterPage
    [] form = "personal"    -> PersonalPage
    [] form = "reset"       -> ResetPage
    [] form = "confirm"     -> ConfirmPage
    [] form = "addUser"     -> AddUserPage
    [] form \in UserEdits   -> EditUserPage
    [] form \in {"editProfile", "addProfile"} -> EditProfilePage
    [] OTHER                -> Shown({}, {})

Guarded == {"register", "code", "mail"} \* by Turnstile

\* Buttons that set loading while their request is under way.
Spinning == {"register", "code", "mail", "confirm", "bindEmail"}

-------------------------------------------------------------------------------
Button == Guarded \cup Spinning \cup {"bindWeChat", "token", "submit", "load"}
Phase == {"sent", "passed", "granted", "refused", "turnstile"}

AllFields == UNION {Fields(f) : f \in AllForms}

TypeOK ==
  /\ form \in Form \cup {"left"}
  /\ status \in [turnstile_check : BOOLEAN, email_verification : BOOLEAN]
  /\ modal \in {"none", "email", "wechat"}
  /\ inputs \in [Fields(form) -> Text \cup {Blank}]
  /\ loading \in BOOLEAN
  /\ token \in 0..MaxTokens
  /\ spent \subseteq 1..MaxTokens
  /\ checked \in BOOLEAN
  /\ \A r \in requests :
       /\ r.id \in Nat
       /\ r.button \in Button
       /\ r.phase \in Phase
       /\ r.token \in 0..MaxTokens
       /\ r.secret \in Nat
       /\ r.dirty \subseteq AllFields
  /\ row \in Record(form) \cup {None}
  /\ secret \in Nat
  /\ code \in BOOLEAN
  /\ shown \in Nat
  /\ clicks \in Nat /\ others \in 0..MaxOthers /\ faults \in 0..MaxFaults
  /\ touched \subseteq AllFields /\ dirty \subseteq AllFields /\ foreign \subseteq AllFields
  /\ lone \in BOOLEAN

-------------------------------------------------------------------------------
\* The user.

Some == CHOOSE text \in Text : TRUE

\* Two texts where a form compares them or others may have written another one.
Texts(f) ==
  CASE form = "personal" \/ f \in {"email", "description"} -> {Some, Blank}
    [] form \in UserEdits /\ f = "password" -> (Text \ {Some}) \cup {Blank}
    [] OTHER -> Text \cup {Blank}

\* handleChange, handleInputChange.
Type(f, text) ==
  /\ f \in Page.typed
  /\ text \in Texts(f)
  /\ inputs[f] # text
  /\ inputs' = [inputs EXCEPT ![f] = text]
  /\ IF form \in Edits
     THEN touched' = touched \cup {f} /\ dirty' = dirty \cup {f}
     ELSE UNCHANGED <<touched, dirty>>
  /\ UNCHANGED <<form, status, modal, loading, token, shown, server, checked, requests,
                 clicks, others, faults, foreign, lone>>

\* The dialogs of the personal settings.
Turn(m) ==
  /\ form = "personal"
  /\ m = "none" <=> modal # "none"
  /\ modal' = m
  /\ UNCHANGED <<form, status, inputs, loading, token, shown, server, checked, requests,
                 clicks, others, faults, history>>

\* onVerify: the widget has a new token.
Verify ==
  /\ status.turnstile_check
  /\ form \in {"register", "reset"} \/ modal = "email"
  /\ token < MaxTokens
  /\ token' = token + 1
  /\ UNCHANGED <<form, status, modal, inputs, loading, shown, server, checked, requests,
                 clicks, others, faults, history>>

\* Others whose token the guards of the server see before it has an answer.
Twins(b) ==
  {r \in requests : b \in Guarded /\ r.button \in Guarded /\ r.token = token}

Request(id, b) ==
  [id |-> id, button |-> b,
   phase |-> IF b \in {"load", "submit"} THEN "passed" ELSE "sent",
   sent |-> IF b = "submit" THEN inputs ELSE None,
   token |-> IF b \in Guarded THEN token ELSE 0,
   checked |-> checked, twin |-> FALSE,
   dirty |-> dirty, value |-> None, secret |-> 0]

\* A handler gets as far as its request; fills says whether it found what it
\* needs.  The loading class of a button does not stop clicks.
Press(b, fills) ==
  /\ b \in Page.buttons
  /\ fills
  /\ b \in Guarded /\ status.turnstile_check => token # 0
  /\ clicks < MaxClicks[form] /\ clicks' = clicks + 1
  /\ loading' = (loading \/ b \in Spinning)
  /\ LET twins == Twins(b)
         new == [Request(clicks', b) EXCEPT !.twin = (twins # {})]
     IN  requests' = (requests \ twins)
                       \cup {[r EXCEPT !.twin = TRUE] : r \in twins} \cup {new}
  /\ lone' = (lone /\ requests = {})
  /\ dirty' = IF b = "submit" THEN {} ELSE dirty
  /\ UNCHANGED <<form, status, modal, inputs, token, shown, server, checked, others,
                 faults, touched, foreign>>

\* handleSubmit of RegisterForm.
Register ==
  Press("register", /\ inputs.password # Blank
                    /\ inputs.password = inputs.password2 /\ inputs.username # Blank)

\* sendVerificationCode: its button is disabled while loading.
SendVerificationCode == Press("code", ~loading /\ inputs.email # Blank)

\* handleSubmit of PasswordResetForm.
SendReset == Press("mail", inputs.email # Blank)

\* handleSubmit of PasswordResetConfirm.
ConfirmReset == Press("confirm", inputs.email # Blank)

GenerateToken == Press("token", TRUE)

BindEmail == Press("bindEmail", inputs.email_verification_code # Blank)

BindWeChat == Press("bindWeChat", inputs.wechat_verification_code # Blank)

\* submit of AddUser.
SubmitUser ==
  /\ form = "addUser"
  /\ Press("submit", inputs.username # Blank /\ inputs.password # Blank)

\* submit of EditUser.
SubmitEdit == form \in UserEdits /\ Press("submit", TRUE)

\* submit of EditProfile.
SubmitProfile == form \in {"editProfile", "addProfile"} /\ Press("submit", TRUE)

-------------------------------------------------------------------------------
\* The server, step by step.

Becomes(r, phase) == requests' = (requests \ {r}) \cup {[r EXCEPT !.phase = phase]}

\* Mutant: a session that has passed is asked again.
AskedAgain(r) ==
  /\ r.button \in Guarded
  /\ LET asked == status.turnstile_check
         valid == r.token \notin spent
     IN  /\ spent' = IF asked THEN spent \cup {r.token} ELSE spent
         /\ IF asked /\ ~valid THEN Becomes(r, "turnstile") ELSE Becomes(r, "passed")
  /\ UNCHANGED <<row, secret, code>>

\* TurnstileCheck.  Cloudflare takes a token once.  The cookie comes back with
\* the answer; a request that is sent before it has is a twin.
CheckTurnstile(r) ==
  /\ r.button \in Guarded
  /\ LET asked == status.turnstile_check /\ ~r.checked
         valid == r.token \notin spent
     IN  /\ spent' = IF asked THEN spent \cup {r.token} ELSE spent
         /\ IF asked /\ ~valid THEN Becomes(r, "turnstile") ELSE Becomes(r, "passed")
  /\ UNCHANGED <<row, secret, code>>

\* ResetPassword looks at the code.
CheckCode(r) ==
  /\ r.button = "confirm"
  /\ Becomes(r, IF code THEN "passed" ELSE "refused")
  /\ UNCHANGED server

\* GenerateToken, EmailBind and WeChatBind read the user, all of it.
ReadUser(r) ==
  /\ r.button \in {"token", "bindEmail", "bindWeChat"}
  /\ requests' = (requests \ {r}) \cup {[r EXCEPT !.phase = "passed", !.secret = secret]}
  /\ UNCHANGED server

Begin(r) ==
  /\ r.phase = "sent"
  /\ CheckTurnstile(r) \/ CheckCode(r) \/ ReadUser(r)
  /\ UNCHANGED <<status, page, checked, clicks, others, faults, history>>

\* Mutant: users save all of their own record, as administrators do.
WrittenWhole(r) ==
  CASE form \in UserEdits -> {f \in DOMAIN r.sent : r.sent[f] # Blank}
    [] form = "editProfile" -> DOMAIN r.sent
    [] OTHER -> {}

\* Mutant: nothing blank is written, not to a profile either.
WrittenUnlessBlank(r) ==
  CASE form \in {"editUser", "editProfile"} -> {f \in DOMAIN r.sent : r.sent[f] # Blank}
    [] form = "editSelf" -> {f \in DOMAIN r.sent \ {"status"} : r.sent[f] # Blank}
    [] OTHER -> {}

\* Fields of the record that a submit writes.
Written(r) ==
  CASE form = "editUser" -> {f \in DOMAIN r.sent : r.sent[f] # Blank}
    [] form = "editSelf" -> {f \in DOMAIN r.sent \ {"status"} : r.sent[f] # Blank}
    [] form = "editProfile" -> DOMAIN r.sent
    [] OTHER -> {}

Stored(r) == [f \in DOMAIN row |-> IF f \in Written(r) THEN r.sent[f] ELSE row[f]]

\* UpdateUser, UpdateSelf, UpdateProfile.  A record that is gone is found
\* missing by UpdateUser only.
Save(r) ==
  /\ r.button = "submit" /\ form \in Edits
  /\ form = "editProfile" => r.sent.name # Blank
  /\ form = "editUser" => row # None
  /\ row' = IF row = None THEN None ELSE Stored(r)
  /\ Becomes(r, "granted")
  /\ UNCHANGED <<secret, code>>

\* CreateUser, CreateProfile, Register, SendEmailVerification and
\* SendPasswordResetEmail, as the form sees them.
Grant(r) ==
  /\ r.button \in Guarded \/ (r.button = "submit" /\ form \notin Edits)
  /\ form = "addProfile" => r.sent.name # Blank
  /\ Becomes(r, "granted")
  /\ UNCHANGED <<row, secret, code>>

\* ResetPassword after the check: the password is written, the code deleted.
SetPassword(r) ==
  /\ r.button = "confirm"
  /\ secret' = r.id
  /\ code' = FALSE
  /\ requests' = (requests \ {r}) \cup {[r EXCEPT !.phase = "granted", !.secret = r.id]}
  /\ UNCHANGED row

\* GenerateToken.
SetToken(r) ==
  /\ r.button = "token"
  /\ secret' = r.id
  /\ requests' = (requests \ {r}) \cup {[r EXCEPT !.phase = "granted", !.secret = r.id]}
  /\ UNCHANGED <<row, code>>

\* Mutant: the user was read without the token and is written with none.
BindForgetful(r) ==
  /\ r.button \in {"bindEmail", "bindWeChat"}
  /\ secret' = 0
  /\ Becomes(r, "granted")
  /\ UNCHANGED <<row, code>>

\* EmailBind and WeChatBind write the user back, the token with it.
Bind(r) ==
  /\ r.button \in {"bindEmail", "bindWeChat"}
  /\ secret' = r.secret
  /\ Becomes(r, "granted")
  /\ UNCHANGED <<row, code>>

\* GetUser, GetSelf, GetProfile: the form blanks the password.
Read(r) ==
  /\ r.button = "load"
  /\ row # None
  /\ LET got == [f \in Fields(form) |-> IF f = "password" THEN Blank ELSE row[f]]
     IN  requests' = (requests \ {r}) \cup {[r EXCEPT !.phase = "granted", !.value = got]}
  /\ UNCHANGED <<row, secret, code>>

\* Any request may be refused, but the load of a record that is there.
Refuse(r) ==
  /\ r.button = "load" => row = None
  /\ Becomes(r, "refused")
  /\ UNCHANGED <<row, secret, code>>

\* The cookie of an answer to a guarded request says that the session passed.
Finish(r) ==
  /\ r.phase = "passed"
  /\ \/ Save(r) \/ Grant(r) \/ SetPassword(r) \/ SetToken(r) \/ Bind(r) \/ Read(r)
     \/ Refuse(r)
  /\ checked' = (checked \/ (r.button \in Guarded /\ status.turnstile_check))
  /\ foreign' = IF r.button = "load" THEN {} ELSE foreign
  /\ UNCHANGED <<status, page, spent, clicks, others, faults, touched, dirty, lone>>

\* Others change a field of the record, or delete it.
Others(f, text) ==
  /\ others < MaxOthers /\ others' = others + 1
  /\ row # None /\ f \in DOMAIN row
  /\ text \in Texts(f) \ {row[f]}
  /\ row' = [row EXCEPT ![f] = text]
  /\ foreign' = foreign \cup {f}
  /\ UNCHANGED <<status, page, spent, secret, code, checked, requests, clicks, faults,
                 touched, dirty, lone>>

Delete ==
  /\ others < MaxOthers /\ others' = others + 1
  /\ form \in Edits /\ row # None
  /\ row' = None
  /\ UNCHANGED <<status, page, spent, secret, code, checked, requests, clicks, faults,
                 history>>

-------------------------------------------------------------------------------
\* The form deals with an answer.

\* Mutant: no fields are left.
NoInputs == [f \in {} |-> Blank]

BlankInputs == [f \in DOMAIN inputs |-> Blank]

Stays == UNCHANGED <<form, inputs, modal, shown, touched, dirty>>

OnRegister ==
  /\ form' = "left"
  /\ inputs' = [f \in {} |-> Blank]
  /\ UNCHANGED <<modal, shown, touched, dirty>>

\* Of PasswordResetForm and of AddUser: what was typed meanwhile goes, too.
OnBlanked ==
  /\ inputs' = BlankInputs
  /\ UNCHANGED <<form, modal, shown, touched, dirty>>

\* Of PasswordResetConfirm and of generateToken.
OnSecret(r) ==
  /\ shown' = r.secret
  /\ UNCHANGED <<form, inputs, modal, touched, dirty>>

\* bindEmail and bindWeChat close their dialog.
OnBound(m) ==
  /\ modal' = IF modal = m THEN "none" ELSE modal
  /\ UNCHANGED <<form, inputs, shown, touched, dirty>>

\* loadUser and loadProfile.
OnLoaded(r) ==
  /\ inputs' = r.value
  /\ touched' = {} /\ dirty' = {}
  /\ UNCHANGED <<form, modal, shown>>

OnGranted(r) ==
  CASE r.button = "register"                       -> OnRegister
    [] r.button = "mail" \/ form = "addUser"       -> OnBlanked
    [] r.button \in {"confirm", "token"}           -> OnSecret(r)
    [] r.button = "bindEmail"                      -> OnBound("email")
    [] r.button = "bindWeChat"                     -> OnBound("wechat")
    [] r.button = "load"                           -> OnLoaded(r)
    [] OTHER                                       -> Stays

\* showError.
OnRefused(r) ==
  /\ dirty' = dirty \cup r.dirty
  /\ UNCHANGED <<form, inputs, modal, shown, touched>>

\* Mutant: a refusal leaves loading set.
StillLoading(r) == loading /\ (r.phase # "granted" \/ r.button \notin Spinning \cup {"load"})

\* setLoading(false), whatever the answer.
LoadingAfter(r) == loading /\ r.button \notin Spinning \cup {"load"}

Deal(r) ==
  /\ r.phase \in {"granted", "refused", "turnstile"}
  /\ requests' = requests \ {r}
  /\ IF form = "left" THEN Stays /\ UNCHANGED loading
     ELSE /\ IF r.phase = "granted" THEN OnGranted(r) ELSE OnRefused(r)
          /\ loading' = LoadingAfter(r)
  /\ UNCHANGED <<status, token, server, checked, clicks, others, faults, foreign, lone>>

\* A request or its answer is lost, or it is turned away by a limiter: the
\* interceptor shows the error, and the code after the request stops.
Fail(r) ==
  /\ r.phase # "passed"
  /\ faults < MaxFaults /\ faults' = faults + 1
  /\ requests' = requests \ {r}
  /\ dirty' = dirty \cup r.dirty
  /\ UNCHANGED <<status, page, server, checked, clicks, others, touched, foreign, lone>>

-------------------------------------------------------------------------------
\* A form has just been opened; one that edits a record asks for it.
Init ==
  /\ form \in Form
  /\ status \in [turnstile_check : BOOLEAN, email_verification : BOOLEAN]
  /\ form \notin {"register", "personal", "reset"} => ~status.turnstile_check
  /\ form # "register" => ~status.email_verification
  /\ modal = "none"
  /\ inputs \in [Fields(form) -> {Some, Blank}]
  /\ form # "confirm" => \A f \in DOMAIN inputs : inputs[f] = Blank
  /\ loading = (form \in Edits)
  /\ token = 0
  /\ spent = {}
  /\ checked = FALSE
  /\ row = IF form \in Edits THEN [f \in Columns(form) |-> Some] ELSE None
  /\ secret = 0
  /\ code \in BOOLEAN
  /\ code => form = "confirm"
  /\ shown = 0
  /\ clicks = 0 /\ others = 0 /\ faults = 0
  /\ touched = {} /\ dirty = {} /\ foreign = {}
  /\ lone = TRUE
  /\ requests = IF form \in Edits THEN {Request(0, "load")} ELSE {}

User ==
  \/ \E f \in AllFields, text \in Text \cup {Blank} : Type(f, text)
  \/ \E m \in {"none", "email", "wechat"} : Turn(m)
  \/ Register \/ SendVerificationCode \/ SendReset \/ ConfirmReset
  \/ GenerateToken \/ BindEmail \/ BindWeChat
  \/ SubmitUser \/ SubmitEdit \/ SubmitProfile

Server == \E r \in requests : Begin(r) \/ Finish(r)
Browser == \E r \in requests : Deal(r)

Next ==
  \/ User
  \/ Verify
  \/ Server
  \/ Browser
  \/ \E f \in AllFields, text \in Text : Others(f, text)
  \/ Delete
  \/ \E r \in requests : Fail(r)

\* Every request is answered unless it fails, and the tab gets to run.
Fairness == WF_vars(Server) /\ WF_vars(Browser)

Spec == Init /\ [][Next]_vars /\ Fairness

-------------------------------------------------------------------------------
\* Properties.

\* Saving a form changes no field that was not typed into, unless to undo what
\* others did to it since the form was loaded; and what a user may not change of
\* their own account stays as it is even then, as does the status of a profile.
OnlyEditsAreWritten ==
  [][others' = others /\ row' # row =>
       \A f \in DOMAIN row : row'[f] # row[f] =>
         f \in touched \/ (f \in foreign /\ (f = "status" => form = "editUser"))]_vars

\* A field that was not typed into since the last submit is in the record as the
\* form shows it, whatever was refused before: unless submits overlapped, others
\* wrote, something got lost, or it is a blank field of a user, which is not
\* written.
CleanFieldsAreSaved ==
  (form \in Edits /\ requests = {} /\ lone /\ faults = 0 /\ row # None) =>
    \A f \in DOMAIN inputs \ (dirty \cup foreign) :
      \/ inputs[f] = row[f]
      \/ form \in UserEdits /\ inputs[f] = Blank

\* The password or access token a form showed last is the valid one, unless
\* requests overlapped or an answer got lost.
ShownSecretWorks ==
  (shown # 0 /\ requests = {} /\ lone /\ faults = 0) => secret = shown

\* Who has passed Turnstile once need not again: a token that is used up is
\* refused only if another request was under way with it, or an answer was lost.
PassedOnceIsEnough ==
  \A r \in requests : r.phase = "turnstile" => r.twin \/ faults > 0

\* A form does not stay loading, unless a request fails.
SpinnersStop == loading ~> (~loading \/ faults > 0)
===============================================================================
