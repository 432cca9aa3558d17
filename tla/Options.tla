-------------------------------- MODULE Options --------------------------------
(***************************************************************************)
(* The options of the running process, their table, and the settings pages *)
(* that change them (model/option.go, controller/option.go,                *)
(* SystemSetting.js, OtherSetting.js).  The map and the variables of       *)
(* package common are set under one mutex and are one function here.       *)
(***************************************************************************)
EXTENDS Naturals

CONSTANTS
  Switch,   \* keys that are switched on and off
  Setting,  \* keys that hold a text
  Hidden,   \* settings that are never sent to a page: tokens and secrets
  Kept,     \* settings that are not sent when they are blank
  Other,    \* settings of the other pane
  Own,      \* settings with a button of their own
  Group,    \* the settings one button saves
  Rank,     \* [Key -> Nat]: the order in which it sends them
  Needs,    \* what has to be filled in before a switch is switched on
  Default,  \* [Switch \cup Setting -> value]: what a new installation runs with
  Text,     \* [Setting -> values, besides the empty one]
  Trim,     \* [Setting -> [values -> values]]: what is sent for a value
  Page,     \* settings pages that are open
  MaxEdits, \* bound: how often users edit a page
  None      \* no row; a value the page was not sent; no request under way

Key == Switch \cup Setting
Value(k) == IF k \in Switch THEN {"true", "false", ""} ELSE Text[k] \cup {""}
AnyValue == UNION {Value(k) : k \in Key}
Changes == [key : Key, value : AnyValue]

ASSUME KeyAssumption ==
  /\ Switch \cap Setting = {} /\ Other \subseteq Own /\ Own \subseteq Setting
  /\ Hidden \subseteq Kept /\ Kept \subseteq Setting
  /\ Group \subseteq Setting /\ Own \cap (Group \cup Hidden) = {}
  /\ Rank \in [Key -> Nat]
  /\ DOMAIN Needs \subseteq Switch /\ Needs \in [DOMAIN Needs -> Setting]
  /\ Default \in [Key -> AnyValue] /\ \A k \in Key : Default[k] \in Value(k)
  /\ \A s \in DOMAIN Needs : Default[s] # "true"
  /\ \A s \in Setting : Trim[s] \in [Value(s) -> Value(s)]
  /\ \A s \in Setting : \A v \in Value(s) : Trim[s][v] = "" <=> v = ""
ASSUME ValueAssumption ==
  None \notin AnyValue \cup Changes /\ \A s \in Setting : "" \notin Text[s]
ASSUME BoundAssumption == MaxEdits \in Nat

VARIABLES
  table,   \* table options
  options, \* OptionMap and the variables of package common
  pane,    \* which settings each page shows: the system's or the others
  inputs,  \* what each page shows and the user edits
  origin,  \* originInputs: what the page was sent when it was opened
  change,  \* what the request of each page changes
  queue,   \* the changes the page sends after it
  pc,      \* the statement the request of a page goes on with
  edits,   \* history: how often users have edited
  touched, \* history: the keys edited on a page since it was opened
  dirty,   \* history: the keys edited on a page that no submit has taken yet
  foreign, \* history: the keys saved by others, or when the process died, since
           \* a page was opened
  filled,  \* history: the keys that a value has been written for
  torn     \* history: has a write failed, or two writes of one key overlapped?

page == <<pane, inputs, origin, edits, touched, dirty>>
vars == <<table, options, page, change, queue, pc, foreign, filled, torn>>

\* What page p is sending and has still to send.
UnderWay(p) == queue[p] \cup ({change[p]} \ {None})

TypeOK ==
  /\ table \in [Key -> AnyValue \cup {None}] /\ options \in [Key -> AnyValue]
  /\ \A k \in Key : table[k] \in Value(k) \cup {None} /\ options[k] \in Value(k)
  /\ pane \in [Page -> {"system", "other"}]
  /\ inputs \in [Page -> [Key -> AnyValue \cup {None}]]
  /\ origin \in [Page -> [Key -> AnyValue \cup {None}]]
  /\ \A p \in Page, k \in Key :
       inputs[p][k] \in Value(k) \cup {None} /\ origin[p][k] \in Value(k) \cup {None}
  /\ change \in [Page -> Changes \cup {None}] /\ queue \in [Page -> SUBSET Changes]
  /\ \A p \in Page : \A c \in UnderWay(p) : c.value \in Value(c.key)
  /\ pc \in [Page -> {"closed", "idle", "check", "create", "save", "apply"}]
  /\ \A p \in Page : pc[p] \in {"closed", "idle"} <=> change[p] = None
  /\ \A p \in Page : change[p] = None => queue[p] = {}
  /\ edits \in 0..MaxEdits
  /\ touched \in [Page -> SUBSET Key]
  /\ dirty \in [Page -> SUBSET Key] /\ foreign \in [Page -> SUBSET Key]
  /\ filled \subseteq Key
  /\ torn \in BOOLEAN

\* InitOptionMap: the defaults, then the rows.
Loaded == [k \in Key |-> IF table[k] = None THEN Default[k] ELSE table[k]]

Init ==
  /\ table = [k \in Key |-> None]
  /\ options = Default
  /\ pane = [p \in Page |-> "system"]
  /\ inputs = [p \in Page |-> [k \in Key |-> None]]
  /\ origin = inputs
  /\ change = [p \in Page |-> None]
  /\ queue = [p \in Page |-> {}]
  /\ pc = [p \in Page |-> "closed"]
  /\ edits = 0
  /\ touched = [p \in Page |-> {}]
  /\ dirty = touched /\ foreign = touched
  /\ filled = {k \in Key : Default[k] # ""}
  /\ torn = FALSE

-------------------------------------------------------------------------------
\* A page.

\* What the panes show for editing.
SystemPane == Key \ Other
OtherPane == Other
Shown(p) == IF pane[p] = "system" THEN SystemPane ELSE OtherPane

\* GetOptions of the server, which leaves the hidden ones out.
GetOptions == [k \in Key |-> IF k \in Hidden THEN None ELSE options[k]]

\* A pane is opened with what its getOptions keeps.
Shows(p, w, sent) ==
  /\ pc[p] \in {"closed", "idle"}
  /\ pane' = [pane EXCEPT ![p] = w]
  /\ inputs' = [inputs EXCEPT ![p] = sent]
  /\ origin' = [origin EXCEPT ![p] = sent]
  /\ touched' = [touched EXCEPT ![p] = {}]
  /\ dirty' = [dirty EXCEPT ![p] = {}]
  /\ foreign' = [foreign EXCEPT ![p] = {}]
  /\ pc' = [pc EXCEPT ![p] = "idle"]
  /\ UNCHANGED <<table, options, edits, change, queue, filled, torn>>

\* getOptions of SystemSetting and of OtherSetting.
OpenSystem(p) == Shows(p, "system", GetOptions)
OpenOther(p) ==
  Shows(p, "other", [k \in Key |-> IF k \in OtherPane THEN GetOptions[k] ELSE None])

\* A user edits key k of page p.
Edit(p, k) ==
  /\ pc[p] = "idle"
  /\ k \in Shown(p)
  /\ edits < MaxEdits
  /\ edits' = edits + 1
  /\ touched' = [touched EXCEPT ![p] = @ \cup {k}]

\* handleInputChange of a text: nothing is sent yet.
Type(p, s, text) ==
  /\ Edit(p, s)
  /\ inputs' = [inputs EXCEPT ![p][s] = text]
  /\ dirty' = [dirty EXCEPT ![p] = @ \cup {s}]
  /\ UNCHANGED <<table, options, pane, origin, change, queue, pc, foreign, filled,
                 torn>>

\* One change after the other is sent.
Send(p, changes) ==
  \/ /\ changes = {}
     /\ change' = [change EXCEPT ![p] = None]
     /\ queue' = [queue EXCEPT ![p] = {}]
     /\ pc' = [pc EXCEPT ![p] = "idle"]
  \/ \E first \in changes :
       /\ \A c \in changes : Rank[first.key] <= Rank[c.key]
       /\ change' = [change EXCEPT ![p] = first]
       /\ queue' = [queue EXCEPT ![p] = changes \ {first}]
       /\ pc' = [pc EXCEPT ![p] = "check"]

\* handleInputChange of a switch: the opposite of what the page shows.
Toggle(p, s) ==
  /\ Edit(p, s)
  /\ Send(p, {[key |-> s,
               value |-> IF inputs[p][s] = "true" THEN "false" ELSE "true"]})
  /\ UNCHANGED <<table, options, pane, inputs, origin, dirty, foreign, filled, torn>>

\* Mutant: everything that the page shows is sent.
ChangedShown(p, s) == inputs[p][s] # None

\* submitSMTP and the like: what differs from what the page was sent.
Changed(p, s) ==
  /\ inputs[p][s] # origin[p][s]
  /\ s \in Kept => inputs[p][s] # ""

Change(p, s) == [key |-> s, value |-> Trim[s][inputs[p][s]]]

SubmitGroup(p) ==
  /\ pc[p] = "idle"
  /\ pane[p] = "system"
  /\ Send(p, {Change(p, s) : s \in {t \in Group : Changed(p, t)}})
  /\ dirty' = [dirty EXCEPT ![p] = @ \ Group]
  /\ UNCHANGED <<table, options, pane, inputs, origin, edits, touched, foreign, filled,
                 torn>>

\* submitServerAddress, submitNotice and the like: whatever the page shows.
SubmitOwn(p, s) ==
  /\ pc[p] = "idle"
  /\ s \in Shown(p)
  /\ Send(p, {Change(p, s)})
  /\ dirty' = [dirty EXCEPT ![p] = @ \ {s}]
  /\ UNCHANGED <<table, options, pane, inputs, origin, edits, touched, foreign, filled,
                 torn>>

-------------------------------------------------------------------------------
\* The request that a page has under way: UpdateOption.

Goes(p, place) == pc' = [pc EXCEPT ![p] = place]

\* Mutant: nothing has to be filled in.
CheckNothing(p) ==
  /\ pc[p] = "check"
  /\ Goes(p, "create")
  /\ UNCHANGED <<table, options, page, change, queue, foreign, filled, torn>>

\* The switches of controller/option.go.  A refusal is shown, and the page goes
\* on with its next change.
Check(p) ==
  /\ pc[p] = "check"
  /\ IF /\ change[p].key \in DOMAIN Needs /\ change[p].value = "true"
        /\ options[Needs[change[p].key]] = ""
     THEN Send(p, queue[p])
     ELSE Goes(p, "create") /\ UNCHANGED <<change, queue>>
  /\ UNCHANGED <<table, options, page, foreign, filled, torn>>

Writing(k) ==
  {p \in Page : pc[p] \in {"create", "save", "apply"} /\ change[p].key = k}

\* FirstOrCreate: a row that is missing is created without a value; its error is
\* dropped.
FirstOrCreate(p) ==
  LET k == change[p].key
  IN  /\ pc[p] = "create"
      /\ \/ table' = [table EXCEPT ![k] = IF @ = None THEN "" ELSE @]
         \/ UNCHANGED table
      /\ Goes(p, "save")
      /\ torn' = (torn \/ Writing(k) # {p})
      /\ UNCHANGED <<options, page, change, queue, foreign, filled>>

\* Mutant: a row that was there before is not saved.
SaveNew(p) ==
  LET k == change[p].key
  IN  /\ pc[p] = "save"
      /\ table' = [table EXCEPT ![k] = IF @ = "" THEN change[p].value ELSE @]
      /\ Goes(p, "apply")
      /\ torn' = (torn \/ Writing(k) # {p})
      /\ filled' = IF change[p].value = "" THEN filled ELSE filled \cup {k}
      /\ UNCHANGED <<options, page, change, queue, foreign>>

\* Save; its error is dropped.
Save(p) ==
  LET k == change[p].key
  IN  /\ pc[p] = "save"
      /\ \/ /\ table' = [table EXCEPT ![k] = change[p].value]
            /\ torn' = (torn \/ Writing(k) # {p})
         \/ UNCHANGED table /\ torn' = TRUE
      /\ filled' = IF change[p].value = "" THEN filled ELSE filled \cup {k}
      /\ Goes(p, "apply")
      /\ UNCHANGED <<options, page, change, queue, foreign>>

\* Mutant: a page goes on showing what was typed.
UpdateOptionMapOnly(p) ==
  LET k == change[p].key
  IN  /\ pc[p] = "apply"
      /\ options' = [options EXCEPT ![k] = change[p].value]
      /\ foreign' = [q \in Page |-> IF q = p THEN foreign[q]
                                    ELSE foreign[q] \cup {k}]
      /\ Send(p, queue[p])
      /\ UNCHANGED <<table, page, filled, torn>>

\* updateOptionMap; the page takes the value over and sends its next change.
UpdateOptionMap(p) ==
  LET k == change[p].key
  IN  /\ pc[p] = "apply"
      /\ options' = [options EXCEPT ![k] = change[p].value]
      /\ inputs' = [inputs EXCEPT ![p][k] = change[p].value]
      /\ foreign' = [q \in Page |-> IF q = p THEN foreign[q]
                                    ELSE foreign[q] \cup {k}]
      /\ Send(p, queue[p])
      /\ UNCHANGED <<table, pane, origin, edits, touched, dirty, filled, torn>>

-------------------------------------------------------------------------------
\* The process dies and starts again.  A page that waits for an answer stays in
\* its loading state until it is opened again.
Restart ==
  LET interrupted == {change[p].key : p \in {q \in Page : change[q] # None}}
  IN  /\ options' = Loaded
      /\ foreign' = [p \in Page |-> foreign[p] \cup interrupted]
      /\ change' = [p \in Page |-> None]
      /\ queue' = [p \in Page |-> {}]
      /\ pc' = [p \in Page |-> IF pc[p] = "idle" THEN "idle" ELSE "closed"]
      /\ UNCHANGED <<table, page, filled, torn>>

Next ==
  \/ \E p \in Page :
       \/ OpenSystem(p) \/ OpenOther(p)
       \/ \E s \in Setting : \E text \in Value(s) : Type(p, s, text)
       \/ \E s \in Switch : Toggle(p, s)
       \/ SubmitGroup(p)
       \/ \E s \in Own : SubmitOwn(p, s)
       \/ Check(p)
       \/ FirstOrCreate(p)
       \/ Save(p)
       \/ UpdateOptionMap(p)
  \/ Restart

Spec == Init /\ [][Next]_vars

-------------------------------------------------------------------------------
\* Properties.

\* While writes of one key come one after the other and none fails, what the
\* process runs with when it is quiet is what it would start with again.
RestartChangesNothing ==
  (\A p \in Page : pc[p] \in {"closed", "idle"}) /\ ~ torn => options = Loaded

\* A page changes only what its user edited, or what the button is for that was
\* pressed: it does not write back what others may have changed since it was
\* opened.
OnlyEditsAreSaved ==
  [][\A p \in Page :
       pc[p] = "save" /\ pc'[p] = "apply" => change[p].key \in touched[p] \cup Own]_vars

\* What a page shows, besides what was edited since the last submit or saved by
\* others, is what the process runs with.  Left out are hidden settings, and
\* those that show again what they showed at first: originInputs is set once,
\* and going back to it is not sent.
PagesTellTheTruth ==
  \A p \in Page :
    pc[p] = "idle" /\ ~ torn =>
      \A k \in Key \ (dirty[p] \cup foreign[p]) :
        \/ inputs[p][k] = options[k]
        \/ inputs[p][k] = None
        \/ k \in Setting \ Own /\ inputs[p][k] \in {origin[p][k], ""}

\* A switch is on only if what it needs was filled in at some time, even when
\* writes fail or the process restarts in between.
SwitchedOnOnceConfigured ==
  \A s \in DOMAIN Needs : options[s] = "true" => Needs[s] \in filled
===============================================================================
