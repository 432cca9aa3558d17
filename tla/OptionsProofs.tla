----------------------------- MODULE OptionsProofs -----------------------------
(***************************************************************************)
(* Proofs about Options for all switches, settings, panes and pages.       *)
(***************************************************************************)
EXTENDS Options, TLAPS

-------------------------------------------------------------------------------
\* Types.

LEMMA Keys ==
  /\ \A k \in Key : Value(k) \subseteq AnyValue /\ None \notin Value(k)
  /\ \A k \in Key : "" \in Value(k)
  /\ \A k \in Switch : k \in Key /\ k \notin Setting /\ "true" \in Value(k)
                       /\ "false" \in Value(k)
  /\ \A s \in Setting : s \in Key /\ s \notin Switch
  /\ \A s \in Setting : \A v \in Value(s) : Trim[s][v] \in Value(s)
  /\ \A k \in Key : k \in Switch \/ k \in Setting
<1>1. Switch \cap Setting = {} /\ None \notin AnyValue
  BY KeyAssumption, ValueAssumption
<1>2. \A k \in Key : Value(k) \subseteq AnyValue
  BY DEF AnyValue
<1>3. \A s \in Setting : \A v \in Value(s) : Trim[s][v] \in Value(s)
  <2>1. \A s \in Setting : Trim[s] \in [Value(s) -> Value(s)]
    BY KeyAssumption
  <2> QED
    BY <2>1
<1>4. \A k \in Key : "" \in Value(k)
  BY DEF Value
<1>5. \A k \in Switch : k \in Key /\ "true" \in Value(k) /\ "false" \in Value(k)
  BY DEF Value, Key
<1>6. \A s \in Setting : s \in Key
  BY DEF Key
<1>7. \A k \in Key : k \in Switch \/ k \in Setting
  BY DEF Key
<1> QED
  BY <1>1, <1>2, <1>3, <1>4, <1>5, <1>6, <1>7

\* A page that is open has a value for all that it shows and the server sends.
ShownInv ==
  \A p \in Page :
    /\ \A k \in Key : inputs[p][k] = None => origin[p][k] = None
    /\ pc[p] # "closed" => \A k \in Shown(p) \ Hidden : inputs[p][k] # None

\* The parts of TypeOK.
Stored ==
  /\ table \in [Key -> AnyValue \cup {None}] /\ options \in [Key -> AnyValue]
  /\ \A k \in Key : table[k] \in Value(k) \cup {None} /\ options[k] \in Value(k)
  /\ filled \subseteq Key

Panes ==
  /\ pane \in [Page -> {"system", "other"}]
  /\ inputs \in [Page -> [Key -> AnyValue \cup {None}]]
  /\ origin \in [Page -> [Key -> AnyValue \cup {None}]]
  /\ \A p \in Page, k \in Key :
       inputs[p][k] \in Value(k) \cup {None} /\ origin[p][k] \in Value(k) \cup {None}

Requests ==
  /\ change \in [Page -> Changes \cup {None}] /\ queue \in [Page -> SUBSET Changes]
  /\ \A p \in Page : \A c \in UnderWay(p) : c.value \in Value(c.key)
  /\ pc \in [Page -> {"closed", "idle", "check", "create", "save", "apply"}]
  /\ \A p \in Page : pc[p] \in {"closed", "idle"} <=> change[p] = None
  /\ \A p \in Page : change[p] = None => queue[p] = {}

Marks ==
  /\ touched \in [Page -> SUBSET Key]
  /\ dirty \in [Page -> SUBSET Key] /\ foreign \in [Page -> SUBSET Key]

Counted == edits \in 0..MaxEdits

LEMMA Parts ==
  TypeOK <=> Stored /\ Panes /\ Requests /\ Marks /\ Counted /\ torn \in BOOLEAN
BY DEF TypeOK, Stored, Panes, Requests, Marks, Counted

TypeInv == TypeOK /\ ShownInv

LEMMA PartsNext ==
  ASSUME Stored', Panes', Requests', Marks', Counted', torn' \in BOOLEAN, ShownInv'
  PROVE  TypeInv'
BY DEF TypeInv, TypeOK, Stored, Panes, Requests, Marks, Counted

LEMMA TypeInit == Init => TypeInv
<1> SUFFICES ASSUME Init PROVE TypeInv
  OBVIOUS
<1>1. Default \in [Key -> AnyValue] /\ \A k \in Key : Default[k] \in Value(k)
  BY KeyAssumption
<1>2. Stored
  BY <1>1 DEF Init, Stored
<1>3. Panes /\ ShownInv
  BY DEF Init, Panes, ShownInv
<1>4. Requests
  BY DEF Init, Requests, UnderWay
<1>5. Marks
  BY DEF Init, Marks
<1>6. Counted
  <2>1. edits = 0 /\ MaxEdits \in Nat
    BY BoundAssumption DEF Init
  <2> QED
    BY <2>1 DEF Counted
<1>7. torn \in BOOLEAN
  BY DEF Init
<1> QED
  BY <1>2, <1>3, <1>4, <1>5, <1>6, <1>7, Parts DEF TypeInv

\* What sending a set of changes does.
LEMMA Sent ==
  ASSUME Requests, NEW p \in Page, NEW changes \in SUBSET Changes, Send(p, changes),
         \A c \in changes : c.value \in Value(c.key)
  PROVE  /\ Requests'
         /\ UnderWay(p)' = changes
         /\ \A q \in Page \ {p} :
              /\ change'[q] = change[q] /\ queue'[q] = queue[q] /\ pc'[q] = pc[q]
              /\ UnderWay(q)' = UnderWay(q)
         /\ \/ pc'[p] = "idle" /\ change'[p] = None
            \/ pc'[p] = "check" /\ change'[p] # None /\ change'[p] \in changes
<1>1. None \notin Changes
  BY ValueAssumption
<1>2. \/ /\ changes = {}
         /\ change' = [change EXCEPT ![p] = None]
         /\ queue' = [queue EXCEPT ![p] = {}]
         /\ pc' = [pc EXCEPT ![p] = "idle"]
      \/ \E first \in changes :
           /\ change' = [change EXCEPT ![p] = first]
           /\ queue' = [queue EXCEPT ![p] = changes \ {first}]
           /\ pc' = [pc EXCEPT ![p] = "check"]
  BY DEF Send
<1>3. /\ change' \in [Page -> Changes \cup {None}]
      /\ queue' \in [Page -> SUBSET Changes]
      /\ pc' \in [Page -> {"closed", "idle", "check", "create", "save", "apply"}]
  BY <1>2 DEF Requests
<1>4. /\ UnderWay(p)' = changes
      /\ \/ pc'[p] = "idle" /\ change'[p] = None /\ queue'[p] = {}
         \/ pc'[p] = "check" /\ change'[p] # None /\ change'[p] \in changes
  BY <1>1, <1>2 DEF UnderWay, Requests
<1>5. \A q \in Page \ {p} :
        /\ change'[q] = change[q] /\ queue'[q] = queue[q] /\ pc'[q] = pc[q]
        /\ UnderWay(q)' = UnderWay(q)
  BY <1>2 DEF UnderWay, Requests
<1>6. \A q \in Page : \A c \in UnderWay(q)' : c.value \in Value(c.key)
  BY <1>4, <1>5 DEF Requests
<1>7. \A q \in Page : /\ pc'[q] \in {"closed", "idle"} <=> change'[q] = None
                      /\ change'[q] = None => queue'[q] = {}
  BY <1>4, <1>5 DEF Requests
<1>8. Requests'
  BY <1>3, <1>6, <1>7 DEF Requests
<1> QED
  BY <1>4, <1>5, <1>8

\* What the server answers to a page.
LEMMA ServerSends ==
  ASSUME Stored
  PROVE  /\ GetOptions \in [Key -> AnyValue \cup {None}]
         /\ \A k \in Key : GetOptions[k] \in {None, options[k]}
         /\ \A k \in Key \ Hidden : GetOptions[k] = options[k] /\ options[k] # None
<1>1. \A k \in Key : options[k] \in AnyValue /\ options[k] # None
  BY Keys DEF Stored
<1>2. \A k \in Key : GetOptions[k] = IF k \in Hidden THEN None ELSE options[k]
  BY DEF GetOptions
<1>3. GetOptions \in [Key -> AnyValue \cup {None}]
  BY <1>1 DEF GetOptions
<1> QED
  BY <1>1, <1>2, <1>3

\* A pane is opened with what the server sent, or nothing.
LEMMA Opened ==
  ASSUME Stored, NEW p \in Page, OpenSystem(p) \/ OpenOther(p)
  PROVE  \E w \in {"system", "other"}, sent \in [Key -> AnyValue \cup {None}] :
           /\ Shows(p, w, sent)
           /\ \A k \in Key : sent[k] \in {None, options[k]}
           /\ \A k \in (IF w = "system" THEN SystemPane ELSE OtherPane) \ Hidden :
                sent[k] # None
<1>1. CASE OpenSystem(p)
  <2>1. SystemPane \subseteq Key
    BY DEF SystemPane
  <2>2. \A k \in SystemPane \ Hidden : GetOptions[k] # None
    BY <2>1, ServerSends
  <2> QED
    BY <1>1, <2>2, ServerSends DEF OpenSystem
<1>2. CASE OpenOther(p)
  <2> DEFINE sent == [k \in Key |-> IF k \in OtherPane THEN GetOptions[k] ELSE None]
  <2>1. OtherPane \subseteq Key
    BY KeyAssumption DEF OtherPane, Key
  <2>2. sent \in [Key -> AnyValue \cup {None}]
    BY ServerSends
  <2>3. \A k \in Key : sent[k] \in {None, options[k]}
    BY ServerSends
  <2>4. \A k \in OtherPane \ Hidden : sent[k] # None
    BY <2>1, ServerSends
  <2>5. Shows(p, "other", sent)
    BY <1>2 DEF OpenOther
  <2> HIDE DEF sent
  <2> QED
    BY <2>2, <2>3, <2>4, <2>5
<1> QED
  BY <1>1, <1>2

LEMMA ShowsType ==
  ASSUME TypeInv, NEW p \in Page, OpenSystem(p) \/ OpenOther(p)
  PROVE  TypeInv'
<1>1. Stored /\ Panes /\ Requests /\ Marks /\ Counted /\ torn \in BOOLEAN /\ ShownInv
  BY Parts DEF TypeInv
<1>2. PICK w \in {"system", "other"}, sent \in [Key -> AnyValue \cup {None}] :
        /\ Shows(p, w, sent)
        /\ \A k \in Key : sent[k] \in {None, options[k]}
        /\ \A k \in (IF w = "system" THEN SystemPane ELSE OtherPane) \ Hidden :
             sent[k] # None
  BY <1>1, Opened
<1>3. /\ pane' = [pane EXCEPT ![p] = w]
      /\ inputs' = [inputs EXCEPT ![p] = sent]
      /\ origin' = [origin EXCEPT ![p] = sent]
      /\ touched' = [touched EXCEPT ![p] = {}]
      /\ dirty' = [dirty EXCEPT ![p] = {}]
      /\ foreign' = [foreign EXCEPT ![p] = {}]
      /\ pc' = [pc EXCEPT ![p] = "idle"] /\ pc[p] \in {"closed", "idle"}
      /\ UNCHANGED <<table, options, edits, change, queue, filled, torn>>
  BY <1>2 DEF Shows
<1>4. Panes'
  <2>1. \A k \in Key : sent[k] \in Value(k) \cup {None}
    BY <1>1, <1>2 DEF Stored
  <2> QED
    BY <1>1, <1>2, <1>3, <2>1 DEF Panes
<1>5. Requests' /\ Stored' /\ Marks' /\ Counted'
  BY <1>1, <1>3 DEF Requests, UnderWay, Stored, Marks, Counted
<1>6. ShownInv'
  <2>1. \A q \in Page : \A k \in Key : inputs'[q][k] = None => origin'[q][k] = None
    BY <1>1, <1>3 DEF Panes, ShownInv
  <2>2. \A k \in Shown(p)' \ Hidden : inputs'[p][k] # None
    BY <1>1, <1>2, <1>3 DEF Shown, Panes, SystemPane, OtherPane
  <2>3. \A q \in Page \ {p} :
          Shown(q)' = Shown(q) /\ pc'[q] = pc[q] /\ inputs'[q] = inputs[q]
    BY <1>1, <1>3 DEF Shown, Panes, Requests, SystemPane, OtherPane
  <2> QED
    BY <1>1, <2>1, <2>2, <2>3 DEF ShownInv
<1>7. torn' \in BOOLEAN
  BY <1>1, <1>3
<1> QED
  BY <1>4, <1>5, <1>6, <1>7, PartsNext

\* A user types or presses a button; the page may send changes.
LEMMA EditType ==
  ASSUME TypeInv, NEW p \in Page, NEW k \in Key, Edit(p, k)
  PROVE  /\ k \in Shown(p) /\ pc[p] = "idle" /\ Counted'
         /\ touched' = [touched EXCEPT ![p] = @ \cup {k}]
         /\ touched' \in [Page -> SUBSET Key]
<1>1. Counted /\ Marks /\ MaxEdits \in Nat
  BY Parts, BoundAssumption DEF TypeInv
<1>2. /\ k \in Shown(p) /\ pc[p] = "idle" /\ edits < MaxEdits /\ edits' = edits + 1
      /\ touched' = [touched EXCEPT ![p] = @ \cup {k}]
  BY DEF Edit
<1>3. Counted'
  BY <1>1, <1>2 DEF Counted
<1>4. touched' \in [Page -> SUBSET Key]
  BY <1>1, <1>2 DEF Marks
<1> QED
  BY <1>2, <1>3, <1>4

LEMMA TypeType ==
  ASSUME TypeInv, NEW p \in Page, NEW s \in Setting, NEW text \in Value(s),
         Type(p, s, text)
  PROVE  TypeInv'
<1>1. Stored /\ Panes /\ Requests /\ Marks /\ Counted /\ torn \in BOOLEAN /\ ShownInv
  BY Parts DEF TypeInv
<1>2. s \in Key /\ text \in AnyValue /\ text # None
  BY Keys
<1>3. /\ Edit(p, s)
      /\ inputs' = [inputs EXCEPT ![p][s] = text]
      /\ dirty' = [dirty EXCEPT ![p] = @ \cup {s}]
      /\ UNCHANGED <<table, options, pane, origin, change, queue, pc, foreign, filled,
                     torn>>
  BY DEF Type
<1>4. Counted' /\ touched' \in [Page -> SUBSET Key]
  BY <1>2, <1>3, EditType
<1>5. Marks'
  BY <1>1, <1>2, <1>3, <1>4 DEF Marks
<1>6. Panes' /\ ShownInv'
  <2>1. \A q \in Page, k \in Key :
          \/ inputs'[q][k] = inputs[q][k]
          \/ k = s /\ inputs'[q][k] = text
    BY <1>1, <1>2, <1>3 DEF Panes
  <2>2. inputs' \in [Page -> [Key -> AnyValue \cup {None}]]
    BY <1>1, <1>2, <1>3 DEF Panes
  <2>3. \A q \in Page : Shown(q)' = Shown(q) /\ Shown(q) \subseteq Key
    BY <1>3, KeyAssumption DEF Shown, SystemPane, OtherPane, Key
  <2>4. Panes'
    BY <1>1, <1>3, <2>1, <2>2 DEF Panes
  <2>5. ShownInv'
    BY <1>1, <1>2, <1>3, <2>1, <2>3 DEF ShownInv
  <2> QED
    BY <2>4, <2>5
<1>7. Requests' /\ Stored' /\ torn' \in BOOLEAN
  BY <1>1, <1>3 DEF Requests, UnderWay, Stored
<1> QED
  BY <1>4, <1>5, <1>6, <1>7, PartsNext

\* What a page sends when a button is pressed, and that it is well typed.
LEMMA ChangeType ==
  ASSUME TypeInv, NEW p \in Page, NEW s \in Setting,
         \/ Changed(p, s)
         \/ s \in Own /\ s \in Shown(p) /\ pc[p] = "idle"
  PROVE  Change(p, s) \in Changes /\ Change(p, s).key = s
           /\ Change(p, s).value \in Value(s)
<1>1. Panes /\ ShownInv /\ s \in Key
  BY Parts, Keys DEF TypeInv
<1>2. inputs[p][s] # None
  <2>1. CASE Changed(p, s)
    BY <1>1, <2>1 DEF Changed, ShownInv
  <2>2. CASE s \in Own /\ s \in Shown(p) /\ pc[p] = "idle"
    BY <1>1, <2>2, KeyAssumption DEF ShownInv
  <2> QED
    BY <2>1, <2>2
<1>3. inputs[p][s] \in Value(s)
  BY <1>1, <1>2 DEF Panes
<1>4. Trim[s][inputs[p][s]] \in Value(s) /\ Trim[s][inputs[p][s]] \in AnyValue
  BY <1>1, <1>3, Keys
<1> QED
  BY <1>1, <1>4 DEF Change, Changes

\* The changes a page starts to send.
Sends(p, changes) ==
  \/ \E s \in Switch :
       /\ Toggle(p, s)
       /\ changes = {[key |-> s,
                      value |-> IF inputs[p][s] = "true" THEN "false" ELSE "true"]}
  \/ /\ SubmitGroup(p)
     /\ changes = {Change(p, s) : s \in {t \in Group : Changed(p, t)}}
  \/ \E s \in Own : SubmitOwn(p, s) /\ changes = {Change(p, s)}

LEMMA SendsIs ==
  ASSUME TypeInv, NEW p \in Page, NEW changes, Sends(p, changes)
  PROVE  /\ Send(p, changes) /\ pc[p] = "idle"
         /\ UNCHANGED <<table, options, pane, inputs, origin, foreign, filled, torn>>
         /\ changes \in SUBSET Changes
         /\ \A c \in changes : c.value \in Value(c.key)
         /\ Counted' /\ touched' \in [Page -> SUBSET Key]
         /\ dirty' \in [Page -> SUBSET Key]
<1>1. Counted /\ Marks
  BY Parts DEF TypeInv
<1>2. ASSUME NEW s \in Switch, Toggle(p, s),
             changes = {[key |-> s,
                         value |-> IF inputs[p][s] = "true" THEN "false" ELSE "true"]}
      PROVE  /\ Send(p, changes) /\ pc[p] = "idle"
             /\ UNCHANGED <<table, options, pane, inputs, origin, foreign, filled, torn>>
             /\ changes \in SUBSET Changes
             /\ \A c \in changes : c.value \in Value(c.key)
             /\ Counted' /\ touched' \in [Page -> SUBSET Key]
             /\ dirty' \in [Page -> SUBSET Key]
  <2>1. s \in Key /\ "true" \in Value(s) /\ "false" \in Value(s) /\ Value(s) \subseteq AnyValue
    BY Keys
  <2>2. changes \in SUBSET Changes /\ \A c \in changes : c.value \in Value(c.key)
    BY <1>2, <2>1 DEF Changes
  <2>3. Edit(p, s) /\ Send(p, changes)
          /\ UNCHANGED <<table, options, pane, inputs, origin, dirty, foreign, filled, torn>>
    BY <1>2 DEF Toggle
  <2> QED
    BY <1>1, <2>1, <2>2, <2>3, EditType DEF Marks
<1>3. ASSUME SubmitGroup(p), changes = {Change(p, s) : s \in {t \in Group : Changed(p, t)}}
      PROVE  /\ Send(p, changes) /\ pc[p] = "idle"
             /\ UNCHANGED <<table, options, pane, inputs, origin, foreign, filled, torn>>
             /\ changes \in SUBSET Changes
             /\ \A c \in changes : c.value \in Value(c.key)
             /\ Counted' /\ touched' \in [Page -> SUBSET Key]
             /\ dirty' \in [Page -> SUBSET Key]
  <2>1. Group \subseteq Setting
    BY KeyAssumption
  <2>2. changes \in SUBSET Changes /\ \A c \in changes : c.value \in Value(c.key)
    BY <1>3, <2>1, ChangeType
  <2>3. /\ Send(p, changes) /\ pc[p] = "idle"
        /\ dirty' = [dirty EXCEPT ![p] = @ \ Group]
        /\ UNCHANGED <<table, options, pane, inputs, origin, edits, touched, foreign,
                       filled, torn>>
    BY <1>3 DEF SubmitGroup
  <2> QED
    BY <1>1, <2>2, <2>3 DEF Marks, Counted
<1>4. ASSUME NEW s \in Own, SubmitOwn(p, s), changes = {Change(p, s)}
      PROVE  /\ Send(p, changes) /\ pc[p] = "idle"
             /\ UNCHANGED <<table, options, pane, inputs, origin, foreign, filled, torn>>
             /\ changes \in SUBSET Changes
             /\ \A c \in changes : c.value \in Value(c.key)
             /\ Counted' /\ touched' \in [Page -> SUBSET Key]
             /\ dirty' \in [Page -> SUBSET Key]
  <2>1. s \in Setting
    BY KeyAssumption
  <2>2. /\ Send(p, changes) /\ pc[p] = "idle" /\ s \in Shown(p)
        /\ dirty' = [dirty EXCEPT ![p] = @ \ {s}]
        /\ UNCHANGED <<table, options, pane, inputs, origin, edits, touched, foreign,
                       filled, torn>>
    BY <1>4 DEF SubmitOwn
  <2>3. changes \in SUBSET Changes /\ \A c \in changes : c.value \in Value(c.key)
    BY <1>4, <2>1, <2>2, ChangeType
  <2> QED
    BY <1>1, <2>2, <2>3 DEF Marks, Counted
<1> QED
  BY <1>2, <1>3, <1>4 DEF Sends

LEMMA SendsType ==
  ASSUME TypeInv, NEW p \in Page, NEW changes, Sends(p, changes)
  PROVE  TypeInv'
<1>1. Stored /\ Panes /\ Requests /\ Marks /\ Counted /\ torn \in BOOLEAN /\ ShownInv
  BY Parts DEF TypeInv
<1>2. /\ Send(p, changes) /\ pc[p] = "idle"
      /\ UNCHANGED <<table, options, pane, inputs, origin, foreign, filled, torn>>
      /\ changes \in SUBSET Changes
      /\ \A c \in changes : c.value \in Value(c.key)
      /\ Counted' /\ touched' \in [Page -> SUBSET Key]
      /\ dirty' \in [Page -> SUBSET Key]
  BY SendsIs
<1>3. Requests'
  BY <1>1, <1>2, Sent
<1>4. \A q \in Page : Shown(q)' = Shown(q) /\ (pc'[q] # "closed" => pc[q] # "closed")
  BY <1>1, <1>2, Sent DEF Shown, SystemPane, OtherPane
<1>5. ShownInv'
  BY <1>1, <1>2, <1>4 DEF ShownInv
<1>6. Stored' /\ Panes' /\ Marks' /\ torn' \in BOOLEAN
  BY <1>1, <1>2 DEF Stored, Panes, Marks
<1> QED
  BY <1>2, <1>3, <1>5, <1>6, PartsNext

\* A page that has a request under way has a well-typed change.
LEMMA ChangeUnderWay ==
  ASSUME TypeInv, NEW p \in Page, pc[p] \in {"check", "create", "save", "apply"}
  PROVE  /\ change[p] \in Changes /\ change[p].key \in Key
         /\ change[p].value \in Value(change[p].key) /\ change[p].value \in AnyValue
         /\ change[p].value # None /\ change[p] \in UnderWay(p)
<1>1. Requests
  BY Parts DEF TypeInv
<1>2. change[p] \in Changes /\ change[p] \in UnderWay(p)
  BY <1>1 DEF Requests, UnderWay
<1>3. change[p].key \in Key /\ change[p].value \in Value(change[p].key)
  BY <1>1, <1>2 DEF Requests, Changes
<1> QED
  BY <1>2, <1>3, Keys

\* A step of the server that leaves the pages as they are.
LEMMA ServerType ==
  ASSUME TypeInv, NEW p \in Page, Check(p) \/ FirstOrCreate(p) \/ Save(p)
  PROVE  TypeInv'
<1>1. Stored /\ Panes /\ Requests /\ Marks /\ Counted /\ torn \in BOOLEAN /\ ShownInv
  BY Parts DEF TypeInv
<1> DEFINE k == change[p].key
<1>2. /\ k \in Key /\ change[p].value \in Value(k) /\ change[p].value \in AnyValue
      /\ "" \in Value(k) /\ "" \in AnyValue
      /\ pc[p] \in {"check", "create", "save"}
  BY ChangeUnderWay, Keys DEF Check, FirstOrCreate, Save
<1>3. UNCHANGED page /\ UNCHANGED foreign
  BY DEF Check, FirstOrCreate, Save
<1>4. Panes' /\ Marks' /\ Counted'
  BY <1>1, <1>3 DEF page, Panes, Marks, Counted
<1>5. /\ Requests'
      /\ \A q \in Page : pc'[q] # "closed" => pc[q] # "closed"
  <2>1. CASE Send(p, queue[p])
    <3>1. queue[p] \in SUBSET Changes /\ \A c \in queue[p] : c.value \in Value(c.key)
      BY <1>1 DEF Requests, UnderWay
    <3> QED
      BY <1>1, <1>2, <2>1, <3>1, Sent
  <2>2. CASE /\ \E place \in {"create", "save", "apply"} : Goes(p, place)
             /\ UNCHANGED <<change, queue>>
    BY <1>1, <1>2, <2>2 DEF Requests, UnderWay, Goes
  <2> QED
    BY <2>1, <2>2 DEF Check, FirstOrCreate, Save
<1>6. ShownInv'
  <2>1. \A q \in Page : Shown(q)' = Shown(q)
    BY <1>3 DEF page, Shown, SystemPane, OtherPane
  <2> QED
    BY <1>1, <1>3, <1>5, <2>1 DEF page, ShownInv
<1>7. Stored'
  <2>1. UNCHANGED options
    BY DEF Check, FirstOrCreate, Save
  <2>2. \/ UNCHANGED table
        \/ table' = [table EXCEPT ![k] = ""]
        \/ table' = [table EXCEPT ![k] = change[p].value]
    <3>1. CASE FirstOrCreate(p)
      <4>1. \/ UNCHANGED table
            \/ table' = [table EXCEPT ![k] = IF table[k] = None THEN "" ELSE table[k]]
        BY <3>1 DEF FirstOrCreate
      <4>2. table = [table EXCEPT ![k] = table[k]]
        BY <1>1, <1>2 DEF Stored
      <4> QED
        BY <4>1, <4>2
    <3> QED
      BY <3>1 DEF Check, Save
  <2>3. filled' = filled \/ filled' = filled \cup {k}
    BY DEF Check, FirstOrCreate, Save
  <2> HIDE DEF k
  <2>4. filled' \subseteq Key
    BY <1>1, <1>2, <2>3 DEF Stored
  <2>5. table' \in [Key -> AnyValue \cup {None}]
    BY <1>1, <1>2, <2>2 DEF Stored
  <2>6. \A j \in Key : table'[j] \in Value(j) \cup {None}
    BY <1>1, <1>2, <2>2 DEF Stored
  <2> QED
    BY <1>1, <2>1, <2>4, <2>5, <2>6 DEF Stored
<1>8. torn' \in BOOLEAN
  BY <1>1 DEF Check, FirstOrCreate, Save
<1> QED
  BY <1>4, <1>5, <1>6, <1>7, <1>8, PartsNext

LEMMA UpdateType ==
  ASSUME TypeInv, NEW p \in Page, UpdateOptionMap(p)
  PROVE  TypeInv'
<1>1. Stored /\ Panes /\ Requests /\ Marks /\ Counted /\ torn \in BOOLEAN /\ ShownInv
  BY Parts DEF TypeInv
<1> DEFINE k == change[p].key
           v == change[p].value
<1>2. k \in Key /\ v \in Value(k) /\ v \in AnyValue /\ v # None /\ pc[p] = "apply"
  BY ChangeUnderWay DEF UpdateOptionMap
<1>3. /\ options' = [options EXCEPT ![k] = v]
      /\ inputs' = [inputs EXCEPT ![p][k] = v]
      /\ foreign' = [q \in Page |-> IF q = p THEN foreign[q] ELSE foreign[q] \cup {k}]
      /\ Send(p, queue[p])
      /\ UNCHANGED <<table, pane, origin, edits, touched, dirty, filled, torn>>
  BY DEF UpdateOptionMap
<1> HIDE DEF k, v
<1>4. Stored' /\ Counted' /\ torn' \in BOOLEAN
  BY <1>1, <1>2, <1>3 DEF Stored, Counted
<1>5. Marks'
  BY <1>1, <1>2, <1>3 DEF Marks
<1>6. Requests' /\ \A q \in Page : pc'[q] # "closed" => pc[q] # "closed"
  <2>1. queue[p] \in SUBSET Changes /\ \A c \in queue[p] : c.value \in Value(c.key)
    BY <1>1 DEF Requests, UnderWay
  <2> QED
    BY <1>1, <1>2, <1>3, <2>1, Sent
<1>7. Panes' /\ ShownInv'
  <2>1. \A q \in Page, j \in Key :
          \/ inputs'[q][j] = inputs[q][j]
          \/ j = k /\ inputs'[q][j] = v
    BY <1>1, <1>2, <1>3 DEF Panes
  <2>2. inputs' \in [Page -> [Key -> AnyValue \cup {None}]]
    BY <1>1, <1>2, <1>3 DEF Panes
  <2>3. \A q \in Page : Shown(q)' = Shown(q) /\ Shown(q) \subseteq Key
    BY <1>3, KeyAssumption DEF Shown, SystemPane, OtherPane, Key
  <2>4. Panes'
    BY <1>1, <1>2, <1>3, <2>1, <2>2 DEF Panes
  <2>5. ShownInv'
    BY <1>1, <1>2, <1>3, <1>6, <2>1, <2>3 DEF ShownInv
  <2> QED
    BY <2>4, <2>5
<1> QED
  BY <1>4, <1>5, <1>6, <1>7, PartsNext

LEMMA RestartType ==
  ASSUME TypeInv, Restart
  PROVE  TypeInv'
<1>1. Stored /\ Panes /\ Requests /\ Marks /\ Counted /\ torn \in BOOLEAN /\ ShownInv
  BY Parts DEF TypeInv
<1> DEFINE interrupted == {change[p].key : p \in {q \in Page : change[q] # None}}
<1>2. /\ options' = Loaded
      /\ foreign' = [p \in Page |-> foreign[p] \cup interrupted]
      /\ change' = [p \in Page |-> None]
      /\ queue' = [p \in Page |-> {}]
      /\ pc' = [p \in Page |-> IF pc[p] = "idle" THEN "idle" ELSE "closed"]
      /\ UNCHANGED <<table, page, filled, torn>>
  BY DEF Restart
<1>3. interrupted \subseteq Key
  BY <1>1 DEF Requests, Changes
<1> HIDE DEF interrupted
<1>4. Stored'
  <2>1. /\ Default \in [Key -> AnyValue] /\ \A k \in Key : Default[k] \in Value(k)
    BY KeyAssumption
  <2>2. \A k \in Key : Loaded[k] \in Value(k) /\ Loaded[k] \in AnyValue
    BY <1>1, <2>1, Keys DEF Loaded, Stored
  <2>3. Loaded \in [Key -> AnyValue]
    BY <2>2 DEF Loaded
  <2> QED
    BY <1>1, <1>2, <2>2, <2>3 DEF Stored
<1>5. Marks'
  BY <1>1, <1>2, <1>3 DEF Marks, page
<1>6. Requests'
  BY <1>1, <1>2 DEF Requests, UnderWay
<1>7. Panes' /\ ShownInv' /\ Counted' /\ torn' \in BOOLEAN
  BY <1>1, <1>2 DEF Panes, ShownInv, Counted, page, Shown, SystemPane, OtherPane
<1> QED
  BY <1>4, <1>5, <1>6, <1>7, PartsNext

\* The steps, as the proofs tell them apart.
LEMMA Steps ==
  ASSUME Next
  PROVE  \/ \E p \in Page :
              \/ OpenSystem(p) \/ OpenOther(p)
              \/ \E s \in Setting : \E text \in Value(s) : Type(p, s, text)
              \/ \E changes : Sends(p, changes)
              \/ Check(p) \/ FirstOrCreate(p) \/ Save(p) \/ UpdateOptionMap(p)
         \/ Restart
<1>1. ASSUME NEW p \in Page,
             \/ \E s \in Switch : Toggle(p, s)
             \/ SubmitGroup(p)
             \/ \E s \in Own : SubmitOwn(p, s)
      PROVE  \E changes : Sends(p, changes)
  BY <1>1 DEF Sends
<1> QED
  BY <1>1 DEF Next

LEMMA TypeStep == TypeInv /\ [Next]_vars => TypeInv'
<1> SUFFICES ASSUME TypeInv, [Next]_vars PROVE TypeInv'
  OBVIOUS
<1>1. CASE Next
  BY <1>1, Steps, ShowsType, TypeType, SendsType, ServerType, UpdateType, RestartType
<1>2. CASE UNCHANGED vars
  BY <1>2 DEF vars, page, TypeInv, TypeOK, ShownInv, UnderWay, Shown, SystemPane,
              OtherPane
<1> QED
  BY <1>1, <1>2

\* The variables keep their types.
THEOREM TypeCorrect == Spec => []TypeOK
<1>1. TypeInv => TypeOK
  BY DEF TypeInv
<1> QED
  BY <1>1, TypeInit, TypeStep, PTL DEF Spec

-------------------------------------------------------------------------------
\* Nothing is on that was never configured.

\* What is stored or runs was written, and a switch, stored or about to be, was
\* checked first.
OnInv ==
  /\ TypeInv
  /\ \A k \in Key : options[k] # "" \/ table[k] \notin {None, ""} => k \in filled
  /\ \A s \in DOMAIN Needs :
       options[s] = "true" \/ table[s] = "true" => Needs[s] \in filled
  /\ \A p \in Page :
       /\ /\ pc[p] \in {"create", "save", "apply"} /\ change[p].key \in DOMAIN Needs
          /\ change[p].value = "true"
         => Needs[change[p].key] \in filled
       /\ pc[p] = "apply" /\ change[p].value # "" => change[p].key \in filled
  /\ {k \in Key : Default[k] # ""} \subseteq filled

LEMMA NeedsAre ==
  \A s \in DOMAIN Needs :
    s \in Key /\ Needs[s] \in Key /\ Default[s] # "true" /\ None # "true"
<1>1. \A s \in DOMAIN Needs :
        s \in Switch /\ s \in Key /\ Needs[s] \in Key /\ Default[s] # "true"
  BY KeyAssumption DEF Key
<1>2. \A s \in Switch : "true" # None
  BY Keys
<1> QED
  BY <1>1, <1>2

LEMMA OnInit == Init => OnInv
<1> SUFFICES ASSUME Init PROVE OnInv
  OBVIOUS
<1>1. TypeInv
  BY TypeInit
<1>2. /\ options = Default /\ \A k \in Key : table[k] = None
      /\ \A p \in Page : pc[p] = "closed"
      /\ filled = {k \in Key : Default[k] # ""}
  BY DEF Init
<1> QED
  BY <1>1, <1>2, NeedsAre DEF OnInv

\* A step in which only requests move on, and none past the check.
LEMMA OnQuietly ==
  ASSUME OnInv, TypeInv', UNCHANGED <<table, options, filled>>,
         \A p \in Page :
           pc'[p] \in {"create", "save", "apply"} => pc'[p] = pc[p] /\ change'[p] = change[p]
  PROVE  OnInv'
BY DEF OnInv

LEMMA OnStep == OnInv /\ [Next]_vars => OnInv'
<1> SUFFICES ASSUME OnInv, [Next]_vars PROVE OnInv'
  OBVIOUS
<1>1. TypeInv /\ TypeInv'
  BY TypeStep DEF OnInv
<1>2. Stored /\ Requests
  BY <1>1, Parts DEF TypeInv
<1>3. ASSUME NEW p \in Page, OpenSystem(p) \/ OpenOther(p) PROVE OnInv'
  <2>1. /\ pc' = [pc EXCEPT ![p] = "idle"]
        /\ UNCHANGED <<table, options, change, filled>>
    BY <1>3 DEF OpenSystem, OpenOther, Shows
  <2> QED
    BY <1>1, <1>2, <2>1, OnQuietly DEF Requests
<1>4. ASSUME NEW p \in Page, NEW s \in Setting, NEW text \in Value(s), Type(p, s, text)
      PROVE  OnInv'
  BY <1>1, <1>4, OnQuietly DEF Type
<1>5. ASSUME NEW p \in Page, NEW changes, Sends(p, changes) PROVE OnInv'
  <2>1. /\ Send(p, changes) /\ UNCHANGED <<table, options, filled>>
        /\ changes \in SUBSET Changes /\ \A c \in changes : c.value \in Value(c.key)
    BY <1>1, <1>5, SendsIs
  <2> QED
    BY <1>1, <1>2, <2>1, Sent, OnQuietly
<1>6. ASSUME NEW p \in Page, Check(p) PROVE OnInv'
  <2> DEFINE k == change[p].key
  <2>1. pc[p] = "check" /\ UNCHANGED <<table, options, filled>>
    BY <1>6 DEF Check
  <2>2. CASE Send(p, queue[p])
    <3>1. queue[p] \in SUBSET Changes /\ \A c \in queue[p] : c.value \in Value(c.key)
      BY <1>2 DEF Requests, UnderWay
    <3> QED
      BY <1>1, <1>2, <2>1, <2>2, <3>1, Sent, OnQuietly
  <2>3. CASE /\ ~ (k \in DOMAIN Needs /\ change[p].value = "true" /\ options[Needs[k]] = "")
             /\ Goes(p, "create") /\ UNCHANGED <<change, queue>>
    <3>1. k \in DOMAIN Needs /\ change[p].value = "true" => Needs[k] \in filled
      BY <2>3, NeedsAre DEF OnInv
    <3>2. \A q \in Page :
            pc'[q] \in {"create", "save", "apply"} =>
              \/ pc'[q] = pc[q]
              \/ q = p /\ pc'[q] = "create"
      BY <1>2, <2>3 DEF Goes, Requests
    <3> QED
      BY <1>1, <2>1, <2>3, <3>1, <3>2 DEF OnInv
  <2> QED
    BY <1>6, <2>2, <2>3 DEF Check
<1>7. ASSUME NEW p \in Page, FirstOrCreate(p) \/ Save(p) PROVE OnInv'
  <2> DEFINE k == change[p].key
             v == change[p].value
  <2>1. k \in Key /\ v # None /\ pc[p] \in {"create", "save"}
    BY <1>1, <1>7, ChangeUnderWay DEF FirstOrCreate, Save
  <2>2. /\ UNCHANGED <<options, change>>
        /\ \E place \in {"save", "apply"} :
             Goes(p, place) /\ (place = "apply" /\ v # "" => k \in filled')
        /\ filled \subseteq filled'
        /\ k \in DOMAIN Needs /\ v = "true" => Needs[k] \in filled
    BY <1>7 DEF FirstOrCreate, Save, OnInv
  <2>3. \A j \in Key :
          \/ table'[j] = table[j]
          \/ table'[j] = ""
          \/ j = k /\ table'[j] = v /\ (v # "" => k \in filled')
    BY <1>2, <1>7 DEF FirstOrCreate, Save, Stored
  <2> HIDE DEF k, v
  <2>4. \A j \in Key :
          options'[j] # "" \/ table'[j] \notin {None, ""} => j \in filled'
    BY <2>1, <2>2, <2>3 DEF OnInv
  <2>5. \A s \in DOMAIN Needs :
          options'[s] = "true" \/ table'[s] = "true" => Needs[s] \in filled'
    BY <2>1, <2>2, <2>3, NeedsAre DEF OnInv
  <2>6. \A q \in Page :
          /\ /\ pc'[q] \in {"create", "save", "apply"} /\ change'[q].key \in DOMAIN Needs
             /\ change'[q].value = "true"
            => Needs[change'[q].key] \in filled'
          /\ pc'[q] = "apply" /\ change'[q].value # "" => change'[q].key \in filled'
    BY <1>2, <2>1, <2>2 DEF OnInv, Goes, Requests, k, v
  <2> QED
    BY <1>1, <2>2, <2>4, <2>5, <2>6 DEF OnInv
<1>8. ASSUME NEW p \in Page, UpdateOptionMap(p) PROVE OnInv'
  <2> DEFINE k == change[p].key
             v == change[p].value
  <2>1. /\ k \in Key /\ pc[p] = "apply"
        /\ v # "" => k \in filled
        /\ k \in DOMAIN Needs /\ v = "true" => Needs[k] \in filled
    BY <1>1, <1>8, ChangeUnderWay DEF UpdateOptionMap, OnInv
  <2>2. /\ options' = [options EXCEPT ![k] = v]
        /\ UNCHANGED <<table, filled>>
        /\ Send(p, queue[p])
    BY <1>8 DEF UpdateOptionMap
  <2>3. queue[p] \in SUBSET Changes /\ \A c \in queue[p] : c.value \in Value(c.key)
    BY <1>2 DEF Requests, UnderWay
  <2>4. \A q \in Page :
          pc'[q] \in {"create", "save", "apply"} => pc'[q] = pc[q] /\ change'[q] = change[q]
    BY <1>2, <2>2, <2>3, Sent
  <2> HIDE DEF k, v
  <2>5. \A j \in Key : options'[j] = options[j] \/ (j = k /\ options'[j] = v)
    BY <1>2, <2>1, <2>2 DEF Stored
  <2> QED
    BY <1>1, <2>1, <2>2, <2>4, <2>5, NeedsAre DEF OnInv
<1>9. ASSUME Restart PROVE OnInv'
  <2>1. /\ \A k \in Key : options'[k] = IF table[k] = None THEN Default[k] ELSE table[k]
        /\ UNCHANGED <<table, filled>>
        /\ \A p \in Page : pc'[p] \in {"idle", "closed"}
    BY <1>9 DEF Restart, Loaded
  <2> QED
    BY <1>1, <2>1, NeedsAre DEF OnInv
<1>10. CASE UNCHANGED vars
  BY <1>1, <1>10, OnQuietly DEF vars
<1> QED
  BY <1>3, <1>4, <1>5, <1>6, <1>7, <1>8, <1>9, <1>10, Steps

\* A switch is on only if what it needs was filled in at some time, even when writes
\* fail or the process restarts in between (UpdateOption, InitOptionMap).
THEOREM OnOnlyOnceConfigured == Spec => []SwitchedOnOnceConfigured
<1>1. OnInv => SwitchedOnOnceConfigured
  BY DEF OnInv, SwitchedOnOnceConfigured
<1> QED
  BY <1>1, OnInit, OnStep, PTL DEF Spec

-------------------------------------------------------------------------------
\* A restart changes nothing.

\* While nothing is torn, at most one request has begun to write a key, a saved row
\* keeps its value until it is applied, and a key that none has begun to write runs
\* as it would be loaded.
OneWriter ==
  \A p, q \in Page :
    pc[p] \in {"save", "apply"} /\ pc[q] \in {"save", "apply"} =>
      (change[p].key = change[q].key => p = q)

Saved == \A p \in Page : pc[p] = "apply" => table[change[p].key] = change[p].value

AsLoaded ==
  \A k \in Key :
    (\A p \in Page : pc[p] \in {"save", "apply"} => change[p].key # k)
      => options[k] = Loaded[k]

LoadInv == TypeInv /\ (~ torn => OneWriter /\ Saved /\ AsLoaded)

LEMMA LoadedIs == \A k \in Key : Loaded[k] = IF table[k] = None THEN Default[k] ELSE table[k]
BY DEF Loaded

LEMMA LoadInit == Init => LoadInv
<1> SUFFICES ASSUME Init PROVE LoadInv
  OBVIOUS
<1>1. options = Default /\ \A k \in Key : table[k] = None
  BY DEF Init
<1>2. \A p \in Page : pc[p] = "closed"
  BY DEF Init
<1>3. AsLoaded
  BY <1>1, LoadedIs DEF AsLoaded
<1>4. OneWriter /\ Saved
  BY <1>2 DEF OneWriter, Saved
<1> QED
  BY <1>3, <1>4, TypeInit DEF LoadInv

\* A step in which requests move on before they write.
LEMMA LoadQuietly ==
  ASSUME LoadInv, TypeInv', UNCHANGED <<table, options>>, torn' \/ torn' = torn,
         \A p \in Page :
           \/ pc'[p] = pc[p] /\ change'[p] = change[p]
           \/ pc[p] \notin {"save", "apply"} /\ pc'[p] \notin {"save", "apply"}
  PROVE  LoadInv'
<1>1. \A k \in Key : Loaded'[k] = Loaded[k]
  BY DEF Loaded
<1>2. OneWriter => OneWriter'
  BY DEF OneWriter
<1>3. Saved => Saved'
  BY DEF Saved
<1>4. AsLoaded => AsLoaded'
  BY <1>1 DEF AsLoaded
<1> QED
  BY <1>2, <1>3, <1>4 DEF LoadInv

LEMMA LoadStep == LoadInv /\ [Next]_vars => LoadInv'
<1> SUFFICES ASSUME LoadInv, [Next]_vars PROVE LoadInv'
  OBVIOUS
<1>1. TypeInv /\ TypeInv'
  BY TypeStep DEF LoadInv
<1>2. Stored /\ Requests
  BY <1>1, Parts DEF TypeInv
<1>3. ASSUME NEW p \in Page, OpenSystem(p) \/ OpenOther(p) PROVE LoadInv'
  <2>1. /\ pc' = [pc EXCEPT ![p] = "idle"] /\ pc[p] \in {"closed", "idle"}
        /\ UNCHANGED <<table, options, change, torn>>
    BY <1>3 DEF OpenSystem, OpenOther, Shows
  <2> QED
    BY <1>1, <1>2, <2>1, LoadQuietly DEF Requests
<1>4. ASSUME NEW p \in Page, NEW s \in Setting, NEW text \in Value(s), Type(p, s, text)
      PROVE  LoadInv'
  BY <1>1, <1>4, LoadQuietly DEF Type
<1>5. ASSUME NEW p \in Page, NEW changes, Sends(p, changes) PROVE LoadInv'
  <2>1. /\ Send(p, changes) /\ UNCHANGED <<table, options, torn>> /\ pc[p] = "idle"
        /\ changes \in SUBSET Changes /\ \A c \in changes : c.value \in Value(c.key)
    BY <1>1, <1>5, SendsIs
  <2> QED
    BY <1>1, <1>2, <2>1, Sent, LoadQuietly
<1>6. ASSUME NEW p \in Page, Check(p) PROVE LoadInv'
  <2>1. pc[p] = "check" /\ UNCHANGED <<table, options, torn>>
    BY <1>6 DEF Check
  <2>2. CASE Send(p, queue[p])
    <3>1. queue[p] \in SUBSET Changes /\ \A c \in queue[p] : c.value \in Value(c.key)
      BY <1>2 DEF Requests, UnderWay
    <3> QED
      BY <1>1, <1>2, <2>1, <2>2, <3>1, Sent, LoadQuietly
  <2>3. CASE Goes(p, "create") /\ UNCHANGED <<change, queue>>
    <3>1. \A q \in Page : pc'[q] = pc[q] \/ (pc'[q] = "create" /\ q = p)
      BY <1>2, <2>3 DEF Goes, Requests
    <3> QED
      BY <1>1, <2>1, <2>3, <3>1, LoadQuietly
  <2> QED
    BY <1>6, <2>2, <2>3 DEF Check
<1>7. ASSUME NEW p \in Page, FirstOrCreate(p) \/ Save(p) PROVE LoadInv'
  <2> DEFINE k == change[p].key
             v == change[p].value
  <2>1. /\ k \in Key /\ v # None /\ pc[p] \in {"create", "save"}
        /\ UNCHANGED <<options, change>>
    BY <1>1, <1>7, ChangeUnderWay DEF FirstOrCreate, Save
  <2>2. CASE torn'
    BY <1>1, <2>2 DEF LoadInv
  <2>3. CASE ~ torn'
    <3>1. ~ torn /\ Writing(k) = {p}
      BY <1>7, <2>3 DEF FirstOrCreate, Save
    <3>2. \A q \in Page : q # p /\ pc[q] \in {"save", "apply"} => change[q].key # k
      BY <3>1 DEF Writing
    <3>3. \/ pc[p] = "create" /\ pc' = [pc EXCEPT ![p] = "save"]
          \/ /\ pc[p] = "save" /\ pc' = [pc EXCEPT ![p] = "apply"]
             /\ table' = [table EXCEPT ![k] = v]
      BY <1>7, <2>3 DEF FirstOrCreate, Save, Goes
    <3>4. \A j \in Key \ {k} : table'[j] = table[j]
      BY <1>2, <1>7, <2>1 DEF FirstOrCreate, Save, Stored
    <3> HIDE DEF k, v
    <3>5. \A q \in Page \ {p} : pc'[q] = pc[q]
      BY <1>2, <3>3 DEF Requests
    <3>6. pc'[p] \in {"save", "apply"} /\ (pc'[p] = "apply" => table'[k] = v)
      BY <1>2, <2>1, <3>3 DEF Requests, Stored
    <3>7. \A j \in Key \ {k} : Loaded'[j] = Loaded[j]
      BY <3>4 DEF Loaded
    <3>8. \A q \in Page : pc[q] \in {"save", "apply"} => change[q].key \in Key
      BY <1>1, ChangeUnderWay
    <3>9. OneWriter'
      <4> SUFFICES ASSUME NEW q \in Page, NEW r \in Page,
                          pc'[q] \in {"save", "apply"}, pc'[r] \in {"save", "apply"},
                          change[q].key = change[r].key
                   PROVE  q = r
        BY <2>1 DEF OneWriter
      <4>1. CASE q = p \/ r = p
        BY <3>2, <3>5, <4>1 DEF k
      <4>2. CASE q # p /\ r # p
        BY <3>1, <3>5, <4>2 DEF LoadInv, OneWriter
      <4> QED
        BY <4>1, <4>2
    <3>10. Saved'
      <4> SUFFICES ASSUME NEW q \in Page, pc'[q] = "apply"
                   PROVE  table'[change[q].key] = change[q].value
        BY <2>1 DEF Saved
      <4>1. CASE q = p
        BY <3>6, <4>1 DEF k, v
      <4>2. CASE q # p
        <5>1. pc[q] = "apply" /\ change[q].key \in Key /\ change[q].key # k
          BY <3>2, <3>5, <3>8, <4>2
        <5> QED
          BY <3>1, <3>4, <5>1 DEF LoadInv, Saved
      <4> QED
        BY <4>1, <4>2
    <3>11. ASSUME NEW j \in Key,
                  \A q \in Page : pc'[q] \in {"save", "apply"} => change'[q].key # j
           PROVE  options'[j] = Loaded'[j]
      <4>1. j # k
        BY <2>1, <3>6, <3>11 DEF k
      <4>2. \A q \in Page : pc[q] \in {"save", "apply"} => change[q].key # j
        BY <2>1, <3>5, <3>11, <4>1 DEF k
      <4> QED
        BY <2>1, <3>1, <3>7, <4>1, <4>2 DEF LoadInv, AsLoaded
    <3>12. AsLoaded'
      BY <3>11 DEF AsLoaded
    <3> QED
      BY <1>1, <3>9, <3>10, <3>12 DEF LoadInv
  <2> QED
    BY <2>2, <2>3
<1>8. ASSUME NEW p \in Page, UpdateOptionMap(p) PROVE LoadInv'
  <2> DEFINE k == change[p].key
             v == change[p].value
  <2>1. k \in Key /\ v # None /\ pc[p] = "apply"
    BY <1>1, <1>8, ChangeUnderWay DEF UpdateOptionMap
  <2>2. /\ options' = [options EXCEPT ![k] = v]
        /\ UNCHANGED <<table, torn>>
        /\ Send(p, queue[p])
    BY <1>8 DEF UpdateOptionMap
  <2>3. queue[p] \in SUBSET Changes /\ \A c \in queue[p] : c.value \in Value(c.key)
    BY <1>2 DEF Requests, UnderWay
  <2>4. /\ \A q \in Page \ {p} : pc'[q] = pc[q] /\ change'[q] = change[q]
        /\ pc'[p] \notin {"save", "apply"}
    BY <1>2, <2>2, <2>3, Sent
  <2>5. CASE torn
    BY <1>1, <2>2, <2>5 DEF LoadInv
  <2>6. CASE ~ torn
    <3>1. table[k] = v /\ Loaded[k] = v
      BY <2>1, <2>6, LoadedIs DEF LoadInv, Saved
    <3>2. \A j \in Key : Loaded'[j] = Loaded[j]
      BY <2>2 DEF Loaded
    <3> HIDE DEF k, v
    <3>3. \A j \in Key : options'[j] = IF j = k THEN v ELSE options[j]
      BY <1>2, <2>1, <2>2 DEF Stored
    <3>4. ASSUME NEW j \in Key,
                 \A q \in Page : pc'[q] \in {"save", "apply"} => change'[q].key # j
          PROVE  options'[j] = Loaded'[j]
      <4>1. CASE j = k
        BY <3>1, <3>2, <3>3, <4>1
      <4>2. CASE j # k
        <5>1. \A q \in Page : pc[q] \in {"save", "apply"} => change[q].key # j
          BY <2>4, <3>4, <4>2 DEF k
        <5> QED
          BY <2>6, <3>2, <3>3, <4>2, <5>1 DEF LoadInv, AsLoaded
      <4> QED
        BY <4>1, <4>2
    <3>5. OneWriter'
      <4> SUFFICES ASSUME NEW q \in Page, NEW r \in Page,
                          pc'[q] \in {"save", "apply"}, pc'[r] \in {"save", "apply"},
                          change'[q].key = change'[r].key
                   PROVE  q = r
        BY DEF OneWriter
      <4>1. q # p /\ r # p
        BY <2>4
      <4> QED
        BY <2>4, <2>6, <4>1 DEF LoadInv, OneWriter
    <3>6. Saved'
      BY <2>2, <2>4, <2>6 DEF LoadInv, Saved
    <3>7. AsLoaded'
      BY <3>4 DEF AsLoaded
    <3> QED
      BY <1>1, <3>5, <3>6, <3>7 DEF LoadInv
  <2> QED
    BY <2>5, <2>6
<1>9. ASSUME Restart PROVE LoadInv'
  <2>1. /\ options' = Loaded /\ UNCHANGED table
        /\ \A p \in Page : pc'[p] \in {"idle", "closed"}
    BY <1>9 DEF Restart
  <2>2. Loaded' = Loaded
    BY <2>1 DEF Loaded
  <2>3. AsLoaded'
    BY <2>1, <2>2 DEF AsLoaded
  <2>4. OneWriter' /\ Saved'
    BY <2>1 DEF OneWriter, Saved
  <2> QED
    BY <1>1, <2>3, <2>4 DEF LoadInv
<1>10. CASE UNCHANGED vars
  BY <1>1, <1>10, LoadQuietly DEF vars
<1> QED
  BY <1>3, <1>4, <1>5, <1>6, <1>7, <1>8, <1>9, <1>10, Steps

\* While writes of one key come one after the other and none fails, what the process
\* runs with when it is quiet is what it would start with again (UpdateOption,
\* InitOptionMap).
THEOREM RestartsChangeNothing == Spec => []RestartChangesNothing
<1>1. LoadInv => RestartChangesNothing
  <2> SUFFICES ASSUME LoadInv, \A p \in Page : pc[p] \in {"closed", "idle"}, ~ torn
               PROVE  options = Loaded
    BY DEF RestartChangesNothing
  <2>1. \A k \in Key : options[k] = Loaded[k]
    BY DEF LoadInv, AsLoaded
  <2>2. options \in [Key -> AnyValue]
    BY Parts DEF LoadInv, TypeInv, Stored
  <2> QED
    BY <2>1, <2>2 DEF Loaded
<1> QED
  BY <1>1, LoadInit, LoadStep, PTL DEF Spec

-------------------------------------------------------------------------------
\* A page saves only what was edited on it.

\* What a page sends, and what it shows that differs from what it was sent, was edited
\* on it or has a button of its own.
EditInv ==
  /\ TypeInv
  /\ \A p \in Page :
       /\ \A c \in UnderWay(p) : c.key \in touched[p] \cup Own
       /\ \A k \in Key : inputs[p][k] # origin[p][k] => k \in touched[p] \cup Own

LEMMA EditInit == Init => EditInv
<1> SUFFICES ASSUME Init PROVE EditInv
  OBVIOUS
<1>1. \A p \in Page : UnderWay(p) = {}
  BY DEF Init, UnderWay
<1>2. \A p \in Page : inputs[p] = origin[p]
  BY DEF Init
<1> QED
  BY <1>1, <1>2, TypeInit DEF EditInv

\* The queue loses changes at most, and the rest stays as it is.
LEMMA EditQuietly ==
  ASSUME EditInv, TypeInv', UNCHANGED <<inputs, origin, touched>>,
         \A p \in Page : UnderWay(p)' \subseteq UnderWay(p)
  PROVE  EditInv'
BY DEF EditInv

LEMMA EditStep == EditInv /\ [Next]_vars => EditInv'
<1> SUFFICES ASSUME EditInv, [Next]_vars PROVE EditInv'
  OBVIOUS
<1>1. TypeInv /\ TypeInv'
  BY TypeStep DEF EditInv
<1>2. Stored /\ Requests /\ Panes /\ Marks
  BY <1>1, Parts DEF TypeInv
<1>3. ASSUME NEW p \in Page, OpenSystem(p) \/ OpenOther(p) PROVE EditInv'
  <2>1. /\ pc[p] \in {"closed", "idle"} /\ touched' = [touched EXCEPT ![p] = {}]
        /\ \E sent : /\ inputs' = [inputs EXCEPT ![p] = sent]
                     /\ origin' = [origin EXCEPT ![p] = sent]
        /\ UNCHANGED <<change, queue>>
    BY <1>3 DEF OpenSystem, OpenOther, Shows
  <2>2. \A q \in Page : UnderWay(q)' = UnderWay(q)
    BY <2>1 DEF UnderWay
  <2>3. UnderWay(p) = {}
    BY <1>2, <2>1 DEF Requests, UnderWay
  <2>4. /\ inputs'[p] = origin'[p]
        /\ \A q \in Page \ {p} : /\ inputs'[q] = inputs[q] /\ origin'[q] = origin[q]
                                 /\ touched'[q] = touched[q]
    BY <1>2, <2>1 DEF Panes, Marks
  <2> QED
    BY <1>1, <2>2, <2>3, <2>4 DEF EditInv
<1>4. ASSUME NEW p \in Page, NEW s \in Setting, NEW text \in Value(s), Type(p, s, text)
      PROVE  EditInv'
  <2>1. /\ inputs' = [inputs EXCEPT ![p][s] = text]
        /\ touched' = [touched EXCEPT ![p] = @ \cup {s}]
        /\ UNCHANGED <<origin, change, queue>>
    BY <1>4 DEF Type, Edit
  <2>2. s \in Key
    BY Keys
  <2>3. \A q \in Page, k \in Key : inputs'[q][k] = inputs[q][k] \/ (q = p /\ k = s)
    BY <1>2, <2>1, <2>2 DEF Panes
  <2>4. /\ \A q \in Page : touched[q] \subseteq touched'[q] /\ UnderWay(q)' = UnderWay(q)
        /\ s \in touched'[p]
    BY <1>2, <2>1 DEF Marks, UnderWay
  <2> QED
    BY <1>1, <2>1, <2>3, <2>4 DEF EditInv
<1>5. ASSUME NEW p \in Page, NEW changes, Sends(p, changes) PROVE EditInv'
  <2>1. /\ Send(p, changes) /\ UNCHANGED <<inputs, origin>>
        /\ changes \in SUBSET Changes /\ \A c \in changes : c.value \in Value(c.key)
    BY <1>1, <1>5, SendsIs
  <2>2. /\ \A q \in Page : touched[q] \subseteq touched'[q]
        /\ \A c \in changes : c.key \in touched'[p] \cup Own
    <3>1. ASSUME NEW s \in Switch, Toggle(p, s),
                 changes = {[key |-> s,
                             value |-> IF inputs[p][s] = "true" THEN "false" ELSE "true"]}
          PROVE  <2>2!1 /\ <2>2!2
      <4>1. touched' = [touched EXCEPT ![p] = @ \cup {s}]
        BY <3>1 DEF Toggle, Edit
      <4>2. \A c \in changes : c.key = s
        BY <3>1
      <4> QED
        BY <1>2, <4>1, <4>2 DEF Marks
    <3>2. ASSUME SubmitGroup(p),
                 changes = {Change(p, s) : s \in {t \in Group : Changed(p, t)}}
          PROVE  <2>2!1 /\ <2>2!2
      <4>1. UNCHANGED touched
        BY <3>2 DEF SubmitGroup
      <4>2. ASSUME NEW t \in Group, Changed(p, t)
            PROVE  Change(p, t).key \in touched[p] \cup Own
        <5>1. t \in Key /\ inputs[p][t] # origin[p][t] /\ Change(p, t).key = t
          BY <4>2, KeyAssumption DEF Key, Changed, Change
        <5> QED
          BY <5>1 DEF EditInv
      <4> QED
        BY <3>2, <4>1, <4>2
    <3>3. ASSUME NEW s \in Own, SubmitOwn(p, s), changes = {Change(p, s)}
          PROVE  <2>2!1 /\ <2>2!2
      <4>1. UNCHANGED touched /\ Change(p, s).key = s
        BY <3>3 DEF SubmitOwn, Change
      <4> QED
        BY <3>3, <4>1
    <3> QED
      BY <1>5, <3>1, <3>2, <3>3 DEF Sends
  <2>3. UnderWay(p)' = changes /\ \A q \in Page \ {p} : UnderWay(q)' = UnderWay(q)
    BY <1>2, <2>1, Sent
  <2> QED
    BY <1>1, <2>1, <2>2, <2>3 DEF EditInv
<1>6. ASSUME NEW p \in Page, Check(p) \/ FirstOrCreate(p) \/ Save(p) PROVE EditInv'
  <2>1. /\ UNCHANGED <<inputs, origin, touched>>
        /\ Send(p, queue[p]) \/ UNCHANGED <<change, queue>>
    BY <1>6 DEF Check, FirstOrCreate, Save, page
  <2>2. \A q \in Page : UnderWay(q)' \subseteq UnderWay(q)
    <3>1. queue[p] \in SUBSET Changes /\ queue[p] \subseteq UnderWay(p)
            /\ \A c \in queue[p] : c.value \in Value(c.key)
      BY <1>2 DEF Requests, UnderWay
    <3>2. CASE Send(p, queue[p])
      BY <1>2, <3>1, <3>2, Sent
    <3>3. CASE UNCHANGED <<change, queue>>
      BY <3>3 DEF UnderWay
    <3> QED
      BY <2>1, <3>2, <3>3
  <2> QED
    BY <1>1, <2>1, <2>2, EditQuietly
<1>7. ASSUME NEW p \in Page, UpdateOptionMap(p) PROVE EditInv'
  <2> DEFINE k == change[p].key
             v == change[p].value
  <2>1. k \in Key /\ k \in touched[p] \cup Own
    BY <1>1, <1>7, ChangeUnderWay DEF UpdateOptionMap, EditInv
  <2>2. /\ inputs' = [inputs EXCEPT ![p][k] = v]
        /\ Send(p, queue[p]) /\ UNCHANGED <<origin, touched>>
    BY <1>7 DEF UpdateOptionMap
  <2> HIDE DEF k, v
  <2>3. \A q \in Page, j \in Key : inputs'[q][j] = inputs[q][j] \/ (q = p /\ j = k)
    BY <1>2, <2>1, <2>2 DEF Panes
  <2>4. queue[p] \in SUBSET Changes /\ queue[p] \subseteq UnderWay(p)
          /\ \A c \in queue[p] : c.value \in Value(c.key)
    BY <1>2 DEF Requests, UnderWay
  <2>5. \A q \in Page : UnderWay(q)' \subseteq UnderWay(q)
    BY <1>2, <2>2, <2>4, Sent
  <2> QED
    BY <1>1, <2>1, <2>2, <2>3, <2>5 DEF EditInv
<1>8. ASSUME Restart PROVE EditInv'
  <2>1. UNCHANGED <<inputs, origin, touched>> /\ \A q \in Page : UnderWay(q)' = {}
    BY <1>8 DEF Restart, page, UnderWay
  <2> QED
    BY <1>1, <2>1, EditQuietly
<1>9. CASE UNCHANGED vars
  BY <1>1, <1>9, EditQuietly DEF vars, page, UnderWay
<1> QED
  BY <1>3, <1>4, <1>5, <1>6, <1>7, <1>8, <1>9, Steps

\* A page changes only what its user edited, or what the button is for that was
\* pressed (submitSMTP and the like).
THEOREM OnlyEditsSaved == Spec => OnlyEditsAreSaved
<1>1. ASSUME EditInv, NEW p \in Page, pc[p] = "save"
      PROVE  change[p].key \in touched[p] \cup Own
  BY <1>1, ChangeUnderWay DEF EditInv
<1>2. EditInv /\ [Next]_vars =>
        [\A p \in Page : pc[p] = "save" /\ pc'[p] = "apply" =>
           change[p].key \in touched[p] \cup Own]_vars
  BY <1>1
<1> QED
  BY <1>2, EditInit, EditStep, PTL DEF Spec, OnlyEditsAreSaved

-------------------------------------------------------------------------------
\* What a page shows.

Told(p, k) ==
  \/ inputs[p][k] = options[k]
  \/ inputs[p][k] = None
  \/ k \in Setting \ Own /\ inputs[p][k] \in {origin[p][k], ""}

\* A page tells the truth about all that is neither edited, nor saved by others, nor
\* a text on its way.
Tells(p, k) ==
  \/ Told(p, k)
  \/ pc[p] = "closed"
  \/ k \in dirty[p] \cup foreign[p]
  \/ (k \in Setting /\ \E c \in UnderWay(p) : c.key = k)

TellInv == LoadInv /\ (~ torn => \A p \in Page, k \in Key : Tells(p, k))

LEMMA TellInit == Init => TellInv
<1> SUFFICES ASSUME Init PROVE TellInv
  OBVIOUS
<1>1. \A p \in Page : pc[p] = "closed"
  BY DEF Init
<1> QED
  BY <1>1, LoadInit DEF TellInv, Tells

\* Nothing changes that a page shows or that runs, and no text is given up.
LEMMA TellQuietly ==
  ASSUME TellInv, LoadInv', UNCHANGED <<options, inputs, origin, dirty, foreign>>,
         torn => torn',
         \A p \in Page : /\ pc[p] = "closed" => pc'[p] = "closed"
                         /\ \A c \in UnderWay(p) : c.key \in Setting => c \in UnderWay(p)'
  PROVE  TellInv'
<1>1. \A p \in Page, k \in Key : Told(p, k) => Told(p, k)'
  BY DEF Told
<1> QED
  BY <1>1 DEF TellInv, Tells

LEMMA TellStep == TellInv /\ [Next]_vars => TellInv'
<1> SUFFICES ASSUME TellInv, [Next]_vars PROVE TellInv'
  OBVIOUS
<1>1. TypeInv /\ TypeInv' /\ LoadInv /\ LoadInv'
  BY TypeStep, LoadStep DEF TellInv, LoadInv
<1>2. Stored /\ Requests /\ Panes /\ Marks
  BY <1>1, Parts DEF TypeInv
<1>3. ASSUME NEW p \in Page, OpenSystem(p) \/ OpenOther(p) PROVE TellInv'
  <2>1. PICK w \in {"system", "other"}, sent \in [Key -> AnyValue \cup {None}] :
          Shows(p, w, sent) /\ \A k \in Key : sent[k] \in {None, options[k]}
    BY <1>2, <1>3, Opened
  <2>2. /\ inputs' = [inputs EXCEPT ![p] = sent]
        /\ origin' = [origin EXCEPT ![p] = sent]
        /\ dirty' = [dirty EXCEPT ![p] = {}]
        /\ foreign' = [foreign EXCEPT ![p] = {}]
        /\ pc' = [pc EXCEPT ![p] = "idle"]
        /\ UNCHANGED <<options, change, queue, torn>>
    BY <2>1 DEF Shows
  <2>3. \A k \in Key : Told(p, k)'
    BY <1>2, <2>1, <2>2 DEF Told, Panes
  <2>4. \A q \in Page \ {p} : /\ inputs'[q] = inputs[q] /\ origin'[q] = origin[q]
                              /\ dirty'[q] = dirty[q] /\ foreign'[q] = foreign[q]
                              /\ pc'[q] = pc[q] /\ UnderWay(q)' = UnderWay(q)
    BY <1>2, <2>2 DEF Panes, Marks, Requests, UnderWay
  <2>5. \A q \in Page \ {p}, k \in Key : Told(q, k) => Told(q, k)'
    BY <2>2, <2>4 DEF Told
  <2> QED
    BY <1>1, <2>2, <2>3, <2>4, <2>5 DEF TellInv, Tells
<1>4. ASSUME NEW p \in Page, NEW s \in Setting, NEW text \in Value(s), Type(p, s, text)
      PROVE  TellInv'
  <2>1. /\ inputs' = [inputs EXCEPT ![p][s] = text]
        /\ dirty' = [dirty EXCEPT ![p] = @ \cup {s}]
        /\ UNCHANGED <<options, origin, change, queue, pc, foreign, torn>>
    BY <1>4 DEF Type
  <2>2. s \in Key
    BY Keys
  <2>3. \A q \in Page, k \in Key : inputs'[q][k] = inputs[q][k] \/ (q = p /\ k = s)
    BY <1>2, <2>1, <2>2 DEF Panes
  <2>4. \A q \in Page, k \in Key : (Told(q, k) => Told(q, k)') \/ (q = p /\ k = s)
    BY <2>1, <2>3 DEF Told
  <2>5. /\ s \in dirty'[p]
        /\ \A q \in Page : dirty[q] \subseteq dirty'[q] /\ UnderWay(q)' = UnderWay(q)
    BY <1>2, <2>1 DEF Marks, UnderWay
  <2> QED
    BY <1>1, <2>1, <2>4, <2>5 DEF TellInv, Tells
<1>5. ASSUME NEW p \in Page, NEW changes, Sends(p, changes) PROVE TellInv'
  <2>1. /\ Send(p, changes) /\ pc[p] = "idle"
        /\ UNCHANGED <<options, inputs, origin, foreign, torn>>
        /\ changes \in SUBSET Changes /\ \A c \in changes : c.value \in Value(c.key)
    BY <1>1, <1>5, SendsIs
  <2>2. /\ UnderWay(p)' = changes
        /\ \A q \in Page \ {p} : UnderWay(q)' = UnderWay(q) /\ pc'[q] = pc[q]
    BY <1>2, <2>1, Sent
  <2>3. UnderWay(p) = {}
    BY <1>2, <2>1 DEF Requests, UnderWay
  <2>4. \A q \in Page, k \in Key : Told(q, k)' <=> Told(q, k)
    BY <2>1 DEF Told
  <2>5. /\ \A q \in Page \ {p} : dirty'[q] = dirty[q]
        /\ \A k \in dirty[p] \cap Key :
             k \notin dirty'[p] =>
               Told(p, k) \/ (k \in Setting /\ \E c \in changes : c.key = k)
    <3>1. ASSUME NEW s \in Switch, Toggle(p, s) PROVE <2>5!1 /\ <2>5!2
      BY <3>1 DEF Toggle
    <3>2. ASSUME SubmitGroup(p),
                 changes = {Change(p, s) : s \in {t \in Group : Changed(p, t)}}
          PROVE  <2>5!1 /\ <2>5!2
      <4>1. dirty' = [dirty EXCEPT ![p] = @ \ Group]
        BY <3>2 DEF SubmitGroup
      <4>2. ASSUME NEW k \in Group
            PROVE  Told(p, k) \/ (k \in Setting /\ \E c \in changes : c.key = k)
        <5>1. k \in Setting \ Own
          BY KeyAssumption
        <5>2. CASE Changed(p, k)
          <6>1. Change(p, k) \in changes /\ Change(p, k).key = k
            BY <3>2, <5>2 DEF Change
          <6> QED
            BY <5>1, <6>1
        <5>3. CASE ~ Changed(p, k)
          BY <5>1, <5>3 DEF Changed, Told
        <5> QED
          BY <5>2, <5>3
      <4> QED
        BY <1>2, <4>1, <4>2 DEF Marks
    <3>3. ASSUME NEW s \in Own, SubmitOwn(p, s), changes = {Change(p, s)}
          PROVE  <2>5!1 /\ <2>5!2
      <4>1. dirty' = [dirty EXCEPT ![p] = @ \ {s}] /\ Change(p, s).key = s
        BY <3>3 DEF SubmitOwn, Change
      <4>2. s \in Setting
        BY KeyAssumption
      <4> QED
        BY <1>2, <3>3, <4>1, <4>2 DEF Marks
    <3> QED
      BY <1>5, <3>1, <3>2, <3>3 DEF Sends
  <2> QED
    BY <1>1, <2>1, <2>2, <2>3, <2>4, <2>5 DEF TellInv, Tells
<1>6. ASSUME NEW p \in Page, Check(p) PROVE TellInv'
  <2>1. /\ pc[p] = "check"
        /\ UNCHANGED <<options, inputs, origin, dirty, foreign, torn>>
    BY <1>6 DEF Check, page
  <2>2. CASE /\ change[p].key \in DOMAIN Needs
             /\ Send(p, queue[p])
    <3>1. /\ queue[p] \in SUBSET Changes /\ \A c \in queue[p] : c.value \in Value(c.key)
          /\ \A c \in UnderWay(p) : c = change[p] \/ c \in queue[p]
      BY <1>2 DEF Requests, UnderWay
    <3>2. change[p].key \notin Setting
      BY <2>2, KeyAssumption
    <3> QED
      BY <1>1, <1>2, <2>1, <2>2, <3>1, <3>2, Sent, TellQuietly
  <2>3. CASE Goes(p, "create") /\ UNCHANGED <<change, queue>>
    BY <1>1, <1>2, <2>1, <2>3, TellQuietly DEF Goes, Requests, UnderWay
  <2> QED
    BY <1>6, <2>2, <2>3 DEF Check
<1>7. ASSUME NEW p \in Page, FirstOrCreate(p) \/ Save(p) PROVE TellInv'
  <2>1. /\ UNCHANGED <<options, inputs, origin, dirty, foreign, change, queue>>
        /\ torn => torn'
        /\ pc[p] # "closed"
        /\ \E place \in {"save", "apply"} : Goes(p, place)
    BY <1>7 DEF FirstOrCreate, Save, page
  <2> QED
    BY <1>1, <1>2, <2>1, TellQuietly DEF Goes, Requests, UnderWay
<1>8. ASSUME NEW p \in Page, UpdateOptionMap(p) PROVE TellInv'
  <2>1. PICK k \in Key, v \in AnyValue :
          k = change[p].key /\ v = change[p].value /\ pc[p] = "apply"
    BY <1>1, <1>8, ChangeUnderWay DEF UpdateOptionMap
  <2>2. /\ options' = [options EXCEPT ![k] = v]
        /\ inputs' = [inputs EXCEPT ![p][k] = v]
        /\ foreign' = [q \in Page |-> IF q = p THEN foreign[q] ELSE foreign[q] \cup {k}]
        /\ Send(p, queue[p])
        /\ UNCHANGED <<origin, dirty, torn>>
    BY <1>8, <2>1 DEF UpdateOptionMap
  <2>3. /\ queue[p] \in SUBSET Changes /\ \A c \in queue[p] : c.value \in Value(c.key)
        /\ \A c \in UnderWay(p) : c.key = k \/ c \in queue[p]
    BY <1>2, <2>1 DEF Requests, UnderWay
  <2>4. /\ UnderWay(p)' = queue[p]
        /\ \A q \in Page \ {p} : UnderWay(q)' = UnderWay(q) /\ pc'[q] = pc[q]
    BY <1>2, <2>2, <2>3, Sent
  <2>5. Told(p, k)'
    BY <1>2, <2>1, <2>2 DEF Told, Stored, Panes
  <2>6. \A q \in Page, j \in Key :
          j # k => options'[j] = options[j] /\ inputs'[q][j] = inputs[q][j]
    BY <1>2, <2>1, <2>2 DEF Stored, Panes
  <2>7. \A q \in Page, j \in Key : j # k /\ Told(q, j) => Told(q, j)'
    BY <2>2, <2>6 DEF Told
  <2>8. \A q \in Page : foreign[q] \subseteq foreign'[q] /\ (q # p => k \in foreign'[q])
    BY <1>2, <2>2 DEF Marks
  <2>9. ASSUME NEW q \in Page, NEW j \in Key, Tells(q, j) PROVE Tells(q, j)'
    <3>1. CASE j = k
      BY <2>5, <2>8, <3>1 DEF Tells
    <3>2. CASE j # k
      <4>1. CASE Told(q, j)
        BY <2>7, <3>2, <4>1 DEF Tells
      <4>2. CASE pc[q] = "closed"
        BY <2>1, <2>4, <4>2 DEF Tells
      <4>3. CASE j \in dirty[q] \cup foreign[q]
        BY <2>2, <2>8, <4>3 DEF Tells
      <4>4. CASE j \in Setting /\ \E c \in UnderWay(q) : c.key = j
        BY <2>3, <2>4, <3>2, <4>4 DEF Tells
      <4> QED
        BY <2>9, <4>1, <4>2, <4>3, <4>4 DEF Tells
    <3> QED
      BY <3>1, <3>2
  <2> QED
    BY <1>1, <2>2, <2>9 DEF TellInv
<1>9. ASSUME Restart PROVE TellInv'
  <2> DEFINE interrupted == {change[p].key : p \in {q \in Page : change[q] # None}}
  <2>1. /\ options' = Loaded
        /\ foreign' = [p \in Page |-> foreign[p] \cup interrupted]
        /\ pc' = [p \in Page |-> IF pc[p] = "idle" THEN "idle" ELSE "closed"]
        /\ UNCHANGED <<inputs, origin, dirty, torn>>
    BY <1>9 DEF Restart, page
  <2>2. ASSUME ~ torn, NEW k \in Key, k \notin interrupted PROVE options'[k] = options[k]
    <3>1. \A p \in Page : pc[p] \in {"save", "apply"} => change[p].key # k
      BY <1>2, <2>2 DEF Requests
    <3> QED
      BY <1>1, <2>1, <2>2, <3>1 DEF LoadInv, AsLoaded
  <2> HIDE DEF interrupted
  <2>3. \A p \in Page : /\ foreign'[p] = foreign[p] \cup interrupted
                        /\ pc'[p] # "closed" => pc[p] = "idle"
    BY <1>2, <2>1 DEF Marks, Requests
  <2>4. \A p \in Page : pc[p] = "idle" => UnderWay(p) = {}
    BY <1>2 DEF Requests, UnderWay
  <2>5. ASSUME ~ torn, NEW p \in Page, NEW k \in Key, k \notin interrupted, Told(p, k)
        PROVE  Told(p, k)'
    <3>1. options'[k] = options[k] /\ UNCHANGED <<inputs, origin>>
      BY <2>1, <2>2, <2>5
    <3> QED
      BY <2>5, <3>1 DEF Told
  <2>6. ASSUME ~ torn, NEW p \in Page, NEW k \in Key, Tells(p, k) PROVE Tells(p, k)'
    <3>1. CASE k \in interrupted
      BY <2>3, <3>1 DEF Tells
    <3>2. CASE pc'[p] = "closed"
      BY <3>2 DEF Tells
    <3>3. CASE k \notin interrupted /\ pc'[p] # "closed"
      BY <2>1, <2>3, <2>4, <2>5, <2>6, <3>3 DEF Tells
    <3> QED
      BY <3>1, <3>2, <3>3
  <2> QED
    BY <1>1, <2>1, <2>6 DEF TellInv
<1>10. CASE UNCHANGED vars
  BY <1>1, <1>10, TellQuietly DEF vars, page, UnderWay
<1> QED
  BY <1>3, <1>4, <1>5, <1>6, <1>7, <1>8, <1>9, <1>10, Steps

\* What a page shows, besides what was edited since the last submit or saved by
\* others, is what the process runs with; left out are hidden settings, and those
\* that show again what they showed at first (SystemSetting.js, OtherSetting.js).
THEOREM PagesTrue == Spec => []PagesTellTheTruth
<1>1. TellInv => PagesTellTheTruth
  <2> SUFFICES ASSUME TellInv, NEW p \in Page, pc[p] = "idle", ~ torn,
                      NEW k \in Key \ (dirty[p] \cup foreign[p])
               PROVE  Told(p, k)
    BY DEF PagesTellTheTruth, Told
  <2>1. UnderWay(p) = {}
    BY Parts DEF TellInv, LoadInv, TypeInv, Requests, UnderWay
  <2> QED
    BY <2>1 DEF TellInv, Tells
<1> QED
  BY <1>1, TellInit, TellStep, PTL DEF Spec

===============================================================================
