------------------------------- MODULE WebTable -------------------------------
(***************************************************************************)
(* The table of profiles, or of users, in an administrator's browser        *)
(* (web/src/components/ProfilesTable.js, UsersTable.js): pages that are     *)
(* loaded, searched, sorted and changed while answers are on their way.     *)
(*                                                                         *)
(* A handler that awaits an answer goes on with the variables of the moment *)
(* it was clicked: with the array then on display, by reference, and with   *)
(* the page then active.  The arrays share their row objects, and some      *)
(* handlers change an array or an object in place, so both are kept on a    *)
(* heap.  Left out: the spinners, the messages, the form that edits a row.  *)
(***************************************************************************)
EXTENDS Integers, SequencesExt

CONSTANTS
  Id,            \* ids of profiles or users, in order of creation
  ItemsPerPage,
  MaxActs,       \* bound: clicks, edits by others and lost answers in one visit
  MaxHasty       \* the same for an administrator who does not wait

ASSUME IdAssumption == Id \subseteq Nat /\ IsFiniteSet(Id)
ASSUME PageAssumption == ItemsPerPage \in Nat \ {0}
ASSUME BoundAssumption == MaxActs \in Nat /\ MaxHasty \in 0..MaxActs

VARIABLES
  kind,       \* which of the two tables is open
  patient,    \* whether the administrator waits for answers (MayLoad, MayManage)
  rows,       \* the server's table
  objects,    \* every row object the browser has received
  arrays,     \* every array of row objects; an element is an index of objects
  table,      \* the array on display
  activePage,
  inFlight,   \* requests sent and not yet dealt with
  astray,     \* ids changed on the server behind the browser's back
  acts

vars == <<kind, patient, rows, objects, arrays, table, activePage, inFlight,
          astray, acts>>

\* For a profile, mark counts the resets of its token; for a user, it is the role.
Row == [status : {1, 2}, mark : Nat]
Object == [id : Id, status : {1, 2}, mark : Nat, deleted : BOOLEAN]

Common == 0
Admin == 1

Bound == IF patient THEN MaxActs ELSE MaxHasty

ManageOps ==
  IF kind = "profiles" THEN {"enable", "disable", "reset", "delete"}
                       ELSE {"enable", "disable", "promote", "demote", "delete"}

Pending == [ok |-> FALSE, done |-> FALSE, data |-> <<>>]
Refusal == [ok |-> FALSE, done |-> TRUE, data |-> <<>>]
Answer(data) == [ok |-> TRUE, done |-> TRUE, data |-> data]

\* A request: what it asks; the array and page the handler remembers.
Ask(op, id, start, at, goto) ==
  /\ acts < Bound
  /\ acts' = acts + 1
  /\ inFlight' = inFlight \cup
       {[n |-> acts, op |-> op, id |-> id, start |-> start, array |-> table,
         at |-> at, goto |-> goto, answer |-> Pending]}

\* The table has just been opened and asks for its first page.
Init ==
  /\ kind \in {"profiles", "users"}
  /\ patient \in BOOLEAN
  /\ rows = [i \in Id |-> [status |-> 1, mark |-> Common]]
  /\ objects = <<>>
  /\ arrays = <<<<>>>>
  /\ table = 1
  /\ activePage = 1
  /\ inFlight = {[n |-> MaxActs, op |-> "load", id |-> 0, start |-> 0, array |-> 1,
                  at |-> 0, goto |-> 0, answer |-> Pending]}
  /\ astray = {}
  /\ acts = 0

-----------------------------------------------------------------------------
(* The browser asks                                                         *)

\* An administrator who is patient starts a load when nothing is on its way ...
MayLoad == patient => inFlight = {}

\* ... and touches a row when no load, and nothing about that row, is.
MayManage(id) ==
  patient => \A r \in inFlight : r.op \in ManageOps /\ r.id # id

Pages(array) == (Len(array) + ItemsPerPage - 1) \div ItemsPerPage

TotalPages ==
  LET array == arrays[table]
  IN  Pages(array) + (IF Len(array) % ItemsPerPage = 0 THEN 1 ELSE 0)

\* Mutant: the last page is loaded again when it is turned to.
OnPaginationLoadAgain(p) ==
  /\ p \in 1..TotalPages \ {activePage}
  /\ p \in {Pages(arrays[table]), Pages(arrays[table]) + 1}
  /\ MayLoad
  /\ Ask("load", 0, p - 1, 0, p)
  /\ UNCHANGED <<kind, patient, rows, objects, arrays, table, activePage, astray>>

\* The page after the last one is loaded first, and turned to when it is there.
OnPaginationLoad(p) ==
  /\ p \in 1..TotalPages \ {activePage}
  /\ p = Pages(arrays[table]) + 1
  /\ MayLoad
  /\ Ask("load", 0, p - 1, 0, p)
  /\ UNCHANGED <<kind, patient, rows, objects, arrays, table, activePage, astray>>

OnPaginationTurn(p) ==
  /\ p \in 1..TotalPages \ {activePage}
  /\ p # Pages(arrays[table]) + 1
  /\ activePage' = p
  /\ UNCHANGED <<kind, patient, rows, objects, arrays, table, inFlight, astray, acts>>

\* A blank keyword loads the first page instead.
Search ==
  /\ MayLoad
  /\ \/ Ask("load", 0, 0, 0, 1)
     \/ Ask("search", 0, 0, 0, 1)
  /\ UNCHANGED <<kind, patient, rows, objects, arrays, table, activePage, astray>>

\* The buttons of the row at place idx of the page; the toggle reads the row shown.
Manage(idx, op) ==
  LET at == (activePage - 1) * ItemsPerPage + idx
  IN  /\ at \in DOMAIN arrays[table]
      /\ LET row == objects[arrays[table][at]]
         IN  /\ ~ row.deleted
             /\ op = "disable" => row.status = 1
             /\ op = "enable" => row.status # 1
             /\ MayManage(row.id)
             /\ Ask(op, row.id, 0, at, 0)
      /\ UNCHANGED <<kind, patient, rows, objects, arrays, table, activePage, astray>>

Value(o, column) == IF column = "id" THEN objects[o].id ELSE objects[o].status

\* The places whose rows come no later than the k-th when a column is sorted: equal
\* ones stay in their order.
UpTo(array, column, k) ==
  {j \in DOMAIN array :
     \/ Value(array[j], column) < Value(array[k], column)
     \/ Value(array[j], column) = Value(array[k], column) /\ j <= k}

ByColumn(array, column) ==
  [place \in DOMAIN array |->
     array[CHOOSE k \in DOMAIN array : Cardinality(UpTo(array, column, k)) = place]]

\* A copy of the array, sorted by one column; a second click turns it round.
Sorted(array, column) ==
  LET up == ByColumn(array, column)
  IN  IF objects[up[1]].id = objects[array[1]].id THEN Reverse(up) ELSE up

\* Mutant: the array itself is sorted.
SortInPlace(column) ==
  /\ acts < Bound
  /\ acts' = acts + 1
  /\ arrays[table] # <<>>
  /\ arrays' = [arrays EXCEPT ![table] = Sorted(@, column)]
  /\ UNCHANGED <<kind, patient, rows, objects, table, activePage, inFlight, astray>>

Sort(column) ==
  /\ acts < Bound
  /\ acts' = acts + 1
  /\ arrays[table] # <<>>
  /\ arrays' = Append(arrays, Sorted(arrays[table], column))
  /\ table' = Len(arrays) + 1
  /\ UNCHANGED <<kind, patient, rows, objects, activePage, inFlight, astray>>

-----------------------------------------------------------------------------
(* The server answers                                                       *)

Answered(r, answer) ==
  inFlight' = (inFlight \ {r}) \cup {[r EXCEPT !.answer = answer]}

AsObjects(ids) ==
  [k \in DOMAIN ids |-> [id |-> ids[k], status |-> rows[ids[k]].status,
                         mark |-> rows[ids[k]].mark, deleted |-> FALSE]]

\* Ids, the newest first: so many of them are not older.
NewestFirst(ids) ==
  [k \in 1..Cardinality(ids) |->
     CHOOSE i \in ids : Cardinality({j \in ids : j >= i}) = k]

\* One page of the table.
GetAll(r) ==
  LET newest == NewestFirst(DOMAIN rows)
      last == (r.start + 1) * ItemsPerPage
  IN  /\ r.op = "load"
      /\ Answered(r, Answer(AsObjects(
           SubSeq(newest, r.start * ItemsPerPage + 1,
                  IF last < Len(newest) THEN last ELSE Len(newest)))))
      /\ UNCHANGED rows

\* A search for profiles finds all of them, one for users those that match.
SearchAll(r) ==
  /\ r.op = "search"
  /\ \E found \in SUBSET DOMAIN rows :
       /\ kind = "profiles" => found = DOMAIN rows
       /\ Answered(r, Answer(AsObjects(Reverse(NewestFirst(found)))))
  /\ UNCHANGED rows

\* Mutant: a switch-off sets the status to zero.
ToStatusZero(op) == IF op = "enable" THEN 1 ELSE 0

ToStatus(op) == IF op = "enable" THEN 1 ELSE 2

Without(id) == [i \in DOMAIN rows \ {id} |-> rows[i]]

\* The status is changed, or the row deleted, whether or not the row is still there.
ManageProfile(r) ==
  /\ kind = "profiles"
  /\ \/ /\ r.op \in {"enable", "disable"}
        /\ rows' = [i \in DOMAIN rows |->
                      IF i = r.id THEN [rows[i] EXCEPT !.status = ToStatus(r.op)]
                                  ELSE rows[i]]
        /\ Answered(r, Answer(<<>>))
     \/ /\ r.op = "delete"
        /\ rows' = Without(r.id)
        /\ Answered(r, Answer(<<>>))
     \/ /\ r.op = "reset"
        /\ r.id \in DOMAIN rows
        /\ rows' = [rows EXCEPT ![r.id].mark = @ + 1]
        /\ Answered(r, Answer(<<rows'[r.id]>>))

\* The answer tells the status and the role that the user has now.
ManageUser(r) ==
  /\ kind = "users"
  /\ r.op \in ManageOps
  /\ r.id \in DOMAIN rows
  /\ r.op = "promote" => rows[r.id].mark # Admin
  /\ r.op = "demote" => rows[r.id].mark # Common
  /\ LET user == CASE r.op \in {"enable", "disable"} ->
                        [rows[r.id] EXCEPT !.status = ToStatus(r.op)]
                   [] r.op = "promote" -> [rows[r.id] EXCEPT !.mark = Admin]
                   [] r.op = "demote" -> [rows[r.id] EXCEPT !.mark = Common]
                   [] OTHER -> rows[r.id]
     IN  /\ rows' = IF r.op = "delete" THEN Without(r.id)
                                       ELSE [rows EXCEPT ![r.id] = user]
         /\ Answered(r, Answer(<<user>>))

\* The server says no: a query failed, the row is gone, the role is too high.
Refuse(r) ==
  /\ Answered(r, Refusal)
  /\ UNCHANGED rows

Serve(r) ==
  /\ ~ r.answer.done
  /\ GetAll(r) \/ SearchAll(r) \/ ManageProfile(r) \/ ManageUser(r) \/ Refuse(r)
  /\ UNCHANGED <<kind, patient, objects, arrays, table, activePage, astray, acts>>

\* Another administrator, or another page of the same one, changes or deletes a row.
Elsewhere(id) ==
  /\ acts < Bound
  /\ acts' = acts + 1
  /\ id \in DOMAIN rows
  /\ rows' \in {Without(id), [rows EXCEPT ![id].status = 3 - @]}
  /\ astray' = astray \cup {id}
  /\ UNCHANGED <<kind, patient, objects, arrays, table, activePage, inFlight>>

-----------------------------------------------------------------------------
(* The browser goes on with the answer                                      *)

New(data) == [k \in DOMAIN data |-> Len(objects) + k]

Shows(array) ==
  /\ arrays' = Append(arrays, array)
  /\ table' = Len(arrays) + 1

\* The first page makes a new array; a later one is pushed onto the array of
\* the click.  The page is turned even if the load was refused.
LoadAnswered(r) ==
  /\ r.op = "load"
  /\ activePage' = IF r.goto = 0 THEN activePage ELSE r.goto
  /\ IF r.answer.ok
       THEN /\ objects' = objects \o r.answer.data
            /\ IF r.start = 0
                 THEN Shows(New(r.answer.data))
                 ELSE /\ arrays' = [arrays EXCEPT ![r.array] = @ \o New(r.answer.data)]
                      /\ table' = r.array
       ELSE UNCHANGED <<objects, arrays, table>>

SearchAnswered(r) ==
  /\ r.op = "search"
  /\ r.answer.ok
  /\ objects' = objects \o r.answer.data
  /\ Shows(New(r.answer.data))
  /\ activePage' = 1

MarkedProfile(r, o) ==
  CASE r.op = "reset" -> [o EXCEPT !.mark = r.answer.data[1].mark]
    [] r.op = "delete" -> [o EXCEPT !.deleted = TRUE]
    [] OTHER -> [o EXCEPT !.status = ToStatus(r.op)]

MarkedUser(r, o) ==
  IF r.op = "delete"
    THEN [o EXCEPT !.deleted = TRUE]
    ELSE [o EXCEPT !.status = r.answer.data[1].status, !.mark = r.answer.data[1].mark]

\* Mutant: the row is replaced in the copy instead of changed in place.
ManageAnsweredByCopy(r) ==
  /\ r.op \in ManageOps
  /\ r.answer.ok
  /\ LET o == objects[arrays[r.array][r.at]]
     IN  objects' = Append(objects, IF kind = "profiles" THEN MarkedProfile(r, o)
                                                         ELSE MarkedUser(r, o))
  /\ Shows([arrays[r.array] EXCEPT ![r.at] = Len(objects) + 1])
  /\ UNCHANGED activePage

\* A copy of the array of the click goes on display.  Its row is changed in
\* place, in every array that holds it.
ManageAnswered(r) ==
  /\ r.op \in ManageOps
  /\ r.answer.ok
  /\ objects' = [objects EXCEPT ![arrays[r.array][r.at]] =
                   IF kind = "profiles" THEN MarkedProfile(r, @) ELSE MarkedUser(r, @)]
  /\ Shows(arrays[r.array])
  /\ UNCHANGED activePage

RefusalShown(r) ==
  /\ r.op # "load"
  /\ ~ r.answer.ok
  /\ UNCHANGED <<objects, arrays, table, activePage>>

Receive(r) ==
  /\ r.answer.done
  /\ inFlight' = inFlight \ {r}
  /\ LoadAnswered(r) \/ SearchAnswered(r) \/ ManageAnswered(r) \/ RefusalShown(r)
  /\ UNCHANGED <<kind, patient, rows, astray, acts>>

\* The request or its answer is lost: the handler ends with an exception.
Lose(r) ==
  /\ acts < Bound
  /\ acts' = acts + 1
  /\ inFlight' = inFlight \ {r}
  /\ astray' = IF r.op \in ManageOps /\ r.answer.ok THEN astray \cup {r.id} ELSE astray
  /\ UNCHANGED <<kind, patient, rows, objects, arrays, table, activePage>>

Next ==
  \/ \E p \in 1..TotalPages : OnPaginationLoad(p) \/ OnPaginationTurn(p)
  \/ Search
  \/ \E idx \in 1..ItemsPerPage, op \in ManageOps : Manage(idx, op)
  \/ \E column \in {"id", "status"} : Sort(column)
  \/ \E r \in inFlight : Serve(r) \/ Receive(r) \/ Lose(r)
  \/ \E id \in Id : Elsewhere(id)

Spec == Init /\ [][Next]_vars

-----------------------------------------------------------------------------
(* Properties                                                               *)

Request ==
  [n : 0..MaxActs, op : {"load", "search"} \cup ManageOps, id : Id \cup {0},
   start : Nat, array : DOMAIN arrays, at : Nat, goto : Nat,
   answer : [ok : BOOLEAN, done : BOOLEAN, data : Seq(Row \cup Object)]]

\* Every variable has its type; arrays hold objects the browser has, and every
\* request that changes a row remembers a place in its array.
TypeOK ==
  /\ kind \in {"profiles", "users"} /\ patient \in BOOLEAN
  /\ DOMAIN rows \subseteq Id /\ \A i \in DOMAIN rows : rows[i] \in Row
  /\ objects \in Seq(Object)
  /\ arrays \in Seq(Seq(1..Len(objects)))
  /\ table \in DOMAIN arrays
  /\ activePage \in Nat \ {0}
  /\ inFlight \subseteq Request
  /\ \A r \in inFlight : r.op \in ManageOps => r.at \in DOMAIN arrays[r.array]
  /\ astray \subseteq Id
  /\ acts \in 0..MaxActs

\* An answer changes the row that was clicked and no other, whatever has been
\* sorted, searched or loaded since: the place remembered by manageProfile and
\* manageUser is a place in the array they remember.
AnswersMarkTheirRow ==
  [][\A o \in DOMAIN objects :
       objects'[o] # objects[o] =>
         \E r \in inFlight \ inFlight' : r.op \in ManageOps /\ r.id = objects[o].id]_vars

\* For an administrator who waits, the table tells the truth: what it shows of a
\* row that it lists once, about which nothing is on its way, and that nobody else
\* changed, is what the server has, however the answers about other rows were
\* ordered.
Listed(k) == objects[arrays[table][k]]

RowsTellTheTruth ==
  patient =>
    \A k \in DOMAIN arrays[table] :
      LET o == Listed(k)
          once == \A j \in DOMAIN arrays[table] : Listed(j).id = o.id => j = k
          settled == /\ o.id \notin astray
                     /\ \A r \in inFlight : r.op \in ManageOps => r.id # o.id
      IN  once /\ settled =>
            IF o.deleted THEN o.id \notin DOMAIN rows
            ELSE /\ o.id \in DOMAIN rows
                 /\ rows[o.id] = [status |-> o.status, mark |-> o.mark]

\* No profile is listed twice when pages are loaded one after the other, even if
\* rows are deleted, sorted or searched between the loads.
NoRowTwice ==
  patient /\ kind = "profiles" =>
    \A j, k \in DOMAIN arrays[table] : Listed(j).id = Listed(k).id => j = k
===============================================================================
