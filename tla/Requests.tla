------------------------------- MODULE Requests -------------------------------
(***************************************************************************)
(* The HTTP requests in flight: the middleware that replays answers under  *)
(* an Idempotency-Key, the checks of access.rs that nearly every handler   *)
(* begins with, and the two tables these checks read, cases and            *)
(* case_members.  The modules that extend this one add the handlers.       *)
(*                                                                         *)
(* A handler runs in the task of its request.  It keeps no state between   *)
(* two statements but its local variables and its open transaction, so a   *)
(* request is a record that says where it is (`at') and what it has read   *)
(* (`saw').  One SQL statement is one step.  A transaction writes to `tx', *)
(* which only its own request sees until it commits.                       *)
(***************************************************************************)
EXTENDS Integers, FiniteSets

CONSTANTS
    Slots,       \* requests that can be in flight at the same time
    Users,
    Cases,       \* ids of cases
    NoUser, NoCase,
    Nothing,     \* what a request has read before it reads, or asks for
                 \* when it has no body
    Menus        \* bound: the operations a behaviour may request; of which
                 \* users, for which cases and how many; whether they carry a
                 \* key; how many are cut short, meet a failing statement
                 \* or see the window of a counter end

\* The requests that carry no access token: the key of their records would
\* not tell users apart, and they are modelled without a key.
WithoutToken == {"register", "login", "refresh"}

ASSUME RequestsAssumption ==
    /\ NoUser \notin Users /\ NoCase \notin Cases
    /\ \A m \in Menus :
          /\ m.requests \in Nat /\ m.faults \in Nat
          /\ m.keyed \in BOOLEAN
          /\ m.users \subseteq Users /\ m.cases \subseteq Cases
          /\ m.keyed => m.ops \cap WithoutToken = {}

VARIABLES
    req,     \* slot -> the request it serves
    cases,   \* the rows of cases
    members, \* the rows of case_members: case -> user -> role_in_case
    keys,    \* idempotency_records, and the history of the keyed requests
    menu,    \* the menu of this behaviour
    left,    \* how many requests it may still make
    faults,  \* how many faults it has seen
    crossed, \* history: the operations that overlapped on a case
    broken   \* history: where requests were cut short

requestVars == <<req, keys, menu, left, faults, crossed, broken>>
caseVars == <<cases, members>>

-----------------------------------------------------------------------------
Roles    == {"none", "owner", "member", "viewer"}
Statuses == {"none", "active", "deleted"}
Levels   == {"read", "write", "own", "operate"}

CaseRow == [owner : Users \cup {NoUser}, status : Statuses, name : {"a", "b"}]
NoCaseRow == [owner |-> NoUser, status |-> "none", name |-> "a"]

Idle == [op |-> "none", at |-> "idle", user |-> NoUser, case |-> NoCase,
         path |-> NoCase, arg |-> Nothing, saw |-> Nothing, need |-> "none",
         then |-> "none", deny |-> "leave", keyed |-> FALSE, renewed |-> FALSE,
         may |-> {}, tx |-> <<>>]

Active(p) == req[p].op # "none"
At(p, place) == req[p].at = place

(* The rows of a table as the transaction of p sees them, and the rows     *)
(* that the transaction of another request has written: they are locked.   *)
Seen(p, table) == [k \in DOMAIN table |->
                     IF k \in DOMAIN req[p].tx THEN req[p].tx[k] ELSE table[k]]
Locked(p, rows) == \E q \in Slots \ {p} : DOMAIN req[q].tx \cap rows # {}
Row(key, row) == [k \in {key} |-> row]
Writes(p, rows) == [k \in DOMAIN rows \cup DOMAIN req[p].tx |->
                      IF k \in DOMAIN rows THEN rows[k] ELSE req[p].tx[k]]

-----------------------------------------------------------------------------
(* What each check of access.rs lets through, in one state.                *)
FaultyAvailable(row) == row.status # "none"
Available(row) == row.status \notin {"none", "deleted"}
Live(c) == c \in Cases /\ Available(cases[c])

RoleAllows(level, role) ==
    \/ level = "read" /\ role # "none"
    \/ level \in {"write", "operate"} /\ role \in {"owner", "member"}

Lets(row, role, u, level) ==
    Available(row) /\ (row.owner = u \/ RoleAllows(level, role))

(* What a user has had, since a request was sent, of what the checks ask   *)
(* for in their two statements: the case itself, and a role in it.         *)
Rights(u, row, role) ==
    {level \in Levels : row.owner = u \/ RoleAllows(level, role)}
      \cup (IF Available(row) THEN {"live"} ELSE {})

Entitled(u, c, level) == Lets(cases[c], members[c][u], u, level)

(* The requests in flight, with the rights added that the tables now give  *)
(* their users.                                                            *)
Informed(requests, rows, roles) ==
    [q \in Slots |->
       LET r == requests[q] IN
         IF r.case \notin Cases THEN r
         ELSE [r EXCEPT !.may = @ \cup Rights(r.user, rows[r.case],
                                             roles[r.case][r.user])]]

-----------------------------------------------------------------------------
(* The key of a record is a hash of the method, the path, the header and   *)
(* the Authorization header: not of the body, and another token of the     *)
(* same user makes another key.                                            *)
FaultyRequestKey(r) == <<r.op, r.path, r.renewed>>
RequestKey(r) == <<r.op, r.path, r.user, r.renewed>>

(* What the client means by the key, whatever the token.                   *)
Identity(r) == <<r.op, r.path, r.user>>

FirstStep(r) == IF r.need = "none" THEN r.then ELSE "case"

Astray(r) == [keys EXCEPT !.astray = @ \cup {Identity(r)}]

(* The history of a keyed request that carries out its operation.          *)
Applied(r) ==
    IF ~r.keyed THEN keys
    ELSE [keys EXCEPT !.applied = @ \cup {Identity(r)},
                      !.twice = IF Identity(r) \in keys.applied
                                THEN @ \cup {Identity(r)} ELSE @]

(* A request that leaves after its operation, and without a record.        *)
Unrecorded(r) ==
    IF r.keyed /\ Identity(r) \in keys.applied THEN Astray(r) ELSE keys

-----------------------------------------------------------------------------
(* The ways a handler can go on.                                           *)
bounds == <<menu, left, faults, crossed, broken>>

Goto(p, place) ==
    /\ req' = [req EXCEPT ![p].at = place]
    /\ UNCHANGED <<keys, bounds>>

Learn(p, place, what) ==
    /\ req' = [req EXCEPT ![p].at = place, ![p].saw = what]
    /\ UNCHANGED <<keys, bounds>>

(* In a transaction, to write the given rows.                              *)
Buffer(p, place, rows) ==
    /\ req' = [req EXCEPT ![p].at = place, ![p].tx = Writes(p, rows)]
    /\ UNCHANGED <<keys, bounds>>

(* To check the access to the case, and to go on at `place'.               *)
Check(p, level, place) ==
    /\ req' = [req EXCEPT ![p].at = "case", ![p].need = level,
                          ![p].then = place]
    /\ UNCHANGED <<keys, bounds>>

LearnAndCheck(p, what, level, place) ==
    /\ req' = [req EXCEPT ![p].saw = what, ![p].at = "case", ![p].need = level,
                          ![p].then = place]
    /\ UNCHANGED <<keys, bounds>>

(* The statement that carries out the operation has been committed.        *)
Carry(p, place, what) ==
    /\ req' = [req EXCEPT ![p].at = place, ![p].saw = what, ![p].tx = <<>>]
    /\ keys' = Applied(req[p])
    /\ UNCHANGED bounds

Answered(p) ==
    [req EXCEPT ![p] = IF req[p].keyed THEN [@ EXCEPT !.at = "record", !.saw = Nothing,
                                                          !.tx = <<>>]
                       ELSE Idle]

Succeed(p) ==
    /\ req' = Answered(p)
    /\ UNCHANGED <<keys, bounds>>

CarryAndSucceed(p) ==
    /\ req' = Answered(p)
    /\ keys' = Applied(req[p])
    /\ UNCHANGED bounds

(* A check was the last thing to do, or the handler goes on at `then'.     *)
Pass(p) == IF req[p].then = "answer" THEN Succeed(p) ELSE Goto(p, req[p].then)

Refuse(p) ==
    /\ req' = [req EXCEPT ![p] = Idle]
    /\ keys' = Unrecorded(req[p])
    /\ UNCHANGED bounds

(* A check that fails ends the handler, but not one that runs a tool of    *)
(* the agent: that failure is the result of the tool.                      *)
Deny(p) == IF req[p].deny = "leave" THEN Refuse(p) ELSE Goto(p, req[p].deny)

-----------------------------------------------------------------------------
(* A client sends a request.  With a key it may be a retry of an earlier   *)
(* one, answered or not, with the token of then or with a renewed one.     *)
Overlaps(op, c) ==
    {{op, req[q].op} : q \in {s \in Slots : Active(s) /\ req[s].case = c}}

(* The users who may send it now, to be served in the slot p.              *)
Senders(p, op) ==
    IF ~Active(p) /\ left > 0 /\ op \in menu.ops THEN menu.users ELSE {}

Send(p, op, user, case, path, arg, need, then) ==
    /\ case \in menu.cases \cup {NoCase}
    /\ \E renewed \in (IF menu.keyed THEN BOOLEAN ELSE {FALSE}) :
         LET r == [op |-> op, at |-> "lookup", user |-> user, case |-> case,
                   path |-> path, arg |-> arg, saw |-> Nothing, need |-> need,
                   then |-> then, deny |-> "leave",
                   keyed |-> menu.keyed, renewed |-> renewed,
                   may |-> IF case \in Cases
                           THEN Rights(user, cases[case], members[case][user])
                           ELSE {},
                   tx |-> <<>>]
         IN  req' = [req EXCEPT ![p] =
                       IF r.keyed THEN r ELSE [r EXCEPT !.at = FirstStep(r)]]
    /\ left' = left - 1
    /\ crossed' = crossed \cup Overlaps(op, case)
    /\ UNCHANGED <<keys, menu, faults, broken>>

(* The middleware looks for a record: it replays it, or lets the request   *)
(* through.  The history notes the lookups that protect nothing: another   *)
(* request under the same key is in its handler, or the key was used with  *)
(* another token.                                                          *)
Replay(p) ==
    /\ At(p, "lookup")
    /\ RequestKey(req[p]) \in keys.recorded
    /\ req' = [req EXCEPT ![p] = Idle]
    /\ UNCHANGED <<keys, bounds, caseVars>>

Unprotected(r) ==
    \/ \E q \in Slots : /\ Active(q) /\ req[q].keyed /\ req[q].at # "lookup"
                        /\ Identity(req[q]) = Identity(r)
    \/ <<Identity(r), ~r.renewed>> \in keys.tokens

LookupMiss(p) ==
    /\ At(p, "lookup")
    /\ RequestKey(req[p]) \notin keys.recorded
    /\ req' = [req EXCEPT ![p].at = FirstStep(req[p])]
    /\ keys' = [(IF Unprotected(req[p]) THEN Astray(req[p]) ELSE keys) EXCEPT
                  !.tokens = @ \cup {<<Identity(req[p]), req[p].renewed>>}]
    /\ UNCHANGED <<bounds, caseVars>>

(* The lookup fails: the request goes on without protection.               *)
LookupFails(p) ==
    /\ At(p, "lookup")
    /\ faults < menu.faults
    /\ req' = [req EXCEPT ![p].at = FirstStep(req[p])]
    /\ keys' = Astray(req[p])
    /\ faults' = faults + 1
    /\ UNCHANGED <<menu, left, crossed, broken, caseVars>>

(* The record of a success.  request_key is unique: a second record of the *)
(* key, like any other failure of the statement, is only a warning.        *)
FaultyRecordAlways(p) ==
    /\ At(p, "record")
    /\ req' = [req EXCEPT ![p] = Idle]
    /\ UNCHANGED <<keys, bounds, caseVars>>

Record(p) ==
    /\ At(p, "record")
    /\ req' = [req EXCEPT ![p] = Idle]
    /\ keys' = [keys EXCEPT !.recorded = @ \cup {RequestKey(req[p])}]
    /\ UNCHANGED <<bounds, caseVars>>

RecordFails(p) ==
    /\ At(p, "record")
    /\ faults < menu.faults
    /\ req' = [req EXCEPT ![p] = Idle]
    /\ keys' = Astray(req[p])
    /\ faults' = faults + 1
    /\ UNCHANGED <<menu, left, crossed, broken, caseVars>>

-----------------------------------------------------------------------------
(* The checks of access.rs: a read of the case, then of the membership.    *)
(* ensure_operation reads the permissions of the role in a third           *)
(* statement; nothing changes that table after the migrations, so this     *)
(* read has no step of its own.                                            *)
CheckCase(p) ==
    /\ At(p, "case")
    /\ LET r == req[p] IN
       \/ /\ ~Live(r.case)
          /\ Deny(p)
       \/ /\ Live(r.case)
          /\ cases[r.case].owner = r.user
          /\ Pass(p)
       \/ /\ Live(r.case)
          /\ cases[r.case].owner # r.user
          /\ IF r.need = "own" THEN Deny(p) ELSE Goto(p, "member")
    /\ UNCHANGED caseVars

CheckMember(p) ==
    /\ At(p, "member")
    /\ LET r == req[p] IN
         IF RoleAllows(r.need, members[r.case][r.user])
         THEN Pass(p) ELSE Deny(p)
    /\ UNCHANGED caseVars

(* A request ends between two statements: the client is gone and the       *)
(* server drops its task, the process dies, or the next statement fails.   *)
(* Its transaction is rolled back.                                         *)
CutShort(p) ==
    /\ Active(p)
    /\ faults < menu.faults
    /\ req' = [req EXCEPT ![p] = Idle]
    /\ keys' = Unrecorded(req[p])
    /\ faults' = faults + 1
    /\ broken' = broken \cup {<<req[p].op, req[p].at>>}
    /\ UNCHANGED <<menu, left, crossed, caseVars>>

RequestInit ==
    /\ req = [p \in Slots |-> Idle]
    /\ menu \in Menus
    /\ left = menu.requests
    /\ keys = [recorded |-> {}, applied |-> {}, twice |-> {}, astray |-> {},
               tokens |-> {}]
    /\ faults = 0
    /\ crossed = {}
    /\ broken = {}

RequestStep(p) ==
    \/ Replay(p) \/ LookupMiss(p) \/ LookupFails(p)
    \/ Record(p) \/ RecordFails(p)
    \/ CheckCase(p) \/ CheckMember(p)
    \/ CutShort(p)

Served == left = 0 /\ \A p \in Slots : ~Active(p)

-----------------------------------------------------------------------------
(* A retry under the same key carries the operation out a second time only *)
(* if the record was missing for a reason the middleware accepts: the      *)
(* first request was still in its handler, was cut short or failed after   *)
(* its write, sent another token, or the lookup or the insert failed.      *)
RetryAppliesOnce == keys.twice \subseteq keys.astray

(* A request is answered with a record only if the same user's own request *)
(* to the same path has been carried out.                                  *)
ReplayMeansDone ==
    [][\A p \in Slots :
         (At(p, "lookup") /\ req'[p] = Idle /\ faults' = faults)
            => Identity(req[p]) \in keys.applied]_<<req, faults, keys>>
=============================================================================
