------------------------------ MODULE WorkspaceSafety ------------------------------
(***************************************************************************)
(* The safety of the workspace, for any number of users, cases, requests   *)
(* and attempts: first the accounts (auth.rs, routes/auth.rs: tokens and   *)
(* passwords; rate_limit.rs: the counters), then the cases, their members  *)
(* and the access to them (access.rs, routes/cases.rs, case_members.rs),   *)
(* then the calls of the agent (agent/).  Each part says what the steps of *)
(* the other components leave alone: AccountViews for the accounts,        *)
(* ForeignAccess for the cases, ForeignAgent for the calls.                *)
(***************************************************************************)
EXTENDS WorkspaceProofs, FiniteSetTheorems

(***************************************************************************)
(* Where a request is after its step: still the same one, at a place, or   *)
(* gone.                                                                   *)
(***************************************************************************)
Keeps(p) == \A f \in {"op", "user", "case", "arg", "keyed", "need"} :
               req'[p][f] = req[p][f]
Moves(p, place) == req'[p].at = place /\ Keeps(p)
Leaves(p) == req'[p] = Idle \/ (req[p].keyed /\ Moves(p, "record"))

\* A handler that goes on to another place,
LEMMA GotoMoves ==
    ASSUME FlowInv, NEW p \in Slots, NEW place, Goto(p, place)
    PROVE  Moves(p, place) /\ req'[p].saw = req[p].saw /\ crossed' = crossed
  BY DEF FlowInv, Fields, Goto, bounds, Moves, Keeps

\* with what it has read,
LEMMA LearnMoves ==
    ASSUME FlowInv, NEW p \in Slots, NEW place, NEW what, Learn(p, place, what)
    PROVE  Moves(p, place) /\ req'[p].saw = what /\ crossed' = crossed
  BY DEF FlowInv, Fields, Learn, bounds, Moves, Keeps

\* past the statement that carries out its operation,
LEMMA CarryMoves ==
    ASSUME FlowInv, NEW p \in Slots, NEW place, NEW what, Carry(p, place, what)
    PROVE  Moves(p, place) /\ req'[p].saw = what /\ crossed' = crossed
  BY DEF FlowInv, Fields, Carry, bounds, Moves, Keeps

\* that answers,
LEMMA AnsweredLeaves ==
    ASSUME FlowInv, NEW p \in Slots, req' = Answered(p)
    PROVE  Leaves(p)
  BY DEF FlowInv, Fields, Answered, Moves, Keeps, Leaves

\* that succeeds,
LEMMA SucceedLeaves ==
    ASSUME FlowInv, NEW p \in Slots, Succeed(p) \/ CarryAndSucceed(p)
    PROVE  Leaves(p) /\ crossed' = crossed
  BY AnsweredLeaves DEF Succeed, CarryAndSucceed, bounds

\* and that refuses.
LEMMA RefuseLeaves ==
    ASSUME FlowInv, NEW p \in Slots, Refuse(p)
    PROVE  Leaves(p) /\ req'[p] = Idle /\ crossed' = crossed
  BY DEF FlowInv, Refuse, bounds, Leaves

-----------------------------------------------------------------------------
(***************************************************************************)
(* Accounts.  A request of theirs has no case and passes no check; two of  *)
(* them that are in flight together have crossed.                          *)
(***************************************************************************)
AccountOK(r) ==
    /\ r.op \in AccountOps => r.case = NoCase /\ r.at \notin Checks /\ r.need = "none"
    /\ r.op = "login" =>
          /\ r.at \in {"count_attempt"} \cup Begun
          /\ r.arg.ident \in Idents /\ r.arg.password \in Passwords
    /\ r.op = "register" =>
          /\ r.at \in {"count_users", "user_row", "role_row"}
          /\ r.arg.password \in Passwords
    /\ r.op = "change_password" =>
          /\ r.arg.new \in Passwords
          /\ r.at = "lookup" => r.then = "verify_old"

AccountFlow ==
    /\ \A p \in Slots : AccountOK(req[p])
    /\ \A p \in Slots : \A q \in Slots \ {p} :
          req[p].op \in AccountOps /\ req[q].op \in AccountOps
             => {req[p].op, req[q].op} \in crossed

\* What a step of p leaves of another request, as far as the accounts care.
LEMMA OtherAccount ==
    ASSUME NEW p \in Slots, Others(p), NEW q \in Slots \ {p}
    PROVE  /\ req'[q].op = req[q].op /\ req'[q].at = req[q].at
           /\ req'[q].user = req[q].user /\ req'[q].arg = req[q].arg
           /\ req'[q].saw = req[q].saw
           /\ AccountOK(req[q]) => AccountOK(req'[q])
<1>1. /\ req'[q].op = req[q].op /\ req'[q].at = req[q].at
      /\ req'[q].user = req[q].user /\ req'[q].arg = req[q].arg
      /\ req'[q].saw = req[q].saw /\ req'[q].case = req[q].case
      /\ req'[q].then = req[q].then /\ req'[q].need = req[q].need
  BY DEF Others, Fields
<1> QED
  BY <1>1 DEF AccountOK

\* A request that goes on is the one that crossed the others.
LEMMA AccountFlowKept ==
    ASSUME AccountFlow, NEW p \in Slots, Others(p), crossed \subseteq crossed',
           AccountOK(req'[p]),
           req'[p].op \in AccountOps => req'[p].op = req[p].op
    PROVE  AccountFlow'
<1>1. \A q \in Slots \ {p} : req'[q].op = req[q].op /\ AccountOK(req'[q])
  BY OtherAccount DEF AccountFlow
<1> QED
  BY <1>1 DEF AccountFlow

\* A request that is no longer the accounts' business.
LEMMA Gone ==
    ASSUME NEW p \in Slots, req'[p].op \notin AccountOps
    PROVE  AccountOK(req'[p])
  BY DEF AccountOK, AccountOps

\* A slot that is free is none of it.
LEMMA IdleGone ==
    ASSUME NEW p \in Slots, req'[p] = Idle
    PROVE  req'[p].op \notin AccountOps /\ req'[p].at = "idle"
  BY DEF Idle, AccountOps

\* A request to the accounts that is sent.
LEMMA SendAccountMoves ==
    ASSUME FlowInv, AccountFlow, NEW p \in Slots, NEW op \in AccountOps,
           NEW user \in Senders(p, op), NEW arg, NEW place,
           SendAccount(p, op, user, arg, place)
    PROVE  /\ req'[p].op = op /\ req'[p].user = user /\ req'[p].arg = arg
           /\ req'[p].case = NoCase /\ req'[p].need = "none"
           /\ req'[p].then = place /\ req[p].op = "none"
           /\ req'[p].at = place \/ (req'[p].at = "lookup" /\ op \notin WithoutToken)
           /\ \A q \in Slots \ {p} :
                 req[q].op \in AccountOps => {op, req[q].op} \in crossed'
           /\ UNCHANGED accountVars
<1>1. /\ UNCHANGED accountVars
      /\ crossed' = crossed \cup Overlaps(op, NoCase)
  BY DEF SendAccount, Send
<1>2. PICK renewed \in BOOLEAN :
         LET r == [op |-> op, at |-> "lookup", user |-> user, case |-> NoCase,
                   path |-> NoCase, arg |-> arg, saw |-> Nothing, need |-> "none",
                   then |-> place, deny |-> "leave",
                   keyed |-> menu.keyed, renewed |-> renewed,
                   may |-> IF NoCase \in Cases
                           THEN Rights(user, cases[NoCase], members[NoCase][user])
                           ELSE {},
                   tx |-> <<>>]
         IN  req' = [req EXCEPT ![p] =
                       IF r.keyed THEN r ELSE [r EXCEPT !.at = FirstStep(r)]]
  BY DEF SendAccount, Send
<1>3. req[p].op = "none" /\ op \in menu.ops /\ menu \in Menus
  BY SenderFacts DEF FlowInv
<1>4. menu.keyed \in BOOLEAN /\ (menu.keyed => op \notin WithoutToken)
  BY <1>3, RequestsAssumption
<1>5. /\ req'[p].op = op /\ req'[p].user = user /\ req'[p].arg = arg
      /\ req'[p].case = NoCase /\ req'[p].need = "none"
      /\ req'[p].then = place
      /\ req'[p].at = IF menu.keyed THEN "lookup" ELSE place
  BY <1>2, <1>4 DEF FirstStep, FlowInv
<1>6. ASSUME NEW q \in Slots \ {p}, req[q].op \in AccountOps
      PROVE  {op, req[q].op} \in crossed'
  BY <1>1, <1>6 DEF Overlaps, AccountFlow, AccountOK, Active, AccountOps
<1> QED
  BY <1>1, <1>3, <1>4, <1>5, <1>6

\* It has crossed every other one that is in flight.
LEMMA SendAccountKeeps ==
    ASSUME FlowInv, AccountFlow, NEW p \in Slots, NEW op \in AccountOps,
           NEW user \in Senders(p, op), NEW arg, NEW place,
           SendAccount(p, op, user, arg, place), Others(p), crossed \subseteq crossed',
           AccountOK(req'[p])
    PROVE  AccountFlow'
<1>1. /\ req'[p].op = op
      /\ \A q \in Slots \ {p} :
                 req[q].op \in AccountOps => {op, req[q].op} \in crossed'
  BY SendAccountMoves
<1>2. \A q \in Slots \ {p} : req'[q].op = req[q].op /\ AccountOK(req'[q])
  BY OtherAccount DEF AccountFlow
<1> QED
  BY <1>1, <1>2 DEF AccountFlow

\* A step that leaves the tables of the accounts alone: p leaves them, or has
\* nothing to do with them.
AccountAway(p) ==
    /\ UNCHANGED accountVars
    /\ req'[p].op \notin AccountOps
    /\ req'[p].at \notin Begun \cup {"role_row", "new_password"}

\* The look-up lets a request to logout or to change_password through.
AccountEnters(p) ==
    /\ UNCHANGED accountVars
    /\ req[p].at = "lookup" /\ req[p].op \in {"logout", "change_password", "refresh"}
    /\ req[p].op = "change_password" => req'[p].at = "verify_old"
    /\ req'[p].at \notin Checks \cup {"lookup", "new_password", "role_row"} \cup Begun
    /\ Keeps(p)

\* No other request stands where the accounts have something at stake.
LEMMA ForeignPlaces ==
    ASSUME NEW r, RequestOK(r), r.op \notin AccountOps
    PROVE  r.at \notin Begun \cup {"role_row", "new_password"}
<1>1. r.at \notin Checks \cup {"lookup"} => OnWay(r.op, r.at)
  BY DEF RequestOK, Heading
<1> QED
  BY <1>1 DEF OnWay, Begun, AccountOps, Checks

\* The steps of the other components.
LEMMA ForeignTurn ==
    ASSUME NEW p \in Slots, NEW ops, ops \cap AccountOps = {}, Turn(p, ops),
           UNCHANGED accountVars
    PROVE  AccountAway(p)
<1>1. req'[p].op \notin AccountOps
  BY IdleGone DEF Turn, Serves, Sent, Quiet, Applies, Ends, InHandler, Same
<1>2. RequestOK(req'[p])
  BY DEF Turn, FlowInv
<1> QED
  BY <1>1, <1>2, ForeignPlaces DEF AccountAway

\* Neither of them disturbs what the accounts know of their requests:
LEMMA AwayKeeps ==
    ASSUME AccountFlow, NEW p \in Slots, Others(p), crossed \subseteq crossed',
           AccountAway(p)
    PROVE  AccountFlow'
  BY AccountFlowKept, Gone DEF AccountAway

\* not the one, and not the other.
LEMMA EnterKeeps ==
    ASSUME AccountFlow, NEW p \in Slots, Others(p),
           crossed \subseteq crossed', AccountEnters(p)
    PROVE  AccountFlow'
<1>1. /\ req'[p].op = req[p].op /\ req'[p].case = req[p].case
      /\ req'[p].need = req[p].need /\ req'[p].arg = req[p].arg
  BY DEF AccountEnters, Keeps
<1>2. AccountOK(req'[p])
  BY <1>1 DEF AccountFlow, AccountOK, AccountEnters, AccountOps
<1> QED
  BY <1>1, <1>2, AccountFlowKept

\* The steps that all handlers share, as the accounts see them.
LEMMA SharedAccount ==
    ASSUME FlowInv, AccountFlow, NEW p \in Slots, RequestStep(p), UNCHANGED accountVars
    PROVE  AccountAway(p) \/ AccountEnters(p)
<1>1. FlowInv' /\ (Same(p) \/ req'[p] = Idle)
  BY RequestStepTurn DEF RequestTurn
<1>2. CASE req'[p] = Idle
  BY <1>2, IdleGone DEF AccountAway, Begun
<1>3. CASE req[p].op \notin AccountOps /\ Same(p)
  <2>1. req'[p].op \notin AccountOps
    BY <1>3 DEF Same
  <2>2. RequestOK(req'[p])
    BY <1>1 DEF FlowInv
  <2> QED
    BY <2>1, <2>2, ForeignPlaces DEF AccountAway
<1>4. CASE req[p].op \in AccountOps /\ req'[p] # Idle
  <2>1. req[p].at \notin Checks /\ req[p].need = "none"
    BY <1>4 DEF AccountFlow, AccountOK
  <2>2. LookupMiss(p) \/ LookupFails(p)
    BY <1>4, <2>1 DEF RequestStep, Replay, Record, RecordFails, CutShort, CheckCase,
       CheckMember, At, Checks, FlowInv
  <2>3. /\ req[p].at = "lookup" /\ req'[p].at = req[p].then /\ Keeps(p)
    BY <2>1, <2>2 DEF LookupMiss, LookupFails, At, FirstStep, FlowInv, Fields, Keeps
  <2>4. /\ req[p].op \notin {"register", "login"}
        /\ OnWay(req[p].op, req[p].then) /\ req[p].then \notin {"answer"} \cup Late
    BY <2>3 DEF FlowInv, RequestOK, WithoutToken, Heading
  <2>5. req[p].op = "change_password" => req[p].then = "verify_old"
    BY <2>3 DEF AccountFlow, AccountOK
  <2> QED
    BY <1>4, <2>3, <2>4, <2>5
    DEF AccountEnters, AccountOps, OnWay, Late, Checks, Begun
<1> QED
  BY <1>1, <1>2, <1>3, <1>4

-----------------------------------------------------------------------------
(***************************************************************************)
(* Tokens and passwords.  A version that has been used never comes back    *)
(* with another password: a token of the current version was given for the *)
(* current password, and so will be one that a login is about to give.     *)
(***************************************************************************)
Crossed == {"login", "change_password"} \in crossed

TokenOK(t) ==
    /\ t \in [user : Users, version : Nat, password : Passwords]
    /\ accounts[t.user].status = "active"
    /\ t.version <= accounts[t.user].version
    /\ Crossed \/ (t.version = accounts[t.user].version
                     => t.password = accounts[t.user].password)

HoldsOf(r, row) ==
    /\ r.at = "fetch_version" =>
          /\ row.status = "active"
          /\ Crossed \/ r.arg.password = row.password
    /\ r.at = "reset" =>
          /\ row.status = "active" /\ r.saw \in Nat /\ r.saw <= row.version
          /\ Crossed \/ (r.saw = row.version => r.arg.password = row.password)
    /\ r.at = "role_row" =>
          row.status = "active" /\ (row.version = 0 => r.arg.password = row.password)
    /\ r.op = "change_password" => row.status = "active"
    /\ r.at = "new_password" =>
          {"change_password"} \in crossed \/ r.arg.old = row.password

TokenInv ==
    /\ accounts \in [Users -> AccountRow]
    /\ \A t \in tokens : TokenOK(t)
    /\ \A p \in Slots : HoldsOf(req[p], accounts[req[p].user])

\* What an account has once it is there: its version rises with its password.
Grows ==
    /\ accounts' \in [Users -> AccountRow]
    /\ \A u \in Users : accounts[u].status = "active" =>
          /\ accounts'[u].status = "active"
          /\ accounts'[u].version >= accounts[u].version
          /\ accounts'[u].version = accounts[u].version
                => accounts'[u].password = accounts[u].password

\* Whose places those are.
LEMMA PlaceOp ==
    ASSUME NEW r, RequestOK(r)
    PROVE  /\ r.at \in Begun => r.op = "login"
           /\ r.at = "role_row" => r.op = "register"
           /\ r.at = "new_password" => r.op = "change_password"
           /\ r.op # "none" => r.user \in Users
<1>1. r.at \notin Checks \cup {"lookup"} => OnWay(r.op, r.at)
  BY DEF RequestOK, Heading
<1> QED
  BY <1>1 DEF OnWay, Begun, Checks, RequestOK

\* Nothing that p does to the accounts takes away what others rely on.
LEMMA TokenInvKept ==
    ASSUME FlowInv, AccountFlow, TokenInv, NEW p \in Slots, Others(p),
           crossed \subseteq crossed', Grows,
           \A u \in Users : \/ accounts'[u].password = accounts[u].password
                            \/ accounts[u].status # "active"
                            \/ req[p].op = "change_password",
           \A t \in tokens' \ tokens : TokenOK(t)',
           HoldsOf(req[p], accounts[req[p].user])'
    PROVE  TokenInv'
<1>1. ASSUME NEW t \in tokens PROVE TokenOK(t)'
  <2>1. TokenOK(t)
    BY DEF TokenInv
  <2>2. t.user \in Users /\ t.version \in Nat /\ accounts[t.user].version \in Nat
        /\ accounts'[t.user].version \in Nat
    BY <2>1 DEF TokenOK, TokenInv, Grows, AccountRow
  <2> QED
    BY <2>1, <2>2 DEF TokenOK, Grows, Crossed
<1>2. ASSUME NEW q \in Slots \ {p} PROVE HoldsOf(req[q], accounts[req[q].user])'
  <2>1. HoldsOf(req[q], accounts[req[q].user])
    BY DEF TokenInv
  <2>2. /\ req'[q].op = req[q].op /\ req'[q].at = req[q].at
        /\ req'[q].user = req[q].user /\ req'[q].arg = req[q].arg
        /\ req'[q].saw = req[q].saw
    BY OtherAccount
  <2>3. CASE req[q].at \in Begun \cup {"role_row", "new_password"}
             \/ req[q].op = "change_password"
    <3> DEFINE u == req[q].user
    <3>1. /\ u \in Users
          /\ req[q].at \in Begun => req[q].op = "login"
          /\ req[q].at = "role_row" => req[q].op = "register"
          /\ req[q].at = "new_password" => req[q].op = "change_password"
      BY <2>3, PlaceOp DEF FlowInv
    <3>2. accounts[u] \in AccountRow /\ accounts'[u] \in AccountRow
      BY <3>1 DEF TokenInv, Grows
    <3>3. accounts[u].version \in Nat /\ accounts'[u].version \in Nat
      BY <3>2 DEF AccountRow
    <3>4. accounts[u].status = "active" =>
             /\ accounts'[u].status = "active"
             /\ accounts'[u].version >= accounts[u].version
             /\ accounts'[u].version = accounts[u].version
                  => accounts'[u].password = accounts[u].password
             /\ \/ accounts'[u].password = accounts[u].password
                \/ req[p].op = "change_password"
      BY <3>1 DEF Grows
    <3>5. req[p].op = "change_password" =>
             /\ req[q].op = "login" => Crossed
             /\ req[q].op = "change_password" => {"change_password"} \in crossed
      BY DEF AccountFlow, AccountOps, Crossed
    <3> HIDE DEF u
    <3>6. req'[q].user = u /\ req[q].user = u
      BY <2>2 DEF u
    <3> QED
      BY <2>1, <2>2, <3>1, <3>3, <3>4, <3>5, <3>6 DEF HoldsOf, Crossed, Begun
  <2>4. CASE /\ req[q].at \notin Begun \cup {"role_row", "new_password"}
             /\ req[q].op # "change_password"
    BY <2>2, <2>4 DEF HoldsOf, Begun
  <2> QED
    BY <2>3, <2>4
<1> QED
  BY <1>1, <1>2 DEF TokenInv, Grows

\* A step that leaves the rows of the accounts alone.
LEMMA AccountsStill ==
    ASSUME FlowInv, AccountFlow, TokenInv, NEW p \in Slots, Others(p),
           crossed \subseteq crossed', accounts' = accounts, AccountOK(req'[p]),
           req'[p].op \in AccountOps => req'[p].op = req[p].op,
           \A t \in tokens' \ tokens : TokenOK(t),
           HoldsOf(req'[p], accounts[req'[p].user])
    PROVE  AccountFlow' /\ TokenInv'
<1>1. AccountFlow'
  BY AccountFlowKept
<1>2. Grows
  <2>1. \A u \in Users : accounts[u].version \in Nat
    BY DEF TokenInv, AccountRow
  <2> QED
    BY <2>1 DEF Grows, TokenInv
<1>3. \A t \in tokens' \ tokens : TokenOK(t)'
  BY DEF TokenOK, Crossed
<1>4. HoldsOf(req[p], accounts[req[p].user])'
  BY DEF HoldsOf, Crossed
<1> QED
  BY <1>1, <1>2, <1>3, <1>4, TokenInvKept

\* A request that is gone, or stands where it relies on nothing.
LEMMA HoldsNothing ==
    ASSUME NEW r, NEW row, r.at \notin Begun \cup {"role_row", "new_password"},
           r.op # "change_password"
    PROVE  HoldsOf(r, row)
  BY DEF HoldsOf, Begun

\* A step that is not for the accounts,
LEMMA AwayTokens ==
    ASSUME FlowInv, AccountFlow, TokenInv, NEW p \in Slots, Others(p),
           crossed \subseteq crossed', AccountAway(p)
    PROVE  AccountFlow' /\ TokenInv'
<1>1. /\ req'[p].op \notin AccountOps /\ accounts' = accounts /\ tokens' = tokens
      /\ req'[p].at \notin Begun \cup {"role_row", "new_password"}
  BY DEF AccountAway, accountVars
<1> QED
  BY <1>1, Gone, HoldsNothing, AccountsStill DEF AccountOps

\* and the look-up.
LEMMA EnterTokens ==
    ASSUME FlowInv, AccountFlow, TokenInv, NEW p \in Slots, Others(p),
           crossed \subseteq crossed', AccountEnters(p)
    PROVE  AccountFlow' /\ TokenInv'
<1>1. /\ req'[p].op = req[p].op /\ req'[p].case = req[p].case
      /\ req'[p].need = req[p].need /\ req'[p].arg = req[p].arg
      /\ req'[p].user = req[p].user
      /\ accounts' = accounts /\ tokens' = tokens
  BY DEF AccountEnters, Keeps, accountVars
<1>2. AccountOK(req'[p])
  BY <1>1 DEF AccountFlow, AccountOK, AccountEnters, AccountOps
<1>3. HoldsOf(req[p], accounts[req[p].user])
  BY DEF TokenInv
<1>4. HoldsOf(req'[p], accounts[req'[p].user])
  BY <1>1, <1>3 DEF HoldsOf, AccountEnters, Begun
<1> QED
  BY <1>1, <1>2, <1>4, AccountsStill

\* A handler that leaves, to a free slot or to its record.
LEMMA LeavesOK ==
    ASSUME NEW p \in Slots, AccountOK(req[p]), RequestOK(req[p]), Leaves(p)
    PROVE  /\ AccountOK(req'[p]) /\ req'[p].at \in {"idle", "record"}
           /\ \/ req'[p].op = "none"
              \/ req'[p].op = req[p].op /\ req'[p].user = req[p].user
  BY DEF AccountOK, RequestOK, Leaves, Moves, Keeps, Idle, Checks, WithoutToken,
     AccountOps

\* The handlers of accounts.
LEMMA AccountTokens ==
    ASSUME FlowInv, AccountFlow, TokenInv, NEW p \in Slots, AccountStep(p)
    PROVE  AccountFlow' /\ TokenInv'
<1>1. Others(p) /\ crossed \subseteq crossed' /\ FlowInv'
  BY AccountTurn DEF Turn
<1>2. /\ AccountOK(req[p]) /\ HoldsOf(req[p], accounts[req[p].user])
      /\ RequestOK(req[p])
  BY DEF AccountFlow, TokenInv, FlowInv
<1>3. ASSUME NEW op \in AccountOps, NEW u \in Senders(p, op), NEW arg, NEW place,
             SendAccount(p, op, u, arg, place), place \notin Begun \cup Checks,
             place \notin {"role_row", "new_password"},
             AccountOK(req'[p]),
             op = "change_password" => accounts[u].status = "active"
      PROVE  AccountFlow' /\ TokenInv'
  <2>1. /\ req'[p].op = op /\ req'[p].user = u /\ UNCHANGED accountVars
        /\ req'[p].at \in {place, "lookup"}
    BY <1>3, SendAccountMoves
  <2>2. AccountFlow'
    BY <1>1, <1>3, SendAccountKeeps
  <2>3. accounts' = accounts /\ tokens' = tokens
    BY <2>1 DEF accountVars
  <2>4. Grows
    <3>1. \A v \in Users : accounts[v].version \in Nat
      BY DEF TokenInv, AccountRow
    <3> QED
      BY <2>3, <3>1 DEF Grows, TokenInv
  <2>5. HoldsOf(req[p], accounts[req[p].user])'
    BY <1>3, <2>1, <2>3 DEF HoldsOf, Begun
  <2> QED
    BY <1>1, <2>2, <2>3, <2>4, <2>5, TokenInvKept
<1>4. CASE SendRegister(p)
  <2>1. PICK u \in Senders(p, "register"), w \in Passwords :
           SendAccount(p, "register", u, [password |-> w], "count_users")
    BY <1>4 DEF SendRegister
  <2>2. AccountOK(req'[p])
    BY <2>1, SendAccountMoves DEF AccountOK, AccountOps, Checks, WithoutToken
  <2> QED
    BY <1>3, <2>1, <2>2 DEF AccountOps, Begun, Checks
<1>5. CASE SendLogin(p)
  <2>1. PICK u \in Senders(p, "login"), i \in Idents, w \in Passwords :
           SendAccount(p, "login", u, [ident |-> i, password |-> w], "count_attempt")
    BY <1>5 DEF SendLogin
  <2>2. AccountOK(req'[p])
    BY <2>1, SendAccountMoves DEF AccountOK, AccountOps, Checks, WithoutToken
  <2> QED
    BY <1>3, <2>1, <2>2 DEF AccountOps, Begun, Checks
<1>6. CASE SendRefresh(p)
  <2>1. PICK u \in Senders(p, "refresh"), t \in tokens :
           SendAccount(p, "refresh", u, [token |-> t], "refresh")
    BY <1>6 DEF SendRefresh
  <2>2. AccountOK(req'[p])
    BY <2>1, SendAccountMoves DEF AccountOK, AccountOps, Checks
  <2> QED
    BY <1>3, <2>1, <2>2 DEF AccountOps, Begun, Checks
<1>7. CASE SendLogout(p)
  <2>1. PICK u \in Senders(p, "logout") : SendAccount(p, "logout", u, Nothing, "bump")
    BY <1>7 DEF SendLogout
  <2>2. AccountOK(req'[p])
    BY <2>1, SendAccountMoves DEF AccountOK, AccountOps, Checks
  <2> QED
    BY <1>3, <2>1, <2>2 DEF AccountOps, Begun, Checks
<1>8. CASE SendChangePassword(p)
  <2>1. PICK u \in Senders(p, "change_password"), old \in Passwords, new \in Passwords :
           /\ accounts[u].status = "active"
           /\ SendAccount(p, "change_password", u, [old |-> old, new |-> new],
                          "verify_old")
    BY <1>8 DEF SendChangePassword
  <2>2. AccountOK(req'[p])
    BY <2>1, SendAccountMoves DEF AccountOK, AccountOps, Checks
  <2> QED
    BY <1>3, <2>1, <2>2 DEF AccountOps, Begun, Checks
<1>9. CASE CountUsers(p)
  <2>1. /\ req[p].op = "register" /\ accounts' = accounts /\ tokens' = tokens
        /\ Moves(p, "user_row") \/ Leaves(p)
    BY <1>9, Standing, GotoMoves, RefuseLeaves
    DEF CountUsers, accountVars, OnWay, Late, Checks
  <2>2. AccountOK(req'[p]) /\ req'[p].at \notin Begun \cup {"role_row", "new_password"}
        /\ req'[p].op \in {"none", "register"}
    BY <1>2, <2>1, LeavesOK DEF AccountOK, AccountOps, Moves, Keeps, Checks, Begun
  <2> QED
    BY <1>1, <2>1, <2>2, HoldsNothing, AccountsStill DEF AccountOps
<1>10. CASE InsertUser(p)
  <2>1. req[p].op = "register" /\ req[p].user \in Users
    BY <1>10, Standing, PlaceOp DEF InsertUser, OnWay, Late, Checks, FlowInv
  <2>2. CASE accounts[req[p].user].status # "none"
    <3>1. accounts' = accounts /\ tokens' = tokens /\ req'[p] = Idle
      BY <1>10, <2>2, RefuseLeaves DEF InsertUser
    <3>2. /\ req'[p].op = "none" /\ req'[p].op \notin AccountOps
          /\ req'[p].at \notin Begun \cup {"role_row", "new_password"}
      BY <3>1 DEF Idle, AccountOps, Begun
    <3> QED
      BY <1>1, <3>1, <3>2, Gone, HoldsNothing, AccountsStill
  <2>3. CASE accounts[req[p].user].status = "none"
    <3> DEFINE u == req[p].user
               row == [status |-> "active", password |-> req[p].arg.password,
                       version |-> 0, role |-> FALSE]
    <3>1. /\ accounts' = [accounts EXCEPT ![u] = row] /\ tokens' = tokens
          /\ Moves(p, "role_row")
      BY <1>10, <2>3, CarryMoves DEF InsertUser
    <3>2. AccountOK(req'[p])
      BY <1>2, <2>1, <3>1 DEF AccountOK, AccountOps, Moves, Keeps, Checks
    <3>3. row \in AccountRow /\ u \in Users
      BY <1>2, <2>1 DEF AccountRow, AccountOK
    <3>4. accounts'[u] = row /\ \A v \in Users \ {u} : accounts'[v] = accounts[v]
      BY <3>1, <3>3 DEF TokenInv
    <3>5. Grows
      <4>1. accounts' \in [Users -> AccountRow]
        BY <3>1, <3>3 DEF TokenInv
      <4>2. \A v \in Users : accounts[v].version \in Nat
        BY DEF TokenInv, AccountRow
      <4> QED
        BY <2>3, <3>4, <4>1, <4>2 DEF Grows
    <3>6. HoldsOf(req[p], accounts[req[p].user])'
      BY <2>1, <3>1, <3>4 DEF HoldsOf, Moves, Keeps
    <3>7. AccountFlow'
      BY <1>1, <2>1, <3>1, <3>2, AccountFlowKept DEF Moves, Keeps
    <3> QED
      BY <1>1, <2>3, <3>1, <3>4, <3>5, <3>6, <3>7, TokenInvKept
  <2> QED
    BY <2>2, <2>3
<1>11. CASE InsertRole(p)
  <2> DEFINE u == req[p].user
             t == Token(u, 0, req[p].arg.password)
  <2>1. req[p].op = "register" /\ u \in Users /\ req[p].at = "role_row"
    BY <1>11, Standing, PlaceOp DEF InsertRole, At, OnWay, Late, Checks, FlowInv
  <2>2. /\ accounts' = [accounts EXCEPT ![u].role = TRUE]
        /\ tokens' = tokens \cup {t} /\ Leaves(p)
    BY <1>11, SucceedLeaves DEF InsertRole
  <2>3. /\ accounts' \in [Users -> AccountRow]
        /\ \A v \in Users : /\ accounts'[v].status = accounts[v].status
                            /\ accounts'[v].version = accounts[v].version
                            /\ accounts'[v].password = accounts[v].password
                            /\ accounts[v].version \in Nat
    BY <2>1, <2>2 DEF TokenInv, AccountRow
  <2>4. Grows
    BY <2>3 DEF Grows
  <2>5. ASSUME NEW x, x = t PROVE TokenOK(x)'
    <3>1. /\ x.user = u /\ x.version = 0 /\ x.password = req[p].arg.password
          /\ x \in [user : Users, version : Nat, password : Passwords]
      BY <1>2, <2>1, <2>5 DEF Token, AccountOK
    <3>2. /\ accounts[u].status = "active"
          /\ accounts[u].version = 0 => req[p].arg.password = accounts[u].password
      BY <1>2, <2>1 DEF HoldsOf
    <3>3. /\ u \in Users
          /\ accounts'[u].status = accounts[u].status
          /\ accounts'[u].version = accounts[u].version
          /\ accounts'[u].password = accounts[u].password
          /\ accounts[u].version \in Nat
      BY <2>1, <2>3
    <3> HIDE DEF t, u
    <3> QED
      BY <3>1, <3>2, <3>3 DEF TokenOK
  <2>6. /\ AccountOK(req'[p]) /\ req'[p].at \in {"idle", "record"}
        /\ req'[p].op \in {"none", "register"}
    BY <1>2, <2>1, <2>2, LeavesOK
  <2>7. HoldsOf(req[p], accounts[req[p].user])'
    BY <2>6 DEF HoldsOf
  <2>8. AccountFlow'
    BY <1>1, <2>1, <2>6, AccountFlowKept DEF AccountOps
  <2> QED
    BY <1>1, <2>2, <2>3, <2>4, <2>5, <2>7, <2>8, TokenInvKept
<1>12. CASE CountAttempt(p)
  <2>1. /\ req[p].op = "login" /\ accounts' = accounts /\ tokens' = tokens
        /\ Moves(p, "fetch_user") \/ Leaves(p)
    BY <1>12, Standing, GotoMoves, RefuseLeaves
    DEF CountAttempt, OnWay, Late, Checks
  <2>2. AccountOK(req'[p])
        /\ req'[p].at \notin {"fetch_version", "reset", "role_row", "new_password"}
        /\ req'[p].op \in {"none", "login"}
    BY <1>2, <2>1, LeavesOK DEF AccountOK, AccountOps, Moves, Keeps, Checks, Begun
  <2>3. HoldsOf(req'[p], accounts[req'[p].user])
    BY <2>2 DEF HoldsOf
  <2> QED
    BY <1>1, <2>1, <2>2, <2>3, AccountsStill DEF AccountOps
<1>13. CASE CountFails(p)
  <2>1. /\ req[p].op = "login" /\ accounts' = accounts /\ tokens' = tokens
        /\ Moves(p, "fetch_user") \/ Leaves(p)
    BY <1>13, Standing DEF CountFails, OnWay, Late, Checks, Moves, Keeps, FlowInv,
       Fields
  <2>2. AccountOK(req'[p])
        /\ req'[p].at \notin {"fetch_version", "reset", "role_row", "new_password"}
        /\ req'[p].op \in {"none", "login"}
    BY <1>2, <2>1, LeavesOK DEF AccountOK, AccountOps, Moves, Keeps, Checks, Begun
  <2>3. HoldsOf(req'[p], accounts[req'[p].user])
    BY <2>2 DEF HoldsOf
  <2> QED
    BY <1>1, <2>1, <2>2, <2>3, AccountsStill DEF AccountOps
<1>14. CASE FetchUser(p)
  <2>1. /\ req[p].op = "login" /\ accounts' = accounts /\ tokens' = tokens
        /\ \/ /\ Moves(p, "fetch_version")
              /\ accounts[req[p].user].status = "active"
              /\ accounts[req[p].user].password = req[p].arg.password
           \/ Leaves(p)
    BY <1>14, Standing, GotoMoves, RefuseLeaves DEF FetchUser, OnWay, Late, Checks
  <2>2. /\ AccountOK(req'[p])
        /\ req'[p].op \in {"none", "login"}
    BY <1>2, <2>1, LeavesOK DEF AccountOK, AccountOps, Moves, Keeps, Checks, Begun
  <2>3. HoldsOf(req'[p], accounts[req'[p].user])
    BY <1>2, <2>1, <2>2, LeavesOK DEF HoldsOf, Moves, Keeps
  <2> QED
    BY <1>1, <2>1, <2>2, <2>3, AccountsStill DEF AccountOps
<1>15. CASE FetchVersion(p)
  <2>1. /\ req[p].op = "login" /\ accounts' = accounts /\ tokens' = tokens
        /\ req[p].at = "fetch_version" /\ Moves(p, "reset")
        /\ req'[p].saw = accounts[req[p].user].version
        /\ req[p].user \in Users
    BY <1>15, <1>2, Standing, LearnMoves, PlaceOp
    DEF FetchVersion, accountVars, At, OnWay, Late, Checks
  <2>2. AccountOK(req'[p]) /\ req'[p].op = "login"
    BY <1>2, <2>1 DEF AccountOK, AccountOps, Moves, Keeps, Checks, Begun
  <2>3. accounts[req[p].user].version \in Nat
    BY <2>1 DEF TokenInv, AccountRow
  <2>4. HoldsOf(req'[p], accounts[req'[p].user])
    BY <1>2, <2>1, <2>2, <2>3 DEF HoldsOf, Moves, Keeps
  <2> QED
    BY <1>1, <2>1, <2>2, <2>4, AccountsStill DEF AccountOps
<1>16. CASE Reset(p)
  <2> DEFINE t == Token(req[p].user, req[p].saw, req[p].arg.password)
  <2>1. /\ req[p].op = "login" /\ accounts' = accounts /\ tokens' = tokens \cup {t}
        /\ req[p].at = "reset" /\ Leaves(p) /\ req[p].user \in Users
    BY <1>16, <1>2, Standing, SucceedLeaves, PlaceOp
    DEF Reset, At, OnWay, Late, Checks
  <2>2. TokenOK(t)
    BY <1>2, <2>1 DEF TokenOK, Token, HoldsOf, AccountOK
  <2>3. /\ AccountOK(req'[p]) /\ req'[p].op \in {"none", "login"}
        /\ req'[p].at \in {"idle", "record"}
    BY <1>2, <2>1, LeavesOK
  <2>4. HoldsOf(req'[p], accounts[req'[p].user])
    BY <2>3 DEF HoldsOf
  <2> QED
    BY <1>1, <2>1, <2>2, <2>3, <2>4, AccountsStill DEF AccountOps
<1>17. CASE ResetFails(p)
  <2> DEFINE t == Token(req[p].user, req[p].saw, req[p].arg.password)
  <2>1. /\ req[p].op = "login" /\ accounts' = accounts /\ tokens' = tokens \cup {t}
        /\ req[p].at = "reset" /\ Leaves(p) /\ req[p].user \in Users
    BY <1>17, <1>2, Standing, AnsweredLeaves, PlaceOp
    DEF ResetFails, At, OnWay, Late, Checks
  <2>2. TokenOK(t)
    BY <1>2, <2>1 DEF TokenOK, Token, HoldsOf, AccountOK
  <2>3. /\ AccountOK(req'[p]) /\ req'[p].op \in {"none", "login"}
        /\ req'[p].at \in {"idle", "record"}
    BY <1>2, <2>1, LeavesOK
  <2>4. HoldsOf(req'[p], accounts[req'[p].user])
    BY <2>3 DEF HoldsOf
  <2> QED
    BY <1>1, <2>1, <2>2, <2>3, <2>4, AccountsStill DEF AccountOps
<1>18. CASE Refresh(p)
  <2>1. /\ req[p].op = "refresh" /\ accounts' = accounts /\ tokens' = tokens
        /\ Leaves(p)
    BY <1>18, Standing, SucceedLeaves, RefuseLeaves
    DEF Refresh, accountVars, OnWay, Late, Checks
  <2>2. /\ AccountOK(req'[p]) /\ req'[p].op \in {"none", "refresh"}
        /\ req'[p].at \in {"idle", "record"}
    BY <1>2, <2>1, LeavesOK
  <2>3. HoldsOf(req'[p], accounts[req'[p].user])
    BY <2>2 DEF HoldsOf
  <2> QED
    BY <1>1, <2>1, <2>2, <2>3, AccountsStill DEF AccountOps
<1>19. CASE BumpVersion(p)
  <2> DEFINE u == req[p].user
  <2>1. /\ req[p].op = "logout" /\ u \in Users /\ tokens' = tokens /\ Leaves(p)
        /\ accounts' = [accounts EXCEPT ![u].version = @ + 1]
    BY <1>19, <1>2, Standing, SucceedLeaves, PlaceOp
    DEF BumpVersion, OnWay, Late, Checks
  <2>2. /\ accounts' \in [Users -> AccountRow]
        /\ \A v \in Users : accounts[v].version \in Nat
        /\ \A v \in Users : accounts'[v].status = accounts[v].status
        /\ accounts'[u].version = accounts[u].version + 1
        /\ \A v \in Users \ {u} : accounts'[v] = accounts[v]
        /\ \A v \in Users : accounts'[v].password = accounts[v].password
    BY <1>2, <2>1 DEF TokenInv, AccountRow
  <2>3. Grows
    BY <2>2 DEF Grows
  <2>4. /\ AccountOK(req'[p]) /\ req'[p].at \in {"idle", "record"}
        /\ \/ req'[p].op = "none"
           \/ req'[p].op = "logout" /\ req'[p].user = u
    BY <1>2, <2>1, LeavesOK
  <2>5. HoldsOf(req[p], accounts[req[p].user])'
    BY <1>2, <2>1, <2>2, <2>4 DEF HoldsOf
  <2>6. AccountFlow'
    BY <1>1, <2>1, <2>4, AccountFlowKept DEF AccountOps
  <2> QED
    BY <1>1, <2>1, <2>2, <2>3, <2>5, <2>6, TokenInvKept
<1>20. CASE VerifyOld(p)
  <2>1. /\ req[p].op = "change_password" /\ accounts' = accounts /\ tokens' = tokens
        /\ \/ /\ Moves(p, "new_password")
              /\ accounts[req[p].user].password = req[p].arg.old
           \/ req'[p] = Idle
    BY <1>20, Standing, GotoMoves, RefuseLeaves
    DEF VerifyOld, accountVars, OnWay, Late, Checks
  <2>2. AccountOK(req'[p]) /\ req'[p].op \in {"none", "change_password"}
    BY <1>2, <2>1 DEF AccountOK, AccountOps, Moves, Keeps, Checks, Idle
  <2>3. HoldsOf(req'[p], accounts[req'[p].user])
    BY <1>2, <2>1 DEF HoldsOf, Moves, Keeps, Idle
  <2> QED
    BY <1>1, <2>1, <2>2, <2>3, AccountsStill DEF AccountOps
<1>21. CASE WritePassword(p)
  <2> DEFINE u == req[p].user
  <2>1. /\ req[p].op = "change_password" /\ u \in Users /\ tokens' = tokens /\ Leaves(p)
        /\ accounts' = [accounts EXCEPT ![u].password = req[p].arg.new,
                                        ![u].version = @ + 1]
    BY <1>21, <1>2, Standing, SucceedLeaves, PlaceOp
    DEF WritePassword, OnWay, Late, Checks
  <2>2. /\ accounts' \in [Users -> AccountRow]
        /\ \A v \in Users : accounts[v].version \in Nat
        /\ \A v \in Users : accounts'[v].status = accounts[v].status
        /\ accounts'[u].version = accounts[u].version + 1
        /\ \A v \in Users \ {u} : accounts'[v] = accounts[v]
    BY <1>2, <2>1 DEF TokenInv, AccountRow, AccountOK
  <2>3. Grows
    BY <2>2 DEF Grows
  <2>4. /\ AccountOK(req'[p]) /\ req'[p].at \in {"idle", "record"}
        /\ \/ req'[p].op = "none"
           \/ req'[p].op = "change_password" /\ req'[p].user = u
    BY <1>2, <2>1, LeavesOK
  <2>5. HoldsOf(req[p], accounts[req[p].user])'
    BY <1>2, <2>1, <2>2, <2>4 DEF HoldsOf
  <2>6. AccountFlow'
    BY <1>1, <2>1, <2>4, AccountFlowKept DEF AccountOps
  <2> QED
    BY <1>1, <2>1, <2>2, <2>3, <2>5, <2>6, TokenInvKept
<1> QED
  BY <1>4, <1>5, <1>6, <1>7, <1>8, <1>9, <1>10, <1>11, <1>12, <1>13, <1>14, <1>15,
     <1>16, <1>17, <1>18, <1>19, <1>20, <1>21 DEF AccountStep

\* Every step of the API, as the accounts see it.
AccountView ==
    \/ \E p \in Slots : AccountStep(p)
    \/ \E p \in Slots : /\ Others(p) /\ crossed \subseteq crossed'
                        /\ AccountAway(p) \/ AccountEnters(p)
    \/ WindowStep
    \/ UNCHANGED <<req, crossed, accountVars>>

\* There is no step but these.
LEMMA AccountViews ==
    ASSUME FlowInv, AccountFlow, [Next]_vars
    PROVE  AccountView
<1>1. ASSUME NEW p \in Slots, RequestStep(p), UNCHANGED accountVars
      PROVE  AccountView
  BY <1>1, RequestStepTurn, SharedAccount DEF RequestTurn, AccountView
<1>2. ASSUME NEW p \in Slots, NEW ops, ops \cap AccountOps = {}, Turn(p, ops),
             UNCHANGED accountVars
      PROVE  AccountView
  BY <1>2, ForeignTurn DEF Turn, AccountView
<1>3. ASSUME NEW p \in Slots,
             CaseStep(p) \/ PersonStep(p) \/ TimelineStep(p) \/ AgentStep(p),
             UNCHANGED accountVars
      PROVE  AccountView
  <2>1. /\ CaseOps \cap AccountOps = {} /\ PersonOps \cap AccountOps = {}
        /\ TimelineOps \cap AccountOps = {} /\ AgentOps \cap AccountOps = {}
    BY DEF CaseOps, PersonOps, TimelineOps, AgentOps, AccountOps
  <2> QED
    BY <1>2, <1>3, <2>1, CaseTurn, PersonTurn, TimelineTurn, AgentTurn
<1>4. CASE AllServed \/ UNCHANGED vars
  BY <1>4 DEF AllServed, vars, requestVars, AccountView
<1>5. CASE WindowStep
  BY <1>5 DEF AccountView
<1>6. ASSUME NEW p \in Slots, AccountStep(p)
      PROVE  AccountView
  BY <1>6 DEF AccountView
<1> QED
  BY <1>1, <1>3, <1>4, <1>5, <1>6 DEF Next

\* In the beginning there are no tokens.
LEMMA TokensInit == WorkInit => AccountFlow /\ TokenInv
<1> SUFFICES ASSUME WorkInit PROVE AccountFlow /\ TokenInv
  OBVIOUS
<1>1. /\ req = [p \in Slots |-> Idle] /\ tokens = {} /\ menu \in Menus
      /\ accounts \in AccountSeeds[menu.about]
  BY DEF WorkInit, RequestInit, AccountInit
<1>2. accounts \in [Users -> AccountRow]
  BY <1>1, AccountsAssumption
<1>3. /\ Idle.op = "none" /\ Idle.at = "idle"
  BY DEF Idle
<1> QED
  BY <1>1, <1>2, <1>3, HoldsNothing, Gone
  DEF AccountFlow, TokenInv, AccountOK, AccountOps, Begun

\* Every step keeps the tokens and the passwords together.
LEMMA TokensNext ==
    ASSUME FlowInv, AccountFlow, TokenInv, [Next]_vars
    PROVE  AccountFlow' /\ TokenInv'
<1>1. CASE WindowStep \/ UNCHANGED <<req, crossed, accountVars>>
  <2>1. UNCHANGED <<req, crossed, accounts, tokens>>
    BY <1>1 DEF WindowStep, WindowEnds, accountVars
  <2> QED
    BY <2>1 DEF AccountFlow, TokenInv, TokenOK, HoldsOf, Crossed
<1> QED
  BY <1>1, AccountViews, AccountTokens, AwayTokens, EnterTokens DEF AccountView

\* A token that is accepted proves the password the account has now.
THEOREM TokensProvePasswords == Spec => []TokenProvesPassword
<1>1. FlowInv /\ AccountFlow /\ TokenInv /\ [Next]_vars
         => (FlowInv /\ AccountFlow /\ TokenInv)'
  BY FlowStep, TokensNext
<1>2. TokenInv => TokenProvesPassword
  BY DEF TokenInv, TokenOK, TokenProvesPassword, Accepts, Crossed
<1> QED
  BY <1>1, <1>2, FlowInit, TokensInit, PTL DEF Spec

\* Only WritePassword changes the password of an account that is there.
LEMMA PasswordWrites ==
    ASSUME FlowInv, TokenInv, NEW p \in Slots, AccountStep(p), NEW u \in Users,
           accounts[u].status = "active",
           accounts'[u].password # accounts[u].password
    PROVE  WritePassword(p) /\ req[p].user = u
<1>1. CASE InsertUser(p) \/ InsertRole(p) \/ BumpVersion(p)
  <2>1. accounts'[u].password = accounts[u].password
    BY <1>1 DEF InsertUser, InsertRole, BumpVersion, TokenInv, AccountRow
  <2> QED
    BY <2>1
<1>2. CASE WritePassword(p)
  BY <1>2 DEF WritePassword, TokenInv
<1>3. CASE ~(\/ InsertUser(p) \/ InsertRole(p) \/ BumpVersion(p)
             \/ WritePassword(p))
  <2>1. accounts' = accounts
    BY <1>3 DEF AccountStep, SendRegister, SendLogin, SendRefresh, SendLogout,
       SendChangePassword, SendAccount, CountUsers, CountAttempt, CountFails,
       FetchUser, FetchVersion, Reset, ResetFails, Refresh, VerifyOld, accountVars
  <2> QED
    BY <2>1
<1> QED
  BY <1>1, <1>2, <1>3

\* A password changes only at the hand of a request that knew it.
THEOREM ChangesKnowPasswords == Spec => ChangeKnowsPassword
<1> DEFINE Step ==
      \A u \in Users :
         (/\ accounts[u].status = "active"
          /\ accounts'[u].password # accounts[u].password) =>
            \/ {"change_password"} \in crossed
            \/ \E p \in Slots : /\ At(p, "new_password") /\ req[p].user = u
                                /\ req[p].arg.old = accounts[u].password
<1>1. FlowInv /\ AccountFlow /\ TokenInv /\ [Next]_vars
         => (FlowInv /\ AccountFlow /\ TokenInv)'
  BY FlowStep, TokensNext
<1>2. ASSUME FlowInv, AccountFlow, TokenInv, [Next]_vars
      PROVE  Step
  <2> SUFFICES ASSUME NEW u \in Users, accounts[u].status = "active",
                      accounts'[u].password # accounts[u].password
               PROVE  \/ {"change_password"} \in crossed
                      \/ \E p \in Slots : /\ At(p, "new_password") /\ req[p].user = u
                                          /\ req[p].arg.old = accounts[u].password
    OBVIOUS
  <2>1. PICK p \in Slots : AccountStep(p)
    BY <1>2, AccountViews
    DEF AccountView, AccountAway, AccountEnters, accountVars, WindowStep, WindowEnds
  <2>2. WritePassword(p) /\ req[p].user = u
    BY <1>2, <2>1, PasswordWrites
  <2> QED
    BY <1>2, <2>2 DEF WritePassword, At, TokenInv, HoldsOf
<1>3. FlowInv /\ AccountFlow /\ TokenInv /\ [Next]_vars => [Step]_<<accounts, req>>
  BY <1>2
<1> QED
  BY <1>1, <1>3, FlowInit, TokensInit, PTL DEF Spec, ChangeKnowsPassword

-----------------------------------------------------------------------------
(***************************************************************************)
(* Attempts to log in.  Those that have been counted and have not yet      *)
(* looked at the password are among those that their counter counts.       *)
(***************************************************************************)
Trying(k) == {q \in Slots : req[q].at = "fetch_user" /\ Key(q) = k}

Counted(k) ==
    \/ k \in straddled
    \/ /\ guesses[k] + Cardinality(Trying(k)) <= counters[k]
       /\ guesses[k] + Cardinality(Trying(k)) <= MaxAttempts

GuessInv ==
    /\ counters \in [CounterKeys -> Nat] /\ guesses \in [CounterKeys -> Nat]
    /\ \A k \in CounterKeys : Counted(k)

\* They are as many as there are slots at most.
LEMMA TryingSize ==
    ASSUME NEW k
    PROVE  IsFiniteSet(Trying(k)) /\ Cardinality(Trying(k)) \in Nat
<1>1. Trying(k) \in SUBSET Slots
  BY DEF Trying
<1>2. IsFiniteSet(Slots)
  BY WorkspaceAssumption
<1>3. IsFiniteSet(Trying(k))
  BY <1>1, <1>2, FS_Subset
<1> QED
  BY <1>3, FS_CardinalityType

\* Only p comes to look at a password in a step of p, or has done so.
LEMMA TryingKept ==
    ASSUME NEW p \in Slots, Others(p), NEW k
    PROVE  /\ Trying(k)' \ {p} = Trying(k) \ {p}
           /\ req'[p].at # "fetch_user" => Trying(k)' = Trying(k) \ {p}
           /\ req'[p].at # "fetch_user" /\ req[p].at # "fetch_user"
                 => Trying(k)' = Trying(k)
<1>1. \A q \in Slots \ {p} : req'[q].at = req[q].at /\ Key(q)' = Key(q)
  BY OtherAccount DEF Key
<1> QED
  BY <1>1 DEF Trying

\* A step that only takes p away, or leaves the counters as they are.
LEMMA GuessKept ==
    ASSUME GuessInv, NEW p \in Slots, Others(p), req'[p].at # "fetch_user",
           counters' = counters, guesses' = guesses, straddled \subseteq straddled'
    PROVE  GuessInv'
<1>1. ASSUME NEW k \in CounterKeys PROVE Counted(k)'
  <2>1. Trying(k)' = Trying(k) \ {p}
    BY TryingKept
  <2>2. Cardinality(Trying(k) \ {p}) <= Cardinality(Trying(k))
        /\ Cardinality(Trying(k) \ {p}) \in Nat /\ Cardinality(Trying(k)) \in Nat
    <3>1. /\ IsFiniteSet(Trying(k)) /\ Cardinality(Trying(k)) \in Nat
          /\ IsFiniteSet(Trying(k) \ {p})
      BY TryingSize, FS_RemoveElement
    <3>2. Cardinality(Trying(k) \ {p}) \in Nat
      BY <3>1, FS_CardinalityType
    <3> QED
      BY <3>1, <3>2, FS_RemoveElement
  <2>3. Counted(k) /\ guesses[k] \in Nat /\ counters[k] \in Nat /\ MaxAttempts \in Nat
    BY AccountsAssumption DEF GuessInv
  <2> QED
    BY <2>1, <2>2, <2>3 DEF Counted
<1> QED
  BY <1>1 DEF GuessInv

\* Nobody tries.
LEMMA NobodyTries == Cardinality({}) = 0
  BY FS_EmptySet

\* A counter that starts again, with nobody under the old one or else noted.
LEMMA GuessRestart ==
    ASSUME GuessInv, NEW k \in CounterKeys, Restart(k), straddled \subseteq straddled',
           k \in straddled' \/ Trying(k)' = {},
           \A j \in CounterKeys \ {k} : Trying(j)' = Trying(j)
    PROVE  GuessInv'
<1>1. /\ counters' \in [CounterKeys -> Nat] /\ guesses' \in [CounterKeys -> Nat]
      /\ counters'[k] = 0 /\ guesses'[k] = 0
      /\ \A j \in CounterKeys \ {k} :
            counters'[j] = counters[j] /\ guesses'[j] = guesses[j]
  BY DEF Restart, GuessInv
<1>2. Counted(k)'
  <2>1. k \in straddled' \/ Cardinality(Trying(k)') = 0
    BY NobodyTries
  <2>2. guesses'[k] = 0 /\ counters'[k] = 0 /\ 0 <= MaxAttempts
    BY <1>1, AccountsAssumption
  <2> QED
    BY <2>1, <2>2 DEF Counted
<1>3. ASSUME NEW j \in CounterKeys \ {k} PROVE Counted(j)'
  BY <1>1 DEF Counted, GuessInv
<1> QED
  BY <1>1, <1>2, <1>3 DEF GuessInv

\* An attempt has its counter.
LEMMA KeyKnown ==
    ASSUME AccountFlow, FlowInv, NEW p \in Slots, req[p].op = "login"
    PROVE  Key(p) \in CounterKeys
<1>1. req[p].user \in Users /\ req[p].arg.ident \in Idents
  BY DEF AccountFlow, AccountOK, FlowInv, RequestOK
<1> QED
  BY <1>1 DEF Key, CounterKeys

\* An attempt is counted, unless there are too many.
LEMMA GuessCount ==
    ASSUME FlowInv, AccountFlow, GuessInv, NEW p \in Slots, Others(p), CountAttempt(p)
    PROVE  GuessInv'
<1>0. PICK k : k = Key(p)
  OBVIOUS
<1>1. /\ req[p].op = "login" /\ req[p].at = "count_attempt"
      /\ \/ counters'[k] > MaxAttempts /\ req'[p].at = "idle"
         \/ ~(counters'[k] > MaxAttempts) /\ Moves(p, "fetch_user")
      /\ counters' = [counters EXCEPT ![k] = @ + 1]
      /\ guesses' = guesses /\ straddled' = straddled
  BY <1>0, Standing, GotoMoves, RefuseLeaves
  DEF CountAttempt, At, OnWay, Late, Checks, Idle
<1>2. k \in CounterKeys
  BY <1>0, <1>1, KeyKnown
<1>3. /\ counters' \in [CounterKeys -> Nat] /\ counters'[k] = counters[k] + 1
      /\ counters[k] \in Nat /\ guesses[k] \in Nat /\ MaxAttempts \in Nat
      /\ \A j \in CounterKeys \ {k} : counters'[j] = counters[j]
  BY <1>1, <1>2, AccountsAssumption DEF GuessInv
<1>4. /\ Trying(k)' \ {p} = Trying(k) \ {p} /\ p \notin Trying(k)
      /\ \A j \in CounterKeys \ {k} : Trying(j)' = Trying(j)
  <2>1. p \notin Trying(k)
    BY <1>1 DEF Trying
  <2>2. ASSUME NEW j \in CounterKeys \ {k} PROVE Trying(j)' = Trying(j)
    <3>1. p \notin Trying(j) /\ p \notin Trying(j)'
      BY <1>0, <1>1 DEF Trying, Moves, Keeps, Key
    <3> QED
      BY <3>1, TryingKept
  <2> QED
    BY <2>1, <2>2, TryingKept
<1>5. ASSUME NEW j \in CounterKeys \ {k} PROVE Counted(j)'
  BY <1>1, <1>3, <1>4 DEF Counted, GuessInv
<1>6. Counted(k)'
  <2>1. Counted(k) /\ Cardinality(Trying(k)) \in Nat
    BY <1>2, TryingSize DEF GuessInv
  <2>2. CASE ~(counters'[k] > MaxAttempts)
    <3>1. Trying(k)' \subseteq Trying(k) \cup {p}
      BY <1>4
    <3>2. Cardinality(Trying(k)') <= Cardinality(Trying(k)) + 1
          /\ Cardinality(Trying(k)') \in Nat
      <4>1. IsFiniteSet(Trying(k) \cup {p})
            /\ Cardinality(Trying(k) \cup {p}) = Cardinality(Trying(k)) + 1
        BY <1>4, TryingSize, FS_AddElement
      <4>2. /\ IsFiniteSet(Trying(k)')
            /\ Cardinality(Trying(k)') <= Cardinality(Trying(k) \cup {p})
        BY <3>1, <4>1, FS_Subset
      <4> QED
        BY <4>1, <4>2, <2>1, FS_CardinalityType
    <3> QED
      BY <1>1, <1>3, <2>1, <2>2, <3>2 DEF Counted
  <2>3. CASE counters'[k] > MaxAttempts
    <3>1. Trying(k)' = Trying(k)
      BY <1>1, <2>3, TryingKept DEF Moves
    <3> QED
      BY <1>1, <1>3, <2>1, <3>1 DEF Counted
  <2> QED
    BY <2>2, <2>3
<1> QED
  BY <1>1, <1>3, <1>5, <1>6 DEF GuessInv

\* A password is looked at: what was being tried is now a guess.
LEMMA GuessFetch ==
    ASSUME FlowInv, AccountFlow, GuessInv, NEW p \in Slots, Others(p), FetchUser(p)
    PROVE  GuessInv'
<1>0. PICK k : k = Key(p)
  OBVIOUS
<1>1. /\ req[p].op = "login" /\ req[p].at = "fetch_user"
      /\ req'[p].at # "fetch_user"
      /\ guesses' = [guesses EXCEPT ![k] = @ + 1]
      /\ counters' = counters /\ straddled' = straddled
  BY <1>0, Standing, GotoMoves, RefuseLeaves
  DEF FetchUser, At, OnWay, Late, Checks, Idle, Moves
<1>2. k \in CounterKeys
  BY <1>0, <1>1, KeyKnown
<1>3. /\ guesses' \in [CounterKeys -> Nat] /\ guesses'[k] = guesses[k] + 1
      /\ counters[k] \in Nat /\ guesses[k] \in Nat /\ MaxAttempts \in Nat
      /\ \A j \in CounterKeys \ {k} : guesses'[j] = guesses[j]
  BY <1>1, <1>2, AccountsAssumption DEF GuessInv
<1>4. /\ p \in Trying(k)
      /\ \A j \in CounterKeys : Trying(j)' = Trying(j) \ {p}
      /\ \A j \in CounterKeys \ {k} : p \notin Trying(j)
  BY <1>0, <1>1, TryingKept DEF Trying
<1>5. ASSUME NEW j \in CounterKeys \ {k} PROVE Counted(j)'
  <2>1. Trying(j)' = Trying(j)
    BY <1>4
  <2> QED
    BY <1>1, <1>3, <2>1 DEF Counted, GuessInv
<1>6. Counted(k)'
  <2>1. Counted(k) /\ Cardinality(Trying(k)) \in Nat
    BY <1>2, TryingSize DEF GuessInv
  <2>2. Cardinality(Trying(k) \ {p}) = Cardinality(Trying(k)) - 1
    BY <1>4, TryingSize, FS_RemoveElement
  <2>3. Cardinality(Trying(k)') = Cardinality(Trying(k)) - 1
    BY <1>2, <1>4, <2>2
  <2>4. straddled' = straddled /\ counters'[k] = counters[k]
    BY <1>1
  <2> QED
    BY <1>3, <2>1, <2>3, <2>4 DEF Counted
<1> QED
  BY <1>1, <1>3, <1>5, <1>6 DEF GuessInv

\* A login that succeeds resets its counter.
LEMMA GuessReset ==
    ASSUME FlowInv, AccountFlow, GuessInv, NEW p \in Slots, Others(p), Reset(p)
    PROVE  GuessInv'
<1>0. PICK k : k = Key(p)
  OBVIOUS
<1>1. /\ req[p].op = "login" /\ req[p].at = "reset" /\ Leaves(p) /\ Restart(k)
      /\ straddled' = IF Guessing(k) = {p} THEN straddled ELSE straddled \cup {k}
  BY <1>0, Standing, SucceedLeaves DEF Reset, At, OnWay, Late, Checks
<1>2. k \in CounterKeys
  BY <1>0, <1>1, KeyKnown
<1>3. req'[p].at # "fetch_user"
  BY <1>1 DEF Leaves, Moves, Idle
<1>4. \A j \in CounterKeys : Trying(j)' = Trying(j)
  BY <1>1, <1>3, TryingKept
<1>5. Guessing(k) = {p} => Trying(k) = {}
  BY <1>1 DEF Guessing, Trying, Begun
<1> QED
  BY <1>1, <1>2, <1>4, <1>5, GuessRestart

\* The handlers of accounts.
LEMMA GuessSteps ==
    ASSUME FlowInv, AccountFlow, GuessInv, NEW p \in Slots, AccountStep(p)
    PROVE  GuessInv'
<1>1. Others(p) /\ crossed \subseteq crossed' /\ FlowInv'
  BY AccountTurn DEF Turn
<1>2. ASSUME req'[p].at # "fetch_user", counters' = counters, guesses' = guesses,
             straddled' = straddled
      PROVE  GuessInv'
  BY <1>1, <1>2, GuessKept
<1>3. ASSUME NEW op \in AccountOps, NEW u \in Senders(p, op), NEW arg, NEW place,
             SendAccount(p, op, u, arg, place), place # "fetch_user"
      PROVE  GuessInv'
  BY <1>2, <1>3, SendAccountMoves DEF accountVars
<1>4. CASE SendRegister(p) \/ SendLogin(p) \/ SendRefresh(p) \/ SendLogout(p)
           \/ SendChangePassword(p)
  BY <1>3, <1>4 DEF SendRegister, SendLogin, SendRefresh, SendLogout,
     SendChangePassword, AccountOps
<1>5. CASE CountUsers(p) \/ InsertUser(p) \/ FetchVersion(p) \/ VerifyOld(p)
  BY <1>2, <1>5, GotoMoves, LearnMoves, CarryMoves, RefuseLeaves
  DEF CountUsers, InsertUser, FetchVersion, VerifyOld, accountVars, Moves, Idle
<1>6. CASE InsertRole(p) \/ Refresh(p) \/ BumpVersion(p) \/ WritePassword(p)
           \/ ResetFails(p)
  <2>1. Leaves(p)
    BY <1>6, SucceedLeaves, AnsweredLeaves, RefuseLeaves
    DEF InsertRole, Refresh, BumpVersion, WritePassword, ResetFails
  <2> QED
    BY <1>2, <1>6, <2>1 DEF InsertRole, Refresh, BumpVersion, WritePassword,
       ResetFails,
       accountVars, Leaves, Moves, Idle
<1>7. CASE CountFails(p)
  <2>0. PICK k : k = Key(p)
    OBVIOUS
  <2>1. /\ req[p].op = "login" /\ req[p].at = "count_attempt"
        /\ straddled' = straddled \cup {k} /\ counters' = counters /\ guesses' = guesses
        /\ req'[p].user = req[p].user /\ req'[p].arg = req[p].arg
    BY <1>7, <2>0, Standing DEF CountFails, At, OnWay, Late, Checks, FlowInv, Fields
  <2>2. ASSUME NEW j \in CounterKeys \ {k} PROVE Trying(j)' = Trying(j)
    <3>1. p \notin Trying(j) /\ p \notin Trying(j)'
      BY <2>0, <2>1 DEF Trying, Key
    <3> QED
      BY <1>1, <3>1, TryingKept
  <2>3. \A j \in CounterKeys : Counted(j)'
    BY <2>1, <2>2 DEF Counted, GuessInv
  <2> QED
    BY <2>1, <2>3 DEF GuessInv
<1> QED
  BY <1>1, <1>4, <1>5, <1>6, <1>7, GuessCount, GuessFetch, GuessReset
  DEF AccountStep

\* In the beginning nothing has been tried.
LEMMA GuessInit == WorkInit => GuessInv
<1> SUFFICES ASSUME WorkInit PROVE GuessInv
  OBVIOUS
<1>1. /\ req = [p \in Slots |-> Idle] /\ counters = [k \in CounterKeys |-> 0]
      /\ guesses = [k \in CounterKeys |-> 0]
  BY DEF WorkInit, RequestInit, AccountInit
<1>2. \A k : Trying(k) = {}
  BY <1>1 DEF Trying, Idle
<1>3. Cardinality({}) = 0
  BY FS_EmptySet
<1> QED
  BY <1>1, <1>2, <1>3, AccountsAssumption DEF GuessInv, Counted

\* Every step keeps the count.
LEMMA GuessNext ==
    ASSUME FlowInv, AccountFlow, GuessInv, [Next]_vars
    PROVE  GuessInv'
<1>1. CASE UNCHANGED <<req, crossed, accountVars>>
  <2>1. \A k : Trying(k)' = Trying(k)
    BY <1>1 DEF Trying, Key
  <2> QED
    BY <1>1, <2>1 DEF GuessInv, Counted, accountVars
<1>2. ASSUME NEW p \in Slots, Others(p), AccountAway(p) \/ AccountEnters(p)
      PROVE  GuessInv'
  <2>1. req'[p].at # "fetch_user" /\ UNCHANGED accountVars
    BY <1>2 DEF AccountAway, AccountEnters, Begun
  <2> QED
    BY <1>2, <2>1, GuessKept DEF accountVars
<1>3. ASSUME NEW k \in CounterKeys, WindowEnds(k)
      PROVE  GuessInv'
  <2>1. \A j : Trying(j)' = Trying(j)
    BY <1>3 DEF WindowEnds, Trying, Key
  <2>2. Guessing(k) = {} => Trying(k) = {}
    BY DEF Guessing, Trying, Begun
  <2> QED
    BY <1>3, <2>1, <2>2, GuessRestart DEF WindowEnds
<1> QED
  BY <1>1, <1>2, <1>3, AccountViews, GuessSteps DEF AccountView, WindowStep

\* An identifier is tried at most MaxAttempts times under one counter.
THEOREM GuessesAreBounded == Spec => []GuessesBounded
<1>1. FlowInv /\ AccountFlow /\ TokenInv /\ GuessInv /\ [Next]_vars
         => (FlowInv /\ AccountFlow /\ TokenInv /\ GuessInv)'
  BY FlowStep, TokensNext, GuessNext
<1>2. GuessInv => GuessesBounded
  <2> SUFFICES ASSUME GuessInv, NEW k \in CounterKeys, k \notin straddled
               PROVE  guesses[k] <= MaxAttempts
    BY DEF GuessesBounded
  <2>1. Cardinality(Trying(k)) \in Nat /\ guesses[k] \in Nat /\ MaxAttempts \in Nat
    BY TryingSize, AccountsAssumption DEF GuessInv
  <2> QED
    BY <2>1 DEF GuessInv, Counted
<1> QED
  BY <1>1, <1>2, FlowInit, TokensInit, GuessInit, PTL DEF Spec

\* The tables of the accounts keep their types.
THEOREM AccountsAreTyped == Spec => []AccountTypeOK
<1>1. FlowInv /\ AccountFlow /\ TokenInv /\ GuessInv /\ [Next]_vars
         => (FlowInv /\ AccountFlow /\ TokenInv /\ GuessInv)'
  BY FlowStep, TokensNext, GuessNext
<1>2. TokenInv /\ GuessInv => AccountTypeOK
  BY DEF TokenInv, TokenOK, GuessInv, AccountTypeOK
<1> QED
  BY <1>1, <1>2, FlowInit, TokensInit, GuessInit, PTL DEF Spec

-----------------------------------------------------------------------------
(***************************************************************************)
(* Cases, members and the access to them.  Every case has one owner, who   *)
(* never changes; what the tables give a user is among the rights noted    *)
(* with his requests; and a request stands where an access is needed only  *)
(* with that access among its rights.                                      *)
(***************************************************************************)
OwnerPlaces == {"owner_row", "delete_case", "add_member", "remove_member"}

HasRow(c) ==
    \/ members[c][cases[c].owner] = "owner"
    \/ <<"create_case", "owner_row">> \in broken
    \/ \E p \in Slots : req[p].case = c /\ req[p].at = "owner_row"

CaseOK(c) ==
    IF cases[c].status = "none" THEN \A u \in Users : members[c][u] = "none"
    ELSE /\ cases[c].owner \in Users /\ HasRow(c)
         /\ members[c][cases[c].owner] \in {"none", "owner"}
         /\ \A u \in Users \ {cases[c].owner} : members[c][u] # "owner"

\* What a request has at hand, as it was sent and as it has read.
Equipped(r) ==
    /\ r.op \in CaseOps \ {"create_case"} => r.case \in Cases
    /\ r.op = "update_case" =>
          /\ r.arg.name \in NewName /\ r.arg.status \in NewStatus
          /\ r.at = "lookup" => r.then = "read_case"
    /\ r.op = "add_member" => r.arg.user \in Users \cup {NoUser}
    /\ r.op = "remove_member" => r.arg.user \in Users
    /\ Heading(r) = "update_case" =>
          /\ r.saw \in CaseRow /\ r.saw.status # "none"
          /\ cases[r.case].status # "none"
    /\ r.at \in OwnerPlaces =>
          /\ r.case \in Cases /\ cases[r.case].status # "none"
          /\ cases[r.case].owner = r.user

Entitles(r) ==
    /\ Needed(r.at) # "none" => {"live", Needed(r.at)} \subseteq r.may
    /\ r.at = "member" => "live" \in r.may
    /\ r.op # "none" /\ r.case \in Cases
          => Rights(r.user, cases[r.case], members[r.case][r.user]) \subseteq r.may

\* An update that was let through to a case that is deleted by now.
Overtaken(r) ==
    (/\ r.at = "update_case" \/ (r.at = "member" /\ r.then = "update_case")
     /\ cases[r.case].status = "deleted")
       => {"update_case", "delete_case"} \in crossed \/ {"update_case"} \in crossed

AccessOK(r) == Equipped(r) /\ Entitles(r) /\ Overtaken(r)

\* Two requests in flight for a case that was there when they were sent.
CrossPairs ==
    \A p \in Slots : \A q \in Slots \ {p} :
       (/\ req[p].op \notin {"none", "create_case"}
        /\ req[q].op \notin {"none", "create_case"}
        /\ req[p].case = req[q].case)
          => {req[p].op, req[q].op} \in crossed

AccessInv ==
    /\ cases \in [Cases -> CaseRow] /\ members \in [Cases -> [Users -> Roles]]
    /\ \A c \in Cases : CaseOK(c)
    /\ \A p \in Slots : AccessOK(req[p])
    /\ CrossPairs

-----------------------------------------------------------------------------
\* What the tables give a user, given less.
LEMMA RightsOf ==
    ASSUME NEW u, NEW row, NEW role
    PROVE  /\ row.owner = u => Levels \subseteq Rights(u, row, role)
           /\ \A level \in Levels :
                 RoleAllows(level, role) => level \in Rights(u, row, role)
           /\ Available(row) => "live" \in Rights(u, row, role)
           /\ \A other : row.owner = u => Rights(u, row, other) = Rights(u, row, role)
           /\ Rights(u, row, "none") \subseteq Rights(u, row, role)
           /\ \A old : /\ old.owner = row.owner
                       /\ row.status = "deleted"
                       => Rights(u, row, role) \subseteq Rights(u, old, role)
  BY DEF Rights, RoleAllows, Available, Levels

\* The access a place takes is one of the levels.
LEMMA NeededLevel == \A place : Needed(place) \in Levels \cup {"none"}
  BY DEF Needed, Levels

\* A slot that is free, now or next, has nothing at stake.
LEMMA IdleAccess ==
    /\ AccessOK(Idle)
    /\ \A p \in Slots : req'[p] = Idle => AccessOK(req[p])'
  BY DEF Idle, AccessOK, Equipped, Entitles, Overtaken, CaseOps, OwnerPlaces,
     Needed, Heading, Checks

\* A step of p that leaves every case its owner, and the others their rights.
Respects(p) ==
    /\ cases' \in [Cases -> CaseRow] /\ members' \in [Cases -> [Users -> Roles]]
    /\ \A c \in Cases : CaseOK(c)'
    /\ \A c \in Cases : cases[c].status # "none" =>
          cases'[c].status # "none" /\ cases'[c].owner = cases[c].owner
    /\ \A c \in Cases : cases[c].status # "deleted" /\ cases'[c].status = "deleted" =>
          req[p].op \in {"update_case", "delete_case"} /\ req[p].case = c
    /\ \A q \in Slots \ {p} : req[q].op # "none" /\ req[q].case \in Cases =>
          Rights(req[q].user, cases'[req[q].case], members'[req[q].case][req[q].user])
             \subseteq req'[q].may

\* What p does leaves every other request in order.
LEMMA OtherAccess ==
    ASSUME FlowInv, AccessInv, NEW p \in Slots, Others(p), crossed \subseteq crossed',
           Respects(p), NEW q \in Slots \ {p}
    PROVE  AccessOK(req[q])'
<1>1. /\ \A f \in Fields \ {"may"} : req'[q][f] = req[q][f]
      /\ req[q].may \subseteq req'[q].may
  BY DEF Others
<1>2. /\ req'[q].op = req[q].op /\ req'[q].at = req[q].at
      /\ req'[q].then = req[q].then /\ req'[q].case = req[q].case
      /\ req'[q].user = req[q].user /\ req'[q].arg = req[q].arg
      /\ req'[q].saw = req[q].saw
      /\ Heading(req'[q]) = Heading(req[q])
  BY <1>1 DEF Fields, Heading
<1>3. AccessOK(req[q]) /\ OnWay(req[q].op, Heading(req[q]))
  BY DEF AccessInv, FlowInv, RequestOK
<1>4. Heading(req[q]) = "update_case" => req[q].op = "update_case" /\ req[q].case \in Cases
  BY <1>3 DEF OnWay, AccessOK, Equipped, CaseOps
<1>5. Equipped(req[q])'
  BY <1>2, <1>3, <1>4 DEF AccessOK, Equipped, Respects
<1>6. Entitles(req[q])'
  BY <1>1, <1>2, <1>3 DEF AccessOK, Entitles, Respects
<1>7. Overtaken(req[q])'
  <2>1. CASE req[q].at = "update_case" \/ (req[q].at = "member" /\ req[q].then = "update_case")
    <3>1. Heading(req[q]) = "update_case"
      BY <2>1 DEF Heading, Checks
    <3>2. /\ cases[req[q].case].status # "deleted" /\ cases'[req[q].case].status = "deleted"
             => /\ req[p].op \in {"update_case", "delete_case"}
                /\ req[p].case = req[q].case
      BY <1>4, <3>1 DEF Respects
    <3>3. /\ req[p].op \in {"update_case", "delete_case"} /\ req[p].case = req[q].case
             => {"update_case", req[p].op} \in crossed
      BY <1>4, <3>1 DEF AccessInv, CrossPairs
    <3> QED
      BY <1>2, <1>3, <3>2, <3>3 DEF AccessOK, Overtaken
  <2> QED
    BY <1>2, <2>1 DEF Overtaken
<1> QED
  BY <1>5, <1>6, <1>7 DEF AccessOK

\* A request that is sent meets those in flight, and one that goes on has done.
LEMMA CrossPairsKept ==
    ASSUME CrossPairs, NEW p \in Slots, Others(p), crossed \subseteq crossed',
           \/ Same(p) /\ req[p].op # "none"
           \/ req'[p] = Idle
           \/ Sent(p)
    PROVE  CrossPairs'
<1>1. \A q \in Slots \ {p} : req'[q].op = req[q].op /\ req'[q].case = req[q].case
  BY DEF Others, Fields
<1>2. ASSUME NEW q \in Slots \ {p}, req'[p].op \notin {"none", "create_case"},
             req'[q].op \notin {"none", "create_case"}, req'[p].case = req'[q].case
      PROVE  {req'[p].op, req'[q].op} \in crossed'
  <2>1. req[q].op \notin {"none", "create_case"} /\ req[q].case = req'[p].case
        /\ req'[q].op = req[q].op
    BY <1>1, <1>2
  <2>2. CASE Same(p)
    <3>1. req'[p].op = req[p].op /\ req'[p].case = req[p].case
      BY <1>2, <2>2 DEF Same
    <3> QED
      BY <1>2, <2>1, <3>1 DEF CrossPairs
  <2>3. CASE req'[p] = Idle
    BY <1>2, <2>3 DEF Idle
  <2>4. CASE Sent(p)
    BY <2>1, <2>4 DEF Sent
  <2> QED
    BY <2>2, <2>3, <2>4
<1>3. ASSUME NEW q \in Slots \ {p}, NEW r \in Slots \ {p, q},
             req'[q].op \notin {"none", "create_case"},
             req'[r].op \notin {"none", "create_case"}, req'[q].case = req'[r].case
      PROVE  {req'[q].op, req'[r].op} \in crossed'
  BY <1>1, <1>3 DEF CrossPairs
<1>4. \A a, b : {a, b} = {b, a}
  OBVIOUS
<1> QED
  BY <1>2, <1>3, <1>4 DEF CrossPairs

\* What it takes for the access to be in order after a step of p.
LEMMA AccessKept ==
    ASSUME FlowInv, AccessInv, NEW p \in Slots, Others(p), crossed \subseteq crossed',
           Respects(p), AccessOK(req[p])',
           \/ Same(p) /\ req[p].op # "none"
           \/ req'[p] = Idle
           \/ Sent(p)
    PROVE  AccessInv'
<1>1. \A q \in Slots : AccessOK(req[q])'
  BY OtherAccess
<1> QED
  BY <1>1, CrossPairsKept DEF AccessInv, Respects

-----------------------------------------------------------------------------
\* A step that leaves both tables alone, and the owner's row still to come.
LEMMA TablesStay ==
    ASSUME FlowInv, AccessInv, NEW p \in Slots, Others(p), UNCHANGED caseVars,
           req[p].at # "owner_row" \/ <<"create_case", "owner_row">> \in broken'
    PROVE  Respects(p)
<1>1. cases' = cases /\ members' = members /\ broken \subseteq broken'
  BY DEF caseVars, Others
<1>2. \A q \in Slots \ {p} : /\ req'[q].at = req[q].at /\ req'[q].case = req[q].case
                             /\ req[q].may \subseteq req'[q].may
  BY DEF Others, Fields
<1>3. ASSUME NEW c \in Cases, HasRow(c) PROVE HasRow(c)'
  BY <1>1, <1>2, <1>3 DEF HasRow
<1>4. \A c \in Cases : CaseOK(c)'
  BY <1>1, <1>3 DEF AccessInv, CaseOK
<1>5. \A q \in Slots : Entitles(req[q])
  BY DEF AccessInv, AccessOK
<1> QED
  BY <1>1, <1>2, <1>4, <1>5 DEF Respects, AccessInv, Entitles

\* Whose places those are.
LEMMA CasePlaces ==
    ASSUME NEW r, RequestOK(r)
    PROVE  /\ r.at \in OwnerPlaces => r.op \in CaseOps
           /\ r.at = "owner_row" => r.op = "create_case"
           /\ Heading(r) = "update_case" => r.op = "update_case"
           /\ r.at = "update_case" => Heading(r) = "update_case"
           /\ r.op = "none" => r.at = "idle"
<1>1. OnWay(r.op, Heading(r)) /\ (r.at \notin Checks \cup {"lookup"} => Heading(r) = r.at)
  BY DEF RequestOK, Heading
<1> QED
  BY <1>1 DEF OnWay, OwnerPlaces, CaseOps, Checks, RequestOK

\* A request to another component has nothing to do with the owner's places.
LEMMA ForeignAccess ==
    ASSUME FlowInv, AccessInv, NEW p \in Slots, NEW ops, ops \cap CaseOps = {},
           Turn(p, ops), UNCHANGED caseVars
    PROVE  AccessInv'
<1>1. /\ FlowInv' /\ Others(p) /\ crossed \subseteq crossed'
      /\ Serves(p) /\ RequestOK(req'[p]) /\ RequestOK(req[p])
  BY DEF Turn, FlowInv
<1>2. /\ req[p].op \notin CaseOps
      /\ (Same(p) /\ InHandler(p)) \/ req'[p] = Idle \/ Sent(p)
  BY DEF Turn, Serves, Quiet, Applies, Ends, Sent, CaseOps
<1>3. req'[p].op \notin CaseOps
  BY <1>2, IdleGone DEF Turn, Sent, Same, Idle, CaseOps
<1>4. Equipped(req[p])' /\ Overtaken(req[p])'
  BY <1>1, <1>3, CasePlaces DEF Equipped, Overtaken, CaseOps, Heading, Checks
<1>5. Respects(p)
  BY <1>1, <1>2, CasePlaces, TablesStay DEF CaseOps
<1>6. CASE Same(p) /\ InHandler(p)
  <2>1. Entitles(req[p]) /\ cases' = cases /\ members' = members
    BY DEF AccessInv, AccessOK, caseVars
  <2>2. Needed(req'[p].at) \in {"none", Needed(req[p].at)} /\ req'[p].at # "member"
    BY <1>6 DEF Same, InHandler, Heading, Turn, Checks
  <2>3. /\ req'[p].op = req[p].op /\ req'[p].case = req[p].case
        /\ req'[p].user = req[p].user /\ req[p].may \subseteq req'[p].may
    BY <1>2, <1>6 DEF Same, CaseOps
  <2>4. Entitles(req[p])'
    BY <2>1, <2>2, <2>3 DEF Entitles
  <2> QED
    BY <1>1, <1>4, <1>5, <1>6, <2>4, AccessKept DEF AccessOK, InHandler
<1>7. CASE req'[p] = Idle
  <2>1. AccessOK(req[p])'
    BY <1>7, IdleAccess
  <2> QED
    BY <1>1, <1>5, <1>7, <2>1, AccessKept
<1>8. CASE Sent(p)
  <2>1. Entitles(req[p])'
    BY <1>8 DEF Entitles, Sent, caseVars
  <2> QED
    BY <1>1, <1>4, <1>5, <1>8, <2>1, AccessKept DEF AccessOK
<1> QED
  BY <1>2, <1>6, <1>7, <1>8

\* The look-up lets a request through to its first place, which takes nothing.
LEMMA EntryAccess ==
    ASSUME FlowInv, AccessInv, NEW p \in Slots, LookupMiss(p) \/ LookupFails(p)
    PROVE  AccessInv'
<1>1. /\ FlowInv' /\ Others(p) /\ crossed \subseteq crossed' /\ req[p].op # "none"
      /\ Same(p) \/ req'[p] = Idle
  BY EntryTurn DEF RequestTurn
<1>2. /\ req[p].at = "lookup" /\ UNCHANGED caseVars
      /\ req'[p].at = FirstStep(req[p])
      /\ \A f \in Fields \ {"at"} : req'[p][f] = req[p][f]
  BY DEF LookupMiss, LookupFails, At, FlowInv, Fields
<1>3. /\ RequestOK(req[p]) /\ RequestOK(req'[p])
      /\ Equipped(req[p]) /\ Entitles(req[p])
  BY <1>1 DEF FlowInv, AccessInv, AccessOK
<1>4. /\ req'[p].op = req[p].op /\ req'[p].then = req[p].then
      /\ req'[p].case = req[p].case /\ req'[p].user = req[p].user
      /\ req'[p].arg = req[p].arg /\ req'[p].saw = req[p].saw
      /\ req'[p].may = req[p].may
  BY <1>2 DEF Fields
<1>5. /\ req[p].then \notin Late \cup {"member", "case", "lookup"}
      /\ Needed(req[p].then) \in {"none", req[p].need}
  BY <1>2, <1>3 DEF RequestOK, OnWay, Heading, Checks, Late
<1>6. /\ Needed(req'[p].at) = "none" /\ req'[p].at # "member"
      /\ req'[p].at \notin OwnerPlaces
      /\ Heading(req'[p]) = Heading(req[p])
  BY <1>2, <1>4, <1>5 DEF FirstStep, Needed, OwnerPlaces, Late, Heading, Checks
<1>7. Heading(req[p]) # "update_case" /\ req'[p].at # "update_case"
  BY <1>2, <1>3, <1>6, CasePlaces DEF Equipped, Heading
<1>8. AccessOK(req[p])'
  BY <1>2, <1>3, <1>4, <1>6, <1>7
  DEF AccessOK, Equipped, Entitles, Overtaken, caseVars
<1>9. Respects(p)
  BY <1>1, <1>2, TablesStay
<1> QED
  BY <1>1, <1>8, <1>9, AccessKept

\* A request that leaves, and the row of an owner that it does not insert.
LEMMA GoneAccess ==
    ASSUME FlowInv, AccessInv, NEW p \in Slots, Others(p), UNCHANGED caseVars,
           crossed \subseteq crossed', req'[p] = Idle,
           req[p].at # "owner_row" \/ CutShort(p)
    PROVE  AccessInv'
<1>1. RequestOK(req[p])
  BY DEF FlowInv
<1>2. req[p].at # "owner_row" \/ <<"create_case", "owner_row">> \in broken'
  BY <1>1, CasePlaces DEF CutShort
<1>3. AccessOK(req[p])'
  BY IdleAccess
<1> QED
  BY <1>2, <1>3, TablesStay, AccessKept

\* A request that goes on, to a place that it may go to.
LEMMA Lands ==
    ASSUME FlowInv, AccessInv, NEW p \in Slots, Same(p), req[p].op # "none",
           req'[p].at # "lookup",
           Needed(req'[p].at) = "none" \/ {"live", Needed(req'[p].at)} \subseteq req'[p].may,
           req'[p].at = "member" => "live" \in req'[p].may,
           req'[p].at \in OwnerPlaces =>
              /\ req'[p].case \in Cases
              /\ cases'[req'[p].case].status # "none"
              /\ cases'[req'[p].case].owner = req'[p].user,
           Heading(req'[p]) = "update_case" =>
              /\ req'[p].saw \in CaseRow /\ req'[p].saw.status # "none"
              /\ cases'[req'[p].case].status # "none",
           req'[p].case \in Cases =>
              Rights(req'[p].user, cases'[req'[p].case], members'[req'[p].case][req'[p].user])
                 \subseteq req'[p].may,
           Overtaken(req[p])'
    PROVE  AccessOK(req[p])'
<1>1. /\ req'[p].op = req[p].op /\ req'[p].arg = req[p].arg
      /\ req[p].op # "create_case" => req'[p].case = req[p].case
  BY DEF Same
<1>2. Equipped(req[p])
  BY DEF AccessInv, AccessOK
<1>3. Equipped(req[p])'
  BY <1>1, <1>2 DEF Equipped, CaseOps
<1> QED
  BY <1>3 DEF AccessOK, Entitles

\* What the reads of a check find is among the rights of the request.
LEMMA CheckAccess ==
    ASSUME FlowInv, AccessInv, NEW p \in Slots, CheckCase(p) \/ CheckMember(p)
    PROVE  AccessInv'
<1>1. /\ FlowInv' /\ Others(p) /\ crossed \subseteq crossed' /\ req[p].op # "none"
      /\ Same(p) \/ req'[p] = Idle
  <2>1. RequestStep(p)
    BY DEF RequestStep
  <2> QED
    BY <2>1, RequestStepTurn DEF RequestTurn
<1>2. req[p].at \in Checks /\ UNCHANGED caseVars
  BY DEF CheckCase, CheckMember, At, Checks
<1>3. Respects(p)
  BY <1>1, <1>2, TablesStay DEF Checks
<1>4. CASE req'[p] = Idle
  BY <1>1, <1>2, <1>4, GoneAccess DEF Checks
<1>5. /\ req[p].then \notin Late \cup Checks \cup {"lookup"}
      /\ Needed(req[p].then) \in {"none", req[p].need}
      /\ req[p].at = "member" => req[p].need # "own" /\ req[p].case \in Cases
      /\ req[p].deny \in {"leave", "tool_failed"}
      /\ Heading(req[p]) = req[p].then
  <2>1. /\ req[p].then \notin Late \cup Checks \cup {"lookup"}
        /\ Heading(req[p]) = req[p].then /\ req[p].deny \in {"leave", "tool_failed"}
    BY <1>2, AtCheck
  <2> QED
    BY <1>2, <2>1 DEF FlowInv, RequestOK, Checks
<1>6. Equipped(req[p]) /\ Entitles(req[p]) /\ Overtaken(req[p])
  BY DEF AccessInv, AccessOK
\* It goes on to `place' with what it needs for it.
<1> DEFINE Fit(place) ==
      /\ Needed(place) = "none" \/ {"live", Needed(place)} \subseteq req[p].may
      /\ place = "member" => "live" \in req[p].may
      /\ place \in OwnerPlaces =>
            /\ req[p].case \in Cases /\ cases[req[p].case].status # "none"
            /\ cases[req[p].case].owner = req[p].user
      /\ place \in {"update_case", "member"} =>
            req[p].at = "member" \/ cases[req[p].case].status # "deleted"
      /\ place \in {"member", "record", "tool_failed", req[p].then}
<1>7. ASSUME NEW place, Fit(place), req'[p].at = place, Same(p),
             \A f \in Fields \ {"at", "saw", "tx"} : req'[p][f] = req[p][f],
             place # "record" => req'[p].saw = req[p].saw
      PROVE  AccessInv'
  <2>1. /\ req'[p].op = req[p].op /\ req'[p].case = req[p].case
        /\ req'[p].user = req[p].user /\ req'[p].may = req[p].may
        /\ req'[p].then = req[p].then
        /\ cases' = cases /\ members' = members /\ crossed \subseteq crossed'
    BY <1>1, <1>2, <1>7 DEF Fields, caseVars
  <2>2. Heading(req'[p]) = "update_case" => Heading(req[p]) = "update_case"
    BY <1>5, <1>7, <2>1 DEF Heading, Checks
  <2>3. Heading(req'[p]) = "update_case" => req'[p].saw = req[p].saw
    BY <1>7 DEF Heading, Checks
  <2>4. place # "lookup" /\ (place = "update_case" => req[p].then = "update_case")
    BY <1>5, <1>7
  <2>5. Overtaken(req[p])'
    BY <1>2, <1>6, <1>7, <2>1, <2>4 DEF Overtaken, Checks
  <2>6. AccessOK(req[p])'
    BY <1>1, <1>6, <1>7, <2>1, <2>2, <2>3, <2>4, <2>5, Lands DEF Equipped, Entitles
  <2> QED
    BY <1>1, <1>3, <2>6, <1>7, AccessKept
<1> HIDE DEF Fit
<1>8. ASSUME NEW place, Goto(p, place), Fit(place), req'[p] # Idle
      PROVE  AccessInv'
  <2>1. /\ req'[p].at = place
        /\ \A f \in Fields \ {"at", "saw", "tx"} : req'[p][f] = req[p][f]
        /\ req'[p].saw = req[p].saw
    BY <1>8 DEF Goto, FlowInv, Fields
  <2> QED
    BY <1>1, <1>7, <1>8, <2>1
<1>9. ASSUME Deny(p), req'[p] # Idle PROVE AccessInv'
  <2>1. Goto(p, "tool_failed")
    BY <1>5, <1>9 DEF Deny, Refuse, FlowInv
  <2>2. Fit("tool_failed")
    BY DEF Fit, Needed, OwnerPlaces
  <2> QED
    BY <1>8, <1>9, <2>1, <2>2
<1>10. ASSUME Pass(p), Fit(req[p].then), req'[p] # Idle PROVE AccessInv'
  <2>1. CASE req[p].then # "answer"
    BY <1>8, <1>10, <2>1 DEF Pass
  <2>2. CASE req[p].then = "answer"
    <3>1. req' = Answered(p)
      BY <1>10, <2>2 DEF Pass, Succeed
    <3>2. /\ req'[p].at = "record"
          /\ \A f \in Fields \ {"at", "saw", "tx"} : req'[p][f] = req[p][f]
      BY <1>10, <3>1 DEF Answered, FlowInv, Fields
    <3>3. Fit("record")
      BY DEF Fit, Needed, OwnerPlaces
    <3> QED
      BY <1>1, <1>7, <1>10, <3>2, <3>3
  <2> QED
    BY <2>1, <2>2
<1>11. CASE CheckCase(p) /\ req'[p] # Idle
  <2>1. CASE Deny(p)
    BY <1>9, <1>11, <2>1
  <2>2. CASE Live(req[p].case) /\ ~Deny(p)
    <3>1. /\ req[p].case \in Cases /\ Available(cases[req[p].case])
          /\ cases[req[p].case].status \notin {"none", "deleted"}
      BY <2>2 DEF Live, Available
    <3>2. "live" \in req[p].may
      BY <1>1, <1>6, <3>1, RightsOf DEF Entitles
    <3>3. CASE cases[req[p].case].owner = req[p].user
      <4>1. Levels \subseteq req[p].may
        BY <1>1, <1>6, <3>1, <3>3, RightsOf DEF Entitles
      <4>2. Fit(req[p].then)
        BY <3>1, <3>2, <3>3, <4>1, NeededLevel DEF Fit
      <4> QED
        BY <1>10, <1>11, <2>2, <3>3, <4>2 DEF CheckCase
    <3>4. CASE cases[req[p].case].owner # req[p].user
      <4>1. Goto(p, "member")
        BY <1>11, <2>2, <3>4 DEF CheckCase
      <4>2. Fit("member")
        BY <3>1, <3>2 DEF Fit, Needed, OwnerPlaces
      <4> QED
        BY <1>8, <1>11, <4>1, <4>2
    <3> QED
      BY <3>3, <3>4
  <2> QED
    BY <1>11, <2>1, <2>2 DEF CheckCase
<1>12. CASE CheckMember(p) /\ req'[p] # Idle
  <2>1. CASE RoleAllows(req[p].need, members[req[p].case][req[p].user])
    <3>1. req[p].at = "member" /\ Pass(p)
      BY <1>12, <2>1 DEF CheckMember, At
    <3>2. "live" \in req[p].may /\ req[p].case \in Cases
      BY <1>5, <1>6, <3>1 DEF Entitles
    <3>3. req[p].need \in Levels => req[p].need \in req[p].may
      BY <1>1, <1>6, <2>1, <3>2, RightsOf DEF Entitles
    <3>4. Needed(req[p].then) = "none" \/ {"live", Needed(req[p].then)} \subseteq req[p].may
      BY <1>5, <3>2, <3>3, NeededLevel
    <3>5. req[p].then \notin OwnerPlaces
      BY <1>5, <3>1 DEF OwnerPlaces, Needed, Late
    <3>6. Fit(req[p].then)
      BY <1>5, <3>1, <3>2, <3>4, <3>5 DEF Fit
    <3> QED
      BY <1>10, <1>12, <3>1, <3>6
  <2>2. CASE ~RoleAllows(req[p].need, members[req[p].case][req[p].user])
    BY <1>9, <1>12, <2>2 DEF CheckMember
  <2> QED
    BY <2>1, <2>2
<1> QED
  BY <1>4, <1>11, <1>12

-----------------------------------------------------------------------------
(* The tables, as the handlers of cases and members change them.           *)

\* The owner's row of another case does not depend on p.
LEMMA RowStays ==
    ASSUME NEW p \in Slots, Others(p), NEW c \in Cases, HasRow(c),
           members'[c][cases'[c].owner] = members[c][cases[c].owner],
           req[p].at # "owner_row" \/ req[p].case # c
    PROVE  HasRow(c)'
<1>1. \A q \in Slots \ {p} : req'[q].at = req[q].at /\ req'[q].case = req[q].case
  BY DEF Others, Fields
<1> QED
  BY <1>1 DEF HasRow, Others

\* Nobody gains a right by the step.
Shrinks == \A c \in Cases, u \in Users :
              Rights(u, cases'[c], members'[c][u]) \subseteq Rights(u, cases[c], members[c][u])

\* Everybody has the rights noted that he has now.
Noted == \A q \in Slots : req'[q].op # "none" /\ req'[q].case \in Cases =>
            Rights(req'[q].user, cases'[req'[q].case], members'[req'[q].case][req'[q].user])
               \subseteq req'[q].may

\* If nobody gains a right, those noted will do;
LEMMA ShrinksNoted ==
    ASSUME FlowInv, AccessInv, NEW p \in Slots, Others(p), Shrinks,
           \/ req'[p] = Idle
           \/ Same(p) /\ req[p].op # "none" /\ req'[p].case = req[p].case
    PROVE  Noted
<1>1. ASSUME NEW q \in Slots, req[q].op # "none", req[q].case \in Cases,
             req'[q].case = req[q].case, req'[q].user = req[q].user,
             req[q].may \subseteq req'[q].may
      PROVE  Rights(req'[q].user, cases'[req'[q].case], members'[req'[q].case][req'[q].user])
                \subseteq req'[q].may
  <2>1. req[q].user \in Users /\ Entitles(req[q])
    BY <1>1 DEF FlowInv, RequestOK, AccessInv, AccessOK
  <2> QED
    BY <1>1, <2>1 DEF Shrinks, Entitles
<1>2. \A q \in Slots \ {p} :
         /\ req'[q].op = req[q].op /\ req'[q].case = req[q].case
         /\ req'[q].user = req[q].user /\ req[q].may \subseteq req'[q].may
  BY DEF Others, Fields
<1>3. Idle.op = "none"
  BY DEF Idle
<1> QED
  BY <1>1, <1>2, <1>3 DEF Noted, Same

\* and whoever gains one has it noted.
LEMMA InformedNoted ==
    ASSUME NEW sent, DOMAIN sent = Slots, \A q \in Slots : DOMAIN sent[q] = Fields,
           req' = Informed(sent, cases', members')
    PROVE  Noted
  BY DEF Noted, Informed, Fields

\* The owner of the case gets his row, unless he has one.
LEMMA OwnerRow ==
    ASSUME FlowInv, AccessInv, NEW p \in Slots, req[p].at \in OwnerPlaces,
           cases' = cases, members' = WithOwnerRow(req[p].case, req[p].user), Others(p)
    PROVE  /\ members' \in [Cases -> [Users -> Roles]] /\ Shrinks
           /\ \A c \in Cases : CaseOK(c)'
<1>0. PICK c, u : c = req[p].case /\ u = req[p].user
  OBVIOUS
<1>1. /\ c \in Cases /\ cases[c].status # "none" /\ cases[c].owner = u
      /\ u \in Users /\ CaseOK(c)
  BY <1>0 DEF AccessInv, AccessOK, Equipped, CaseOK
<1>2. members[c][u] \in {"none", "owner"}
  BY <1>1 DEF CaseOK
<1>3. /\ members' \in [Cases -> [Users -> Roles]] /\ members'[c][u] = "owner"
      /\ \A d \in Cases, v \in Users : d # c \/ v # u => members'[d][v] = members[d][v]
  BY <1>0, <1>1, <1>2 DEF WithOwnerRow, AccessInv, Roles
<1>4. Shrinks
  BY <1>1, <1>3, RightsOf DEF Shrinks
<1>5. CaseOK(c)'
  BY <1>1, <1>3 DEF CaseOK, HasRow
<1>6. ASSUME NEW d \in Cases \ {c} PROVE CaseOK(d)'
  <2>1. CaseOK(d) /\ \A v \in Users : members'[d][v] = members[d][v]
    BY <1>3 DEF AccessInv
  <2>2. HasRow(d) /\ cases[d].owner \in Users => HasRow(d)'
    BY <1>0, <2>1, RowStays
  <2> QED
    BY <2>1, <2>2 DEF CaseOK
<1> QED
  BY <1>3, <1>4, <1>5, <1>6

\* A case that changes, but for its owner.
LEMMA CaseChanges ==
    ASSUME FlowInv, AccessInv, NEW p \in Slots, Others(p), NEW c \in Cases,
           members' = members, req[p].at # "owner_row", cases[c].status # "none",
           NEW row \in CaseRow, row.owner = cases[c].owner, row.status # "none",
           cases' = [cases EXCEPT ![c] = row]
    PROVE  cases' \in [Cases -> CaseRow] /\ \A d \in Cases : CaseOK(d)'
<1>1. /\ cases' \in [Cases -> CaseRow] /\ cases'[c] = row
      /\ \A d \in Cases : cases'[d].owner = cases[d].owner
      /\ \A d \in Cases : cases'[d].status = "none" <=> cases[d].status = "none"
  BY DEF AccessInv
<1>2. ASSUME NEW d \in Cases PROVE CaseOK(d)'
  <2>1. CaseOK(d)
    BY DEF AccessInv
  <2>2. HasRow(d) => HasRow(d)'
    BY <1>1, RowStays
  <2> QED
    BY <1>1, <2>1, <2>2 DEF CaseOK
<1> QED
  BY <1>1, <1>2

\* A member that is not the owner.
LEMMA MemberChanges ==
    ASSUME FlowInv, AccessInv, NEW p \in Slots, Others(p), NEW c \in Cases,
           cases' = cases, req[p].at # "owner_row", cases[c].status # "none",
           NEW u \in Users \ {cases[c].owner}, NEW role \in Roles \ {"owner"},
           members' = [members EXCEPT ![c][u] = role]
    PROVE  members' \in [Cases -> [Users -> Roles]] /\ \A d \in Cases : CaseOK(d)'
<1>1. /\ members' \in [Cases -> [Users -> Roles]] /\ members'[c][u] = role
      /\ \A d \in Cases, v \in Users : d # c \/ v # u => members'[d][v] = members[d][v]
  BY DEF AccessInv
<1>2. ASSUME NEW d \in Cases PROVE CaseOK(d)'
  <2>1. CaseOK(d)
    BY DEF AccessInv
  <2>2. cases[d].status # "none" =>
           /\ cases[d].owner \in Users
           /\ members'[d][cases[d].owner] = members[d][cases[d].owner]
    BY <1>1, <2>1 DEF CaseOK
  <2>3. cases[d].status # "none" /\ HasRow(d) => HasRow(d)'
    BY <2>2, RowStays
  <2> QED
    BY <1>1, <2>1, <2>2, <2>3 DEF CaseOK
<1> QED
  BY <1>1, <1>2

-----------------------------------------------------------------------------
(* The handlers of cases and members.                                      *)

\* A step that is over for p, or takes it to a place that takes no access.
Plain(p) ==
    \/ req'[p] = Idle
    \/ /\ Same(p) /\ req[p].op # "none" /\ req'[p].at \notin {"lookup", "member"}
       /\ Needed(req'[p].at) = "none"
       /\ Heading(req'[p]) = "update_case" =>
             /\ req'[p].saw \in CaseRow /\ req'[p].saw.status # "none"
             /\ cases'[req'[p].case].status # "none"
       /\ req'[p].at = "owner_row" =>
             /\ req'[p].case \in Cases /\ cases'[req'[p].case].status # "none"
             /\ cases'[req'[p].case].owner = req'[p].user

\* Such a step keeps the access in order, if it does so with the tables.
LEMMA PlainKept ==
    ASSUME FlowInv, AccessInv, NEW p \in Slots, Others(p), crossed \subseteq crossed',
           Plain(p), Noted,
           cases' \in [Cases -> CaseRow], members' \in [Cases -> [Users -> Roles]],
           \A c \in Cases : CaseOK(c)',
           \A c \in Cases : cases[c].status # "none" =>
              cases'[c].status # "none" /\ cases'[c].owner = cases[c].owner,
           \A c \in Cases : cases[c].status # "deleted" /\ cases'[c].status = "deleted" =>
              req[p].op \in {"update_case", "delete_case"} /\ req[p].case = c
    PROVE  AccessInv'
<1>1. \A q \in Slots \ {p} : /\ req'[q].op = req[q].op /\ req'[q].case = req[q].case
                             /\ req'[q].user = req[q].user
  BY DEF Others, Fields
<1>2. Respects(p)
  BY <1>1 DEF Respects, Noted
<1>3. CASE req'[p] = Idle
  BY <1>2, <1>3, IdleAccess, AccessKept
<1>4. CASE req'[p] # Idle
  <2>1. /\ Same(p) /\ req[p].op # "none" /\ req'[p].op # "none"
        /\ req'[p].at # "update_case" /\ req'[p].at \notin OwnerPlaces \ {"owner_row"}
    BY <1>4 DEF Plain, Same, Needed, OwnerPlaces
  <2>2. Overtaken(req[p])'
    BY <1>4, <2>1 DEF Plain, Overtaken
  <2>3. AccessOK(req[p])'
    BY <1>4, <2>1, <2>2, Lands DEF Plain, Noted, OwnerPlaces
  <2> QED
    BY <1>2, <2>1, <2>3, AccessKept
<1> QED
  BY <1>3, <1>4

\* A request to the cases is sent.
LEMMA SendCase ==
    ASSUME FlowInv, AccessInv, NEW p \in Slots, NEW op \in CaseOps,
           NEW user \in Senders(p, op), NEW case, NEW path, NEW arg, NEW need, NEW then,
           Send(p, op, user, case, path, arg, need, then), UNCHANGED caseVars,
           op # "create_case" => case \in Cases,
           op = "update_case" =>
              /\ arg.name \in NewName /\ arg.status \in NewStatus
              /\ then = "read_case",
           op = "add_member" => arg.user \in Users \cup {NoUser},
           op = "remove_member" => arg.user \in Users,
           FlowInv', Others(p), Sent(p), crossed \subseteq crossed'
    PROVE  AccessInv'
<1>1. /\ req'[p].op = op /\ req'[p].case = case /\ req'[p].arg = arg
      /\ req'[p].then = then
      /\ req'[p].at \in {"lookup", "case"} \/ req'[p].at = then
  BY DEF Send, FirstStep, FlowInv, Fields
<1>2. /\ Needed(req'[p].at) = "none" /\ req'[p].at \notin {"member", "owner_row"}
      /\ RequestOK(req'[p]) /\ req[p].op = "none" /\ RequestOK(req[p])
  BY DEF Sent, FlowInv
<1>3. req'[p].at # "update_case" /\ req'[p].at \notin OwnerPlaces
  BY <1>2 DEF Needed, OwnerPlaces
<1>4. Heading(req'[p]) # "update_case"
  <2>1. CASE op = "update_case"
    BY <1>1, <1>3, <2>1 DEF Heading
  <2> QED
    BY <1>1, <1>2, <2>1, CasePlaces
<1>5. Equipped(req[p])'
  BY <1>1, <1>3, <1>4 DEF Equipped, CaseOps
<1>6. Entitles(req[p])' /\ Overtaken(req[p])'
  BY <1>2, <1>3 DEF Entitles, Overtaken, Sent, caseVars
<1>7. Respects(p)
  BY <1>2, CasePlaces, TablesStay
<1> QED
  BY <1>5, <1>6, <1>7, AccessKept DEF AccessOK

\* Each of the requests to the cases is sent,
LEMMA CaseSends ==
    ASSUME FlowInv, AccessInv, NEW p \in Slots,
           \/ SendCreateCase(p) \/ SendUpdateCase(p) \/ SendDeleteCase(p)
           \/ SendAddMember(p) \/ SendRemoveMember(p),
           FlowInv', Others(p), Sent(p), crossed \subseteq crossed'
    PROVE  AccessInv'
<1> USE SendCase DEF CaseOps
<1>1. CASE SendCreateCase(p)
  BY <1>1 DEF SendCreateCase
<1>2. CASE SendUpdateCase(p)
  BY <1>2 DEF SendUpdateCase
<1>3. CASE SendDeleteCase(p)
  BY <1>3 DEF SendDeleteCase
<1>4. CASE SendAddMember(p)
  BY <1>4 DEF SendAddMember
<1>5. CASE SendRemoveMember(p)
  BY <1>5 DEF SendRemoveMember
<1> QED
  BY <1>1, <1>2, <1>3, <1>4, <1>5

\* and served.
LEMMA CaseAccess ==
    ASSUME FlowInv, AccessInv, NEW p \in Slots, CaseStep(p)
    PROVE  AccessInv'
<1>1. /\ FlowInv' /\ Others(p) /\ crossed \subseteq crossed'
      /\ req[p].op # "none" => req'[p] = Idle \/ Same(p)
      /\ req[p].op = "none" => Sent(p)
  BY CaseTurn DEF Turn, Serves, Quiet, Applies, Ends, Sent, InHandler
<1>2. /\ cases \in [Cases -> CaseRow] /\ members \in [Cases -> [Users -> Roles]]
      /\ \A c \in Cases : CaseOK(c)
      /\ Equipped(req[p]) /\ RequestOK(req[p])
  BY DEF AccessInv, AccessOK, FlowInv
<1>3. CASE \/ SendCreateCase(p) \/ SendUpdateCase(p) \/ SendDeleteCase(p)
           \/ SendAddMember(p) \/ SendRemoveMember(p)
  <2>1. req[p].op = "none"
    BY <1>3, SenderFacts DEF SendCreateCase, SendUpdateCase, SendDeleteCase,
       SendAddMember, SendRemoveMember
  <2> QED
    BY <1>1, <1>3, <2>1, CaseSends
\* A handler that leaves the tables alone.
<1>4. ASSUME UNCHANGED caseVars, Plain(p), req[p].at # "owner_row", req[p].op # "create_case",
             req[p].op # "none"
      PROVE  AccessInv'
  <2>1. Respects(p)
    BY <1>1, <1>4, TablesStay
  <2>2. Shrinks
    BY <1>4 DEF Shrinks, caseVars
  <2>3. Noted
    BY <1>1, <1>4, <2>2, ShrinksNoted DEF Plain, Same
  <2> QED
    BY <1>1, <1>4, <2>1, <2>3, PlainKept DEF Respects
<1>5. ASSUME Leaves(p), req[p].op # "none" PROVE Plain(p)
  BY <1>1, <1>5 DEF Plain, Leaves, Moves, Needed, Heading, Checks
<1>6. CASE ReadCase(p)
  <2>1. /\ req[p].at = "read_case" /\ req[p].op = "update_case" /\ req[p].case \in Cases
        /\ UNCHANGED caseVars
    BY <1>2, <1>6, Standing DEF ReadCase, At, OnWay, Checks, Equipped, CaseOps
  <2>2. CASE Refuse(p)
    BY <1>4, <1>5, <2>1, <2>2, RefuseLeaves
  <2>3. CASE ~Refuse(p)
    <3>1. /\ cases[req[p].case].status # "none"
          /\ LearnAndCheck(p, cases[req[p].case], "write", "update_case")
      BY <1>6, <2>3 DEF ReadCase
    <3>2. /\ req'[p].at = "case" /\ req'[p].then = "update_case"
          /\ req'[p].saw = cases[req[p].case] /\ req'[p].case = req[p].case
          /\ req'[p].op = req[p].op
      BY <3>1 DEF LearnAndCheck, FlowInv, Fields
    <3>3. Plain(p)
      BY <1>1, <1>2, <2>1, <3>1, <3>2 DEF Plain, Needed, caseVars
    <3> QED
      BY <1>4, <2>1, <3>3
  <2> QED
    BY <2>2, <2>3
<1>7. CASE RefuseMember(p) \/ ReadMember(p)
  <2>1. Leaves(p) /\ UNCHANGED caseVars
    BY <1>7, SucceedLeaves, RefuseLeaves DEF RefuseMember, ReadMember
  <2>2. /\ req[p].at \in {"add_member", "member_row"}
        /\ req[p].op = "add_member"
    BY <1>7, Standing DEF RefuseMember, ReadMember, At, OnWay, Checks
  <2> QED
    BY <1>4, <1>5, <2>1, <2>2
<1>8. CASE InsertOwnerRow(p) \/ UpsertOwner(p)
  <2>1. /\ req[p].at \in {"owner_row", "add_member"} /\ req[p].op # "none"
        /\ cases' = cases /\ members' = WithOwnerRow(req[p].case, req[p].user)
    BY <1>8, Standing DEF InsertOwnerRow, UpsertOwner, At, OnWay, InHandler, Checks
  <2>2. /\ req'[p].case = req[p].case
        /\ \/ req'[p].at = "case" /\ req'[p].then = "answer"
           \/ req'[p].at = "member_row"
    BY <1>8 DEF InsertOwnerRow, UpsertOwner, Check, Carry, FlowInv, Fields
  <2>3. /\ members' \in [Cases -> [Users -> Roles]] /\ Shrinks
        /\ \A c \in Cases : CaseOK(c)'
    BY <1>1, <2>1, OwnerRow DEF OwnerPlaces
  <2>4. Plain(p)
    BY <1>1, <2>1, <2>2 DEF Plain, Needed, Heading, Checks
  <2>5. Noted
    BY <1>1, <2>1, <2>2, <2>3, ShrinksNoted
  <2> QED
    BY <1>1, <1>2, <2>1, <2>3, <2>4, <2>5, PlainKept
<1>9. CASE DeleteCase(p)
  <2>1. /\ req[p].at = "delete_case" /\ req[p].op = "delete_case" /\ Leaves(p)
        /\ members' = members
    BY <1>9, Standing, SucceedLeaves DEF DeleteCase, At, OnWay, Checks
  <2>2. PICK c \in Cases : /\ c = req[p].case /\ cases[c].status # "none"
                           /\ cases[c].owner = req[p].user
    BY <1>2, <2>1 DEF Equipped, OwnerPlaces
  <2>3. PICK row \in CaseRow : /\ row.owner = cases[c].owner /\ row.status = "deleted"
                               /\ cases' = [cases EXCEPT ![c] = row]
    <3>1. [cases[c] EXCEPT !.status = "deleted"] \in CaseRow
      BY <1>2 DEF CaseRow, Statuses
    <3>2. cases' = [cases EXCEPT ![c] = [cases[c] EXCEPT !.status = "deleted"]]
      BY <1>9, <2>2 DEF DeleteCase
    <3>3. /\ [cases[c] EXCEPT !.status = "deleted"].owner = cases[c].owner
          /\ [cases[c] EXCEPT !.status = "deleted"].status = "deleted"
      BY <1>2 DEF CaseRow
    <3> QED
      BY <3>1, <3>2, <3>3
  <2>4. /\ cases' \in [Cases -> CaseRow] /\ \A d \in Cases : CaseOK(d)'
        /\ cases'[c] = row /\ \A d \in Cases \ {c} : cases'[d] = cases[d]
    BY <1>1, <1>2, <2>1, <2>2, <2>3, CaseChanges
  <2>5. Shrinks
    BY <2>1, <2>3, <2>4, RightsOf DEF Shrinks
  <2>6. Noted
    BY <1>1, <2>1, <2>5, ShrinksNoted DEF Same
  <2> QED
    BY <1>1, <1>2, <1>5, <2>1, <2>2, <2>3, <2>4, <2>6, PlainKept
<1>10. CASE RemoveMember(p)
  <2>1. /\ req[p].at = "remove_member" /\ req[p].op = "remove_member" /\ Leaves(p)
        /\ cases' = cases
    BY <1>10, Standing, SucceedLeaves, RefuseLeaves
    DEF RemoveMember, At, OnWay, Checks
  <2>2. PICK c \in Cases : /\ c = req[p].case /\ cases[c].status # "none"
                           /\ cases[c].owner = req[p].user
    BY <1>2, <2>1 DEF Equipped, OwnerPlaces
  <2>3. CASE members' = members
    BY <1>4, <1>5, <2>1, <2>3 DEF caseVars
  <2>4. CASE members' # members
    <3>1. PICK u \in Users \ {cases[c].owner} : members' = [members EXCEPT ![c][u] = "none"]
      BY <1>2, <1>10, <2>1, <2>2, <2>4 DEF RemoveMember, Equipped
    <3>2. /\ members' \in [Cases -> [Users -> Roles]] /\ \A d \in Cases : CaseOK(d)'
      BY <1>1, <2>1, <2>2, <3>1, MemberChanges DEF Roles
    <3>3. /\ members'[c][u] = "none"
          /\ \A d \in Cases, v \in Users : d # c \/ v # u => members'[d][v] = members[d][v]
      BY <1>2, <3>1
    <3>4. Shrinks
      BY <2>1, <3>3, RightsOf DEF Shrinks
    <3>5. Noted
      BY <1>1, <2>1, <3>4, ShrinksNoted DEF Same
    <3> QED
      BY <1>1, <1>2, <1>5, <2>1, <3>2, <3>5, PlainKept
  <2> QED
    BY <2>3, <2>4
<1>11. CASE InsertCase(p)
  <2>1. /\ req[p].at = "create_case" /\ req[p].op = "create_case" /\ members' = members
        /\ req[p].user \in Users
    BY <1>2, <1>11, Standing DEF InsertCase, At, OnWay, Checks, RequestOK
  <2>2. PICK c \in Cases :
           /\ cases[c].status = "none"
           /\ cases' = [cases EXCEPT ![c] = [owner |-> req[p].user, status |-> "active",
                                             name |-> "a"]]
           /\ req' = Informed([req EXCEPT ![p].at = "owner_row", ![p].case = c],
                              cases', members)
    BY <1>11 DEF InsertCase
  <2> DEFINE sent == [req EXCEPT ![p].at = "owner_row", ![p].case = c]
  <2>3. /\ DOMAIN sent = Slots /\ \A q \in Slots : DOMAIN sent[q] = Fields
        /\ sent[p].at = "owner_row" /\ sent[p].case = c
        /\ req' = Informed(sent, cases', members')
    BY <2>1, <2>2 DEF FlowInv, Fields
  <2> HIDE DEF sent
  <2>4. Noted /\ req'[p].at = "owner_row" /\ req'[p].case = c
    BY <2>3, InformedNoted, InformedKeeps DEF Fields
  <2>5. /\ cases' \in [Cases -> CaseRow] /\ cases'[c].owner = req[p].user
        /\ cases'[c].status = "active"
        /\ \A d \in Cases \ {c} : cases'[d] = cases[d]
    BY <1>2, <2>1, <2>2 DEF CaseRow, Statuses
  <2>6. CaseOK(c)'
    BY <1>2, <2>1, <2>2, <2>4, <2>5 DEF CaseOK, HasRow
  <2>7. ASSUME NEW d \in Cases \ {c} PROVE CaseOK(d)'
    <3>1. HasRow(d) => HasRow(d)'
      BY <1>1, <2>1, <2>5, RowStays
    <3> QED
      BY <1>2, <2>1, <2>5, <3>1 DEF CaseOK
  <2>8. Plain(p)
    BY <1>1, <2>1, <2>4, <2>5 DEF Plain, Same, Needed, Heading, Checks
  <2> QED
    BY <1>1, <1>2, <2>1, <2>2, <2>4, <2>5, <2>6, <2>7, <2>8, PlainKept
<1>12. CASE WriteCase(p)
  <2>1. /\ req[p].at = "update_case" /\ req[p].op = "update_case" /\ members' = members
    BY <1>12, Standing DEF WriteCase, At, OnWay, Checks
  <2>2. PICK c \in Cases : c = req[p].case
    BY <1>2, <2>1 DEF Equipped, CaseOps
  <2>3. /\ cases[c].status # "none" /\ req[p].saw \in CaseRow
        /\ req[p].saw.status # "none"
        /\ req[p].arg.name \in NewName /\ req[p].arg.status \in NewStatus
    BY <1>2, <2>1, <2>2, CasePlaces DEF Equipped
  <2>4. PICK row \in CaseRow : /\ row.owner = cases[c].owner /\ row.status # "none"
                               /\ cases' = [cases EXCEPT ![c] = row]
    <3> DEFINE new == Rewritten(cases[c], req[p].saw, req[p].arg)
    <3>1. new \in CaseRow /\ new.owner = cases[c].owner /\ new.status # "none"
      BY <1>2, <2>3 DEF Rewritten, CaseRow, Statuses, NewName, NewStatus
    <3>2. cases' = [cases EXCEPT ![c] = new]
      BY <1>12, <2>2 DEF WriteCase
    <3> QED
      BY <3>1, <3>2
  <2>5. /\ cases' \in [Cases -> CaseRow] /\ \A d \in Cases : CaseOK(d)'
        /\ cases'[c] = row /\ \A d \in Cases \ {c} : cases'[d] = cases[d]
    BY <1>1, <1>2, <2>1, <2>3, <2>4, CaseChanges
  <2> DEFINE sent == [req EXCEPT ![p].at = "case", ![p].need = "read",
                                ![p].then = "answer"]
  <2>6. /\ DOMAIN sent = Slots /\ \A q \in Slots : DOMAIN sent[q] = Fields
        /\ sent[p].at = "case" /\ sent[p].then = "answer"
    BY DEF FlowInv, Fields
  <2>7. req' = Informed(sent, cases', members')
    BY <1>12 DEF WriteCase
  <2> HIDE DEF sent
  <2>8. Noted /\ req'[p].at = "case" /\ req'[p].then = "answer"
    BY <2>6, <2>7, InformedNoted, InformedKeeps DEF Fields
  <2>9. Plain(p)
    BY <1>1, <2>1, <2>8 DEF Plain, Needed, Heading, Checks
  <2> QED
    BY <1>1, <1>2, <2>1, <2>2, <2>4, <2>5, <2>8, <2>9, PlainKept
<1>13. CASE UpsertMember(p)
  <2>1. /\ req[p].at = "add_member" /\ req[p].op = "add_member" /\ cases' = cases
    BY <1>13, Standing DEF UpsertMember, At, OnWay, Checks
  <2>2. PICK c \in Cases : /\ c = req[p].case /\ cases[c].status # "none"
                           /\ cases[c].owner = req[p].user
    BY <1>2, <2>1 DEF Equipped, OwnerPlaces
  <2>3. PICK u \in Users \ {cases[c].owner}, role \in Roles \ {"owner"} :
           members' = [members EXCEPT ![c][u] = role]
    BY <1>2, <1>13, <2>1, <2>2 DEF UpsertMember, Equipped, Roles
  <2>4. /\ members' \in [Cases -> [Users -> Roles]] /\ \A d \in Cases : CaseOK(d)'
    BY <1>1, <2>1, <2>2, <2>3, MemberChanges
  <2> DEFINE sent == [req EXCEPT ![p].at = "member_row"]
  <2>5. /\ DOMAIN sent = Slots /\ \A q \in Slots : DOMAIN sent[q] = Fields
        /\ sent[p].at = "member_row"
    BY DEF FlowInv, Fields
  <2>6. req' = Informed(sent, cases', members')
    BY <1>13 DEF UpsertMember
  <2> HIDE DEF sent
  <2>7. Noted /\ req'[p].at = "member_row"
    BY <2>5, <2>6, InformedNoted, InformedKeeps DEF Fields
  <2>8. Plain(p)
    BY <1>1, <2>1, <2>7 DEF Plain, Needed, Heading, Checks
  <2> QED
    BY <1>1, <1>2, <2>1, <2>4, <2>7, <2>8, PlainKept
<1> QED
  BY <1>3, <1>6, <1>7, <1>8, <1>9, <1>10, <1>11, <1>12, <1>13 DEF CaseStep

\* In the beginning every case has the owner who is in it.
LEMMA AccessInit == WorkInit => AccessInv
<1> SUFFICES ASSUME WorkInit PROVE AccessInv
  OBVIOUS
<1>1. /\ req = [p \in Slots |-> Idle] /\ menu \in Menus
      /\ \E seed \in CaseSeeds[menu.about] : cases = seed.cases /\ members = seed.members
  BY DEF WorkInit, RequestInit, CaseInit
<1>2. /\ cases \in [Cases -> CaseRow] /\ members \in [Cases -> [Users -> Roles]]
      /\ \A c \in Cases : Founded(cases[c], members[c])
  BY <1>1, WorkspaceAssumption
<1>3. \A c \in Cases : CaseOK(c)
  BY <1>2 DEF Founded, CaseOK, HasRow
<1>4. CrossPairs
  BY <1>1 DEF CrossPairs, Idle
<1> QED
  BY <1>1, <1>2, <1>3, <1>4, IdleAccess DEF AccessInv

\* Every step keeps the cases, their members and the access in order.
LEMMA AccessNext ==
    ASSUME FlowInv, AccessInv, [Next]_vars
    PROVE  AccessInv'
<1>1. ASSUME UNCHANGED <<req, crossed, broken, caseVars>> PROVE AccessInv'
  BY <1>1 DEF caseVars, AccessInv, CaseOK, HasRow, AccessOK, Equipped, Entitles,
     Overtaken, CrossPairs
<1>2. ASSUME NEW p \in Slots,
             PersonStep(p) \/ TimelineStep(p) \/ AgentStep(p) \/ AccountStep(p)
      PROVE  AccessInv'
  <2>1. UNCHANGED caseVars
    BY <1>2 DEF PersonStep, TimelineStep, AgentStep, AccountStep
  <2>2. /\ PersonOps \cap CaseOps = {} /\ TimelineOps \cap CaseOps = {}
        /\ AgentOps \cap CaseOps = {} /\ AccountOps \cap CaseOps = {}
    BY DEF CaseOps, PersonOps, TimelineOps, AgentOps, AccountOps
  <2> QED
    BY <1>2, <2>1, <2>2, ForeignAccess, PersonTurn, TimelineTurn, AgentTurn,
       AccountTurn
<1>3. ASSUME NEW p \in Slots, RequestStep(p) PROVE AccessInv'
  <2>1. CASE LookupMiss(p) \/ LookupFails(p)
    BY <2>1, EntryAccess
  <2>2. CASE CheckCase(p) \/ CheckMember(p)
    BY <2>2, CheckAccess
  <2>3. CASE Replay(p) \/ Record(p) \/ RecordFails(p) \/ CutShort(p)
    <3>1. Others(p) /\ crossed \subseteq crossed'
      BY <1>3, RequestStepTurn DEF RequestTurn
    <3>2. /\ req'[p] = Idle /\ UNCHANGED caseVars
          /\ req[p].at # "owner_row" \/ CutShort(p)
      BY <2>3 DEF Replay, Record, RecordFails, CutShort, At, FlowInv
    <3> QED
      BY <3>1, <3>2, GoneAccess
  <2> QED
    BY <1>3, <2>1, <2>2, <2>3 DEF RequestStep
<1>4. CASE WindowStep
  BY <1>1, <1>4 DEF WindowStep, WindowEnds
<1>5. CASE AllServed \/ UNCHANGED vars
  BY <1>1, <1>5 DEF AllServed, vars, requestVars
<1> QED
  BY <1>2, <1>3, <1>4, <1>5, CaseAccess DEF Next

(* What a request is about to write was let through.  Which access each    *)
(* place takes is Needed, and it agrees with the tables of AllWrites.      *)
THEOREM WritesAreAuthorised == Spec => []AuthorisedWrites
<1>1. FlowInv /\ AccessInv /\ [Next]_vars => (FlowInv /\ AccessInv)'
  BY FlowStep, AccessNext
<1>2. AccessInv => AuthorisedWrites
  <2> SUFFICES ASSUME AccessInv, NEW table \in AllWrites, NEW p \in Slots,
                      req[p].at \in DOMAIN table
               PROVE  {"live", table[req[p].at]} \subseteq req[p].may
    BY DEF AuthorisedWrites
  <2>1. table[req[p].at] = Needed(req[p].at) /\ Needed(req[p].at) # "none"
    BY DEF AllWrites, CaseWrites, PersonWrites, TimelineWrites, AgentWrites, Needed
  <2> QED
    BY <2>1 DEF AccessInv, AccessOK, Entitles
<1> QED
  BY <1>1, <1>2, FlowInit, AccessInit, PTL DEF Spec

\* The owner is in his case and nobody else is there as the owner.
THEOREM MembersAgree == Spec => []MembershipAgrees
<1>1. FlowInv /\ AccessInv /\ [Next]_vars => (FlowInv /\ AccessInv)'
  BY FlowStep, AccessNext
<1>2. AccessInv => MembershipAgrees
  <2> SUFFICES ASSUME AccessInv, NEW c \in Cases
               PROVE  /\ \A u \in Users :
                           /\ (c \in ListCases(u)) = GetCase(u, c)
                           /\ (MyMembership(u, c) # "none") = GetCase(u, c)
                           /\ members[c][u] = "owner" => cases[c].owner = u
                      /\ Live(c) =>
                           \/ /\ members[c][cases[c].owner] = "owner"
                              /\ cases[c].owner \in ListMembers(c)
                           \/ <<"create_case", "owner_row">> \in broken
                           \/ \E p \in Slots : req[p].case = c /\ At(p, "owner_row")
    BY DEF MembershipAgrees
  <2>1. CaseOK(c)
    BY DEF AccessInv
  <2>2. ASSUME NEW u \in Users
        PROVE  /\ (c \in ListCases(u)) <=> GetCase(u, c)
               /\ (MyMembership(u, c) # "none") <=> GetCase(u, c)
    BY DEF ListCases, GetCase, MyMembership, Entitled, Lets, Available, RoleAllows
  <2>3. ASSUME NEW u \in Users, members[c][u] = "owner" PROVE cases[c].owner = u
    BY <2>1, <2>3 DEF CaseOK
  <2>4. Live(c) => cases[c].owner \in Users /\ HasRow(c)
    BY <2>1 DEF Live, Available, CaseOK
  <2>5. \A u \in Users : /\ (c \in ListCases(u)) \in BOOLEAN
                         /\ (MyMembership(u, c) # "none") \in BOOLEAN
                         /\ GetCase(u, c) \in BOOLEAN
    BY DEF GetCase
  <2> QED
    BY <2>2, <2>3, <2>4, <2>5 DEF HasRow, ListMembers, At
<1> QED
  BY <1>1, <1>2, FlowInit, AccessInit, PTL DEF Spec

\* A deleted case comes back at the hand of an update that was let through.
THEOREM ReturnsAreOvertaken == Spec => DeletedReturns
<1> DEFINE Step ==
      \A c \in Cases :
         (cases[c].status = "deleted" /\ cases'[c].status # "deleted") =>
            \E p \in Slots :
               /\ At(p, "update_case") /\ req[p].case = c
               /\ "live" \in req[p].may
               /\ \E op \in {"delete_case", "update_case"} :
                    {"update_case", op} \in crossed
<1>1. FlowInv /\ AccessInv /\ [Next]_vars => (FlowInv /\ AccessInv)'
  BY FlowStep, AccessNext
<1>2. ASSUME FlowInv, AccessInv, [Next]_vars
      PROVE  Step
  <2> SUFFICES ASSUME NEW c \in Cases, cases[c].status = "deleted",
                      cases'[c].status # "deleted"
               PROVE  \E p \in Slots :
                         /\ At(p, "update_case") /\ req[p].case = c
                         /\ "live" \in req[p].may
                         /\ \E op \in {"delete_case", "update_case"} :
                              {"update_case", op} \in crossed
    OBVIOUS
  <2>1. PICK p \in Slots : CaseStep(p)
    <3>1. \A q \in Slots :
             RequestStep(q) \/ PersonStep(q) \/ TimelineStep(q) \/ AgentStep(q)
                \/ AccountStep(q) => cases' = cases
      BY DEF RequestStep, Replay, LookupMiss, LookupFails, Record, RecordFails,
         CheckCase, CheckMember, CutShort, PersonStep, TimelineStep, AgentStep,
         AccountStep, caseVars
    <3>2. WindowStep \/ AllServed \/ UNCHANGED vars => cases' = cases
      BY DEF WindowStep, WindowEnds, AllServed, vars, caseVars
    <3> QED
      BY <1>2, <3>1, <3>2 DEF Next
  <2>2. WriteCase(p) /\ req[p].case = c
    <3>1. CASE InsertCase(p)
      BY <1>2, <3>1 DEF InsertCase, AccessInv
    <3>2. CASE DeleteCase(p)
      BY <1>2, <3>2 DEF DeleteCase, AccessInv, CaseRow
    <3>3. CASE WriteCase(p)
      BY <1>2, <3>3 DEF WriteCase, AccessInv
    <3>4. CASE ~(InsertCase(p) \/ DeleteCase(p) \/ WriteCase(p))
      BY <2>1, <3>4 DEF CaseStep, SendCreateCase, InsertOwnerRow, SendUpdateCase,
         ReadCase, SendDeleteCase, SendAddMember, UpsertMember, UpsertOwner,
         RefuseMember, ReadMember, SendRemoveMember, RemoveMember, caseVars
    <3> QED
      BY <3>1, <3>2, <3>3, <3>4
  <2>3. At(p, "update_case") /\ req[p].at = "update_case"
    BY <2>2 DEF WriteCase, At
  <2>4. /\ "live" \in req[p].may
        /\ {"update_case", "delete_case"} \in crossed \/ {"update_case"} \in crossed
    BY <1>2, <2>2, <2>3 DEF AccessInv, AccessOK, Entitles, Overtaken, Needed
  <2>5. {"update_case"} = {"update_case", "update_case"}
    OBVIOUS
  <2> QED
    BY <2>2, <2>3, <2>4, <2>5
<1>3. Step => [Step]_<<cases, req>>
  OBVIOUS
<1> QED
  BY <1>1, <1>2, FlowInit, AccessInit, PTL DEF Spec, DeletedReturns
-----------------------------------------------------------------------------
(***************************************************************************)
(* The agent.  A decision is a read of the call and two later writes by    *)
(* id, with the statements of the tool in between.  What a request knows   *)
(* of its call stays true as long as no other request decides on it, and   *)
(* two that do have crossed.                                               *)
(***************************************************************************)
Solo  == {"confirm"} \notin crossed
Clean == Solo /\ {"confirm", "reject"} \notin crossed

CaseOf(k) == sessions[calls[k].session].case

\* The places before the tool, and a request in it.
BeforeTool == {"lookup", "session", "pending_row", "decide", "approve_row"}
ToolPlaces == {"tool_operation", "tool_sort", "tool_insert", "tool_done", "tool_failed"}
Runs(r) == r.op \in {"post", "confirm"} /\ r.at \notin BeforeTool \cup {"record"}

\* What a request to the agent was sent with, and where it is bound.
Armed(r) ==
    /\ r.op \in {"confirm", "reject"} =>
          /\ r.arg.call \in CallIds /\ calls[r.arg.call].status # "none"
          /\ r.case = CaseOf(r.arg.call)
    /\ r.op = "post" =>
          /\ r.arg.session \in SessionIds /\ sessions[r.arg.session].status # "none"
          /\ r.arg.tool \in Tools /\ r.arg.day \in Days
    /\ r.op \in {"post", "confirm", "reject"} /\ r.at = "lookup" =>
          r.need = "none" /\ r.then = IF r.op = "post" THEN "session" ELSE "decide"
    /\ r.op = "create_session" => r.case \in Cases \cup {NoCase}
    /\ r.op = "reject" => r.at \notin Checks
    /\ Runs(r) => r.deny = "tool_failed" /\ Heading(r) \in ToolPlaces
    /\ Runs(r) /\ r.op = "post" => r.saw.tool = r.arg.tool

\* What the place of a decision says of its call.
Decides(r) ==
    /\ Solo /\ r.op = "confirm" =>
          /\ r.at = "approve_row" => ran[r.arg.call] = 0
          /\ Runs(r) => /\ calls[r.arg.call].status # "pending"
                        /\ ran[r.arg.call] = IF Carried(r) THEN 1 ELSE 0
    /\ Clean /\ r.op = "confirm" =>
          /\ r.at = "approve_row" => calls[r.arg.call].status = "pending"
          /\ Runs(r) => /\ calls[r.arg.call].status = "approved"
                        /\ r.saw.tool = calls[r.arg.call].tool
    /\ Clean /\ r.op = "reject" /\ r.at = "reject_row" =>
          ran[r.arg.call] = 0 /\ calls[r.arg.call].status \in {"pending", "rejected"}

\* Somebody executes the call, or was to.
Executed(k) ==
    \/ \E p \in Slots : /\ Runs(req[p]) /\ req[p].op = "confirm"
                        /\ req[p].arg.call = k
    \/ \E b \in broken : b[1] = "confirm"

\* What the status of a call says.
CallOK(k) ==
    /\ calls[k].status # "none" => sessions[calls[k].session].status # "none"
    /\ calls[k].status = "none" => ran[k] = 0
    /\ Solo => ran[k] <= 1 /\ (calls[k].status = "pending" => ran[k] = 0)
    /\ Clean =>
          /\ calls[k].status \in {"rejected", "failed"} => ran[k] = 0
          /\ calls[k].status = "executed" /\ calls[k].tool = "create_node" => ran[k] = 1
          /\ calls[k].status = "approved" => Executed(k)

\* The messages that have yet to insert a row, and there is one for each.
Posting == {q \in Slots : req[q].op = "post" /\ req[q].at # "record"}
RowsLeft == Cardinality(Posting) <= Cardinality(FreshCall)

AgentInv ==
    /\ AgentTypeOK
    /\ \A k \in CallIds : CallOK(k)
    /\ \A p \in Slots : Armed(req[p]) /\ Decides(req[p])
    /\ RowsLeft

-----------------------------------------------------------------------------
\* What the steps of p do to the tables of the agent: rows stay, and a call
\* that is there is changed by a decision on it alone.
Upholds(p) ==
    /\ AgentTypeOK'
    /\ \A s \in SessionIds : sessions[s].status # "none" =>
          sessions'[s].status # "none" /\ sessions'[s].case = sessions[s].case
    /\ \A k \in CallIds : calls[k].status # "none" =>
          /\ calls'[k].status # "none" /\ calls'[k].session = calls[k].session
          /\ calls'[k].tool = calls[k].tool
          /\ \/ calls'[k] = calls[k] /\ ran'[k] = ran[k]
             \/ req[p].op = "confirm" /\ req[p].arg.call = k
             \/ /\ req[p].op = "reject" /\ req[p].arg.call = k
                /\ ran'[k] = ran[k] /\ calls'[k].status = "rejected"

\* Two decisions on a call that are in flight have crossed.
LEMMA DecisionsCross ==
    ASSUME AccessInv, AgentInv, NEW p \in Slots, NEW q \in Slots \ {p},
           req[p].op \in {"confirm", "reject"}, req[q].op \in {"confirm", "reject"},
           req[p].arg.call = req[q].arg.call
    PROVE  /\ ~Clean \/ (req[p].op = "reject" /\ req[q].op = "reject")
           /\ ~Solo \/ req[p].op = "reject" \/ req[q].op = "reject"
<1>1. req[p].case = req[q].case
  BY DEF AgentInv, Armed
<1>2. {req[p].op, req[q].op} \in crossed
  BY <1>1 DEF AccessInv, CrossPairs
<1> QED
  BY <1>2 DEF Clean, Solo

\* What p does leaves what every other request knows true.
LEMMA OtherAgent ==
    ASSUME FlowInv, AccessInv, AgentInv, NEW p \in Slots, Others(p),
           crossed \subseteq crossed', Upholds(p), NEW q \in Slots \ {p}
    PROVE  Armed(req[q])' /\ Decides(req[q])'
<1>1. /\ req'[q].op = req[q].op /\ req'[q].at = req[q].at
      /\ req'[q].then = req[q].then /\ req'[q].case = req[q].case
      /\ req'[q].need = req[q].need /\ req'[q].deny = req[q].deny
      /\ req'[q].arg = req[q].arg /\ req'[q].saw = req[q].saw
  BY DEF Others, Fields
<1>2. /\ Armed(req[q]) /\ Decides(req[q])
      /\ \A k \in CallIds : CallOK(k) /\ calls[k].session \in SessionIds
  BY DEF AgentInv, AgentTypeOK, CallRow
<1>3. (Runs(req'[q]) <=> Runs(req[q])) /\ Heading(req'[q]) = Heading(req[q])
  BY <1>1 DEF Runs, Heading
<1>4. Carried(req'[q]) <=> Carried(req[q])
  BY <1>1 DEF Carried
<1>5. (Solo' => Solo) /\ (Clean' => Clean)
  BY DEF Solo, Clean
<1>6. Armed(req[q])'
  BY <1>1, <1>2, <1>3 DEF Armed, CallOK, Upholds, CaseOf
<1>7. Decides(req[q])'
  <2>1. CASE req[q].op \notin {"confirm", "reject"}
    BY <1>1, <2>1 DEF Decides
  <2>2. CASE req[q].op \in {"confirm", "reject"}
    <3> DEFINE k == req[q].arg.call
    <3>1. k \in CallIds /\ calls[k].status # "none"
      BY <1>2, <2>2 DEF Armed
    <3>2. CASE calls'[k] = calls[k] /\ ran'[k] = ran[k]
      BY <1>1, <1>2, <1>3, <1>4, <1>5, <3>2 DEF Decides
    <3>3. CASE req[p].op = "confirm" /\ req[p].arg.call = k
      <4>1. ~Clean /\ (~Solo \/ req[q].op = "reject")
        BY <2>2, <3>3, DecisionsCross
      <4> QED
        BY <1>1, <1>5, <4>1 DEF Decides
    <3>4. CASE /\ req[p].op = "reject" /\ req[p].arg.call = k
               /\ ran'[k] = ran[k] /\ calls'[k].status = "rejected"
      <4>1. ~Clean \/ req[q].op = "reject"
        BY <2>2, <3>4, DecisionsCross
      <4>2. calls'[k].tool = calls[k].tool
        BY <3>1 DEF Upholds
      <4> QED
        BY <1>1, <1>2, <1>3, <1>4, <1>5, <3>4, <4>1, <4>2 DEF Decides
    <3> QED
      BY <3>1, <3>2, <3>3, <3>4 DEF Upholds
  <2> QED
    BY <2>1, <2>2
<1> QED
  BY <1>6, <1>7

\* A call keeps who executes it, unless p is done with it.
LEMMA ExecutedKept ==
    ASSUME FlowInv, NEW p \in Slots, Others(p), NEW k, Executed(k),
           (Runs(req[p]) /\ req[p].op = "confirm" /\ req[p].arg.call = k)
             => Executed(k)'
    PROVE  Executed(k)'
<1>1. ASSUME NEW q \in Slots \ {p}, Runs(req[q]), req[q].op = "confirm",
             req[q].arg.call = k
      PROVE  Executed(k)'
  <2>1. Runs(req'[q]) /\ req'[q].op = "confirm" /\ req'[q].arg.call = k
    BY <1>1 DEF Others, Fields, Runs
  <2> QED
    BY <2>1 DEF Executed
<1>2. broken \subseteq broken'
  BY DEF Others
<1> QED
  BY <1>1, <1>2 DEF Executed

\* A call that p leaves alone.
LEMMA CallKept ==
    ASSUME FlowInv, AgentInv, NEW p \in Slots, Others(p), crossed \subseteq crossed',
           Upholds(p), NEW k \in CallIds, calls'[k] = calls[k], ran'[k] = ran[k],
           (Runs(req[p]) /\ req[p].op = "confirm" /\ req[p].arg.call = k)
             => Executed(k)'
    PROVE  CallOK(k)'
<1>1. CallOK(k) /\ calls[k].session \in SessionIds
  BY DEF AgentInv, AgentTypeOK, CallRow
<1>2. (Solo' => Solo) /\ (Clean' => Clean)
  BY DEF Solo, Clean
<1>3. Executed(k) => Executed(k)'
  BY ExecutedKept
<1> QED
  BY <1>1, <1>2, <1>3 DEF CallOK, Upholds

\* The rows that messages have yet to insert, and those that are free.
LEMMA RowCounts ==
    /\ IsFiniteSet(Posting) /\ Cardinality(Posting) \in Nat
    /\ IsFiniteSet(FreshCall) /\ Cardinality(FreshCall) \in Nat
    /\ IsFiniteSet(Posting') /\ Cardinality(Posting') \in Nat
    /\ IsFiniteSet(FreshCall') /\ Cardinality(FreshCall') \in Nat
<1>1. IsFiniteSet(Slots) /\ IsFiniteSet(CallIds)
  BY WorkspaceAssumption
<1>2. /\ Posting \in SUBSET Slots /\ FreshCall \in SUBSET CallIds
      /\ Posting' \in SUBSET Slots /\ FreshCall' \in SUBSET CallIds
  BY DEF Posting, FreshCall
<1> QED
  BY <1>1, <1>2, FS_Subset, FS_CardinalityType

\* No row is taken, and no message comes in.
LEMMA RowsKept ==
    ASSUME RowsLeft, FreshCall \subseteq FreshCall', Posting' \subseteq Posting
    PROVE  RowsLeft'
<1>1. Cardinality(FreshCall) <= Cardinality(FreshCall')
  BY RowCounts, FS_Subset
<1>2. Cardinality(Posting') <= Cardinality(Posting)
  BY RowCounts, FS_Subset
<1> QED
  BY <1>1, <1>2, RowCounts DEF RowsLeft

\* What it takes for the agent to be in order after a step of p.
LEMMA AgentKept ==
    ASSUME FlowInv, AccessInv, AgentInv, NEW p \in Slots, Others(p),
           crossed \subseteq crossed', Upholds(p),
           Armed(req[p])', Decides(req[p])', RowsLeft',
           \A k \in CallIds : CallOK(k)'
    PROVE  AgentInv'
<1>1. \A q \in Slots : Armed(req[q])' /\ Decides(req[q])'
  BY OtherAgent
<1> QED
  BY <1>1 DEF AgentInv, Upholds

\* A request that has no message to insert a row for afterwards.
LEMMA PostingKept ==
    ASSUME NEW p \in Slots, Others(p),
           req'[p].op = "post" /\ req'[p].at # "record"
             => req[p].op = "post" /\ req[p].at # "record"
    PROVE  Posting' \subseteq Posting
<1>1. \A q \in Slots \ {p} : req'[q].op = req[q].op /\ req'[q].at = req[q].at
  BY DEF Others, Fields
<1> QED
  BY <1>1 DEF Posting

\* A step that leaves the tables alone.
LEMMA AgentStill ==
    ASSUME FlowInv, AccessInv, AgentInv, NEW p \in Slots, Others(p),
           crossed \subseteq crossed', UNCHANGED agentVars,
           Armed(req[p])', Decides(req[p])',
           \A k : Runs(req[p]) /\ req[p].op = "confirm" /\ req[p].arg.call = k
                   => Executed(k)',
           req'[p].op = "post" /\ req'[p].at # "record"
             => req[p].op = "post" /\ req[p].at # "record"
    PROVE  AgentInv'
<1>1. sessions' = sessions /\ calls' = calls /\ ran' = ran /\ auto' = auto
  BY DEF agentVars
<1>2. Upholds(p)
  BY <1>1 DEF AgentInv, AgentTypeOK, Upholds
<1>3. \A k \in CallIds : CallOK(k)'
  BY <1>1, <1>2, CallKept
<1>4. RowsLeft'
  <2>1. FreshCall' = FreshCall /\ RowsLeft
    BY <1>1 DEF FreshCall, AgentInv
  <2> QED
    BY <2>1, PostingKept, RowsKept
<1> QED
  BY <1>2, <1>3, <1>4, AgentKept

-----------------------------------------------------------------------------
\* A request that is none of the agent's.
LEMMA NoAgent ==
    ASSUME NEW p \in Slots, req'[p].op \notin {"post", "confirm", "reject"},
           req'[p].op = "create_session" => req'[p].case \in Cases \cup {NoCase}
    PROVE  Armed(req[p])' /\ Decides(req[p])'
  BY DEF Armed, Decides, Runs

\* A slot that is free.
LEMMA IdleAgent ==
    ASSUME NEW p \in Slots, req'[p] = Idle
    PROVE  req'[p].op = "none" /\ Armed(req[p])' /\ Decides(req[p])'
<1>1. req'[p].op = "none"
  BY DEF Idle
<1> QED
  BY <1>1, NoAgent

\* The steps of the other components.
LEMMA ForeignAgent ==
    ASSUME FlowInv, AccessInv, AgentInv, NEW p \in Slots, NEW ops,
           ops \cap AgentOps = {}, Turn(p, ops), UNCHANGED agentVars
    PROVE  AgentInv'
<1>1. Others(p) /\ crossed \subseteq crossed'
  BY DEF Turn
<1>2. req'[p].op \notin AgentOps /\ req[p].op \notin AgentOps
  BY IdleAgent DEF Turn, Serves, Sent, Quiet, Applies, Ends, InHandler, Same,
     AgentOps
<1>3. ~Runs(req[p])
  BY <1>2 DEF Runs, AgentOps
<1>4. Armed(req[p])' /\ Decides(req[p])'
  BY <1>2, NoAgent DEF AgentOps
<1> QED
  BY <1>1, <1>2, <1>3, <1>4, AgentStill DEF AgentOps

\* The look-up lets a request through to its first place.
LEMMA EntryAgent ==
    ASSUME FlowInv, AccessInv, AgentInv, NEW p \in Slots,
           LookupMiss(p) \/ LookupFails(p), UNCHANGED agentVars
    PROVE  AgentInv'
<1>1. Others(p) /\ crossed \subseteq crossed'
  BY EntryTurn DEF RequestTurn
<1>2. /\ req[p].at = "lookup" /\ req'[p].at = FirstStep(req[p])
      /\ \A f \in Fields \ {"at"} : req'[p][f] = req[p][f]
  BY DEF LookupMiss, LookupFails, At, FlowInv, Fields
<1>3. /\ req'[p].op = req[p].op /\ req'[p].arg = req[p].arg
      /\ req'[p].case = req[p].case
  BY <1>2 DEF Fields
<1>4. Armed(req[p])
  BY DEF AgentInv
<1>5. CASE req[p].op \in {"post", "confirm", "reject"}
  <2>1. req'[p].at = IF req[p].op = "post" THEN "session" ELSE "decide"
    BY <1>2, <1>4, <1>5 DEF Armed, FirstStep
  <2>2. ~Runs(req'[p]) /\ ~Runs(req[p])
    BY <1>2, <1>3, <2>1 DEF Runs, BeforeTool
  <2>3. Armed(req[p])' /\ Decides(req[p])'
    BY <1>3, <1>4, <2>1, <2>2 DEF Armed, Decides, Checks, agentVars, CaseOf
  <2> QED
    BY <1>1, <1>2, <1>3, <2>2, <2>3, AgentStill
<1>6. CASE req[p].op \notin {"post", "confirm", "reject"}
  <2>1. Armed(req[p])' /\ Decides(req[p])' /\ ~Runs(req[p])
    BY <1>3, <1>4, <1>6, NoAgent DEF Armed, Runs
  <2> QED
    BY <1>1, <1>3, <1>6, <2>1, AgentStill
<1> QED
  BY <1>5, <1>6

\* A request that leaves by the middleware, or is cut short.
LEMMA GoneAgent ==
    ASSUME FlowInv, AccessInv, AgentInv, NEW p \in Slots, UNCHANGED agentVars,
           Replay(p) \/ Record(p) \/ RecordFails(p) \/ CutShort(p)
    PROVE  AgentInv'
<1>1. Others(p) /\ crossed \subseteq crossed'
  BY RequestStepTurn DEF RequestTurn, RequestStep
<1>2. /\ req'[p] = Idle
      /\ Runs(req[p]) => <<req[p].op, req[p].at>> \in broken'
  BY DEF Replay, Record, RecordFails, CutShort, At, FlowInv, Runs, BeforeTool
<1>3. \A k : Runs(req[p]) /\ req[p].op = "confirm" /\ req[p].arg.call = k
               => Executed(k)'
  BY <1>2 DEF Executed
<1> QED
  BY <1>1, <1>2, <1>3, IdleAgent, AgentStill

\* A check that a tool makes leads on in the tool.
LEMMA ToolCheck ==
    ASSUME FlowInv, AgentInv, NEW p \in Slots, Runs(req[p]),
           CheckCase(p) \/ CheckMember(p)
    PROVE  \E place \in ToolPlaces \cup {"member"} :
              /\ Goto(p, place)
              /\ place = "tool_done" => req[p].saw.tool = "list"
              /\ place = "member" => req[p].then \in ToolPlaces
<1>1. /\ req[p].at \in Checks /\ req[p].deny = "tool_failed"
      /\ Heading(req[p]) \in ToolPlaces
  BY DEF AgentInv, Armed, CheckCase, CheckMember, At, Checks
<1>2. /\ req[p].then \in ToolPlaces /\ req[p].then # "answer"
      /\ req[p].then = "tool_done" => req[p].saw.tool = "list"
  BY <1>1, AtCheck DEF Heading, ToolPlaces
<1>3. Pass(p) => Goto(p, req[p].then)
  BY <1>2 DEF Pass
<1>4. Deny(p) => Goto(p, "tool_failed")
  BY <1>1 DEF Deny
<1>5. "tool_failed" \in ToolPlaces
  BY DEF ToolPlaces
<1>6. CASE Pass(p)
  BY <1>2, <1>3, <1>6 DEF ToolPlaces
<1>7. CASE Deny(p)
  BY <1>2, <1>4, <1>5, <1>7
<1>8. CASE Goto(p, "member")
  BY <1>2, <1>8
<1> QED
  BY <1>6, <1>7, <1>8 DEF CheckCase, CheckMember

\* A request that is still in its tool knows what it knew.
LEMMA RunsOn ==
    ASSUME FlowInv, AgentInv, NEW p \in Slots, UNCHANGED agentVars,
           crossed \subseteq crossed', Runs(req[p]), ~Carried(req[p]),
           \A f \in {"op", "arg", "case"} : req'[p][f] = req[p][f],
           req'[p].deny = req[p].deny, req'[p].saw.tool = req[p].saw.tool,
           Heading(req'[p]) \in ToolPlaces, ~Carried(req'[p]),
           req'[p].at \notin {"lookup", "record"}
    PROVE  /\ Armed(req[p])' /\ Decides(req[p])'
           /\ Runs(req'[p])
           /\ \A k : Runs(req[p]) /\ req[p].op = "confirm" /\ req[p].arg.call = k
                       => Executed(k)'
<1>1. /\ req'[p].op = req[p].op /\ req'[p].arg = req[p].arg
      /\ req'[p].case = req[p].case
  OBVIOUS
<1>2. Runs(req'[p])
  <2>1. req'[p].at \in Checks \/ req'[p].at \in ToolPlaces
    BY DEF Heading
  <2> QED
    BY <1>1, <2>1 DEF Runs, BeforeTool, ToolPlaces, Checks
<1>3. (Solo' => Solo) /\ (Clean' => Clean)
  BY DEF Solo, Clean
<1>4. Armed(req[p]) /\ Decides(req[p]) /\ req[p].op \in {"post", "confirm"}
  BY DEF AgentInv, Runs
<1>5. Armed(req[p])'
  BY <1>1, <1>2, <1>4 DEF Armed, agentVars, CaseOf
<1>6. Decides(req[p])'
  BY <1>1, <1>2, <1>3, <1>4 DEF Decides, agentVars, Runs, BeforeTool
<1>7. \A k : req[p].op = "confirm" /\ req[p].arg.call = k => Executed(k)'
  BY <1>1, <1>2 DEF Executed
<1> QED
  BY <1>2, <1>5, <1>6, <1>7

\* The checks of access.rs.
LEMMA ChecksAgent ==
    ASSUME FlowInv, AccessInv, AgentInv, NEW p \in Slots, UNCHANGED agentVars,
           CheckCase(p) \/ CheckMember(p)
    PROVE  AgentInv'
<1>1. Others(p) /\ crossed \subseteq crossed' /\ Proceeds(p)
  BY ChecksTurn DEF Proceeds
<1>2. req[p].at \in Checks /\ Armed(req[p])
  BY DEF CheckCase, CheckMember, At, Checks, AgentInv
<1>3. CASE req[p].op \in {"post", "confirm"}
  <2>1. Runs(req[p])
    BY <1>2, <1>3 DEF Runs, BeforeTool, Checks
  <2>2. PICK place \in ToolPlaces \cup {"member"} :
           /\ Goto(p, place)
           /\ place = "tool_done" => req[p].saw.tool = "list"
           /\ place = "member" => req[p].then \in ToolPlaces
    BY <2>1, ToolCheck
  <2>3. /\ Moves(p, place) /\ req'[p].saw = req[p].saw
        /\ req'[p].deny = req[p].deny /\ req'[p].then = req[p].then
    BY <2>2, GotoMoves DEF Goto, FlowInv, Fields
  <2>4. /\ Keeps(p) /\ req'[p].at = place /\ Heading(req'[p]) \in ToolPlaces
        /\ req'[p].at \notin {"lookup", "record"}
    BY <2>2, <2>3 DEF Moves, Heading, ToolPlaces, Checks
  <2>5. ~Carried(req'[p])
    BY <2>2, <2>3, <2>4 DEF Carried, Late, Checks, ToolPlaces
  <2>6. ~Carried(req[p])
    <3>1. req[p].then # "answer"
      BY <1>2, <2>1 DEF Armed, Heading, ToolPlaces
    <3> QED
      BY <1>2, <3>1 DEF Carried, Checks, Late
  <2>7. /\ Armed(req[p])' /\ Decides(req[p])'
        /\ \A k : Runs(req[p]) /\ req[p].op = "confirm" /\ req[p].arg.call = k
                    => Executed(k)'
    BY <1>1, <2>1, <2>3, <2>4, <2>5, <2>6, RunsOn DEF Keeps
  <2>8. req[p].op = req'[p].op /\ req[p].at # "record"
    BY <1>2, <2>4 DEF Keeps, Checks
  <2> QED
    BY <1>1, <2>7, <2>8, AgentStill
<1>4. CASE req[p].op \notin {"post", "confirm"}
  <2>1. req[p].op # "reject" /\ ~Runs(req[p])
    BY <1>2, <1>4 DEF Armed, Runs
  <2>2. /\ req'[p].op \notin {"post", "confirm", "reject"}
        /\ req'[p].op = "create_session" => req'[p].case \in Cases \cup {NoCase}
    BY <1>1, <1>2, <1>4, <2>1, ProceedsSame, IdleAgent DEF Same, Armed
  <2> QED
    BY <1>1, <2>1, <2>2, NoAgent, AgentStill
<1> QED
  BY <1>3, <1>4

-----------------------------------------------------------------------------
\* Where the agent's own steps lead: on with what has been read,
Goes(p, place, what) ==
    /\ req'[p].at = place /\ req'[p].saw = what /\ req'[p].deny = req[p].deny
    /\ Keeps(p) /\ crossed' = crossed

\* to another place,
LEMMA GotoGoes ==
    ASSUME FlowInv, NEW p \in Slots, NEW place, Goto(p, place)
    PROVE  Goes(p, place, req[p].saw)
  BY DEF FlowInv, Fields, Goto, bounds, Goes, Keeps

\* perhaps past a write,
LEMMA LearnGoes ==
    ASSUME FlowInv, NEW p \in Slots, NEW place, NEW what,
           Learn(p, place, what) \/ Carry(p, place, what)
    PROVE  Goes(p, place, what)
  BY DEF FlowInv, Fields, Learn, Carry, bounds, Goes, Keeps

\* into a tool,
LEMMA InToolGoes ==
    ASSUME FlowInv, NEW p \in Slots, NEW input, NEW level, NEW place,
           InTool(p, input, level, place), place \in ToolPlaces,
           req[p].op \in {"post", "confirm"}
    PROVE  /\ \A f \in {"op", "user", "case", "arg"} : req'[p][f] = req[p][f]
           /\ req'[p].saw = input /\ req'[p].deny = "tool_failed"
           /\ crossed' = crossed /\ Heading(req'[p]) \in ToolPlaces
           /\ req'[p].at \in {"tool_failed", "case"}
           /\ Runs(req'[p]) /\ ~Carried(req'[p])
<1>1. /\ \A f \in {"op", "user", "case", "arg"} : req'[p][f] = req[p][f]
      /\ req'[p].saw = input /\ req'[p].deny = "tool_failed"
      /\ crossed' = crossed /\ req'[p].then = place
      /\ req'[p].at \in {"tool_failed", "case"}
  BY DEF FlowInv, Fields, InTool, bounds
<1> QED
  BY <1>1 DEF Heading, Runs, Carried, BeforeTool, ToolPlaces, Checks, Late

\* or out of the handler.
LEMMA LeavesAgent ==
    ASSUME FlowInv, AgentInv, NEW p \in Slots, Leaves(p), Upholds(p),
           req[p].op \in {"post", "confirm", "reject"}
    PROVE  /\ Armed(req[p])' /\ Decides(req[p])'
           /\ ~(req'[p].op = "post" /\ req'[p].at # "record")
<1>1. CASE req'[p] = Idle
  BY <1>1, IdleAgent
<1>2. CASE Moves(p, "record")
  <2>1. /\ req'[p].op = req[p].op /\ req'[p].at = "record"
        /\ req'[p].arg = req[p].arg /\ req'[p].case = req[p].case
    BY <1>2 DEF Moves, Keeps
  <2>2. ~Runs(req'[p])
    BY <2>1 DEF Runs
  <2>3. Armed(req[p]) /\ \A k \in CallIds : CallOK(k) /\ calls[k].session \in SessionIds
    BY DEF AgentInv, AgentTypeOK, CallRow
  <2>4. Armed(req[p])'
    BY <2>1, <2>2, <2>3 DEF Armed, Upholds, CallOK, CaseOf, Checks
  <2>5. Decides(req[p])'
    BY <2>1, <2>2 DEF Decides
  <2> QED
    BY <2>1, <2>4, <2>5
<1> QED
  BY <1>1, <1>2 DEF Leaves

-----------------------------------------------------------------------------
\* A request to the agent is sent.
LEMMA SendAgent ==
    ASSUME FlowInv, NEW p \in Slots, NEW op, NEW user \in Senders(p, op),
           NEW case, NEW path, NEW arg, NEW need, NEW then,
           Send(p, op, user, case, path, arg, need, then)
    PROVE  /\ req'[p].op = op /\ req'[p].case = case /\ req'[p].arg = arg
           /\ req'[p].need = need /\ req'[p].then = then /\ req'[p].deny = "leave"
           /\ req'[p].at = "lookup" \/ req'[p].at = IF need = "none" THEN then ELSE "case"
           /\ req[p].op = "none"
<1>1. req[p].op = "none"
  BY SenderFacts
<1> QED
  BY <1>1 DEF Send, FirstStep, FlowInv, Fields

\* A message or a decision at its first place.
LEMMA SentArmed ==
    ASSUME NEW p \in Slots, req'[p].op \in {"post", "confirm", "reject"},
           req'[p].need = "none",
           req'[p].then = IF req'[p].op = "post" THEN "session" ELSE "decide",
           req'[p].at \in {"lookup", req'[p].then},
           req'[p].op = "post" =>
              /\ req'[p].arg.session \in SessionIds
              /\ sessions'[req'[p].arg.session].status # "none"
              /\ req'[p].arg.tool \in Tools /\ req'[p].arg.day \in Days,
           req'[p].op \in {"confirm", "reject"} =>
              /\ req'[p].arg.call \in CallIds
              /\ calls'[req'[p].arg.call].status # "none"
              /\ req'[p].case = CaseOf(req[p].arg.call)'
    PROVE  Armed(req[p])' /\ Decides(req[p])'
  BY DEF Armed, Decides, Runs, BeforeTool, Checks

\* Two rows are left when one is not asked for.
LEMMA RowForPost ==
    ASSUME NEW p \in Slots, Others(p), req[p].op = "none", FreshCall' = FreshCall,
           Cardinality(FreshCall) > Cardinality({q \in Slots : req[q].op = "post"})
    PROVE  RowsLeft'
<1> DEFINE Posts == {q \in Slots : req[q].op = "post"}
<1>1. IsFiniteSet(Posts) /\ Cardinality(Posts) \in Nat
  <2>1. IsFiniteSet(Slots) /\ Posts \in SUBSET Slots
    BY WorkspaceAssumption
  <2> QED
    BY <2>1, FS_Subset, FS_CardinalityType
<1>2. Posting' \subseteq Posts \cup {p}
  <2>1. \A q \in Slots \ {p} : req'[q].op = req[q].op
    BY DEF Others, Fields
  <2> QED
    BY <2>1 DEF Posting
<1>7. Cardinality(FreshCall) > Cardinality(Posts)
  OBVIOUS
<1> HIDE DEF Posts
<1>3. IsFiniteSet(Posts \cup {p}) /\ Cardinality(Posts \cup {p}) <= Cardinality(Posts) + 1
  <2>1. /\ IsFiniteSet(Posts \cup {p})
        /\ Cardinality(Posts \cup {p}) = IF p \in Posts THEN Cardinality(Posts)
                                          ELSE Cardinality(Posts) + 1
    BY <1>1, FS_AddElement
  <2> QED
    BY <1>1, <2>1
<1>4. Cardinality(Posting') <= Cardinality(Posts \cup {p})
  BY <1>2, <1>3, FS_Subset
<1>5. Cardinality(Posts \cup {p}) \in Nat
  BY <1>3, FS_CardinalityType
<1>6. Cardinality(FreshCall') = Cardinality(FreshCall)
  OBVIOUS
<1> QED
  BY <1>1, <1>3, <1>4, <1>5, <1>6, <1>7, RowCounts DEF RowsLeft

\* Sessions and messages.
LEMMA AgentSends ==
    ASSUME FlowInv, AccessInv, AgentInv, NEW p \in Slots,
           Others(p), crossed \subseteq crossed',
           SendCreateSession(p) \/ SendDeleteSession(p) \/ SendPost(p) \/ SendDecision(p)
    PROVE  AgentInv'
<1>1. UNCHANGED agentVars
  BY DEF SendCreateSession, SendDeleteSession, SendPost, SendDecision
<1>2. req[p].op = "none"
  BY SenderFacts DEF SendCreateSession, SendDeleteSession, SendPost, SendDecision
<1>3. ~Runs(req[p])
  BY <1>2 DEF Runs
<1>4. CASE SendCreateSession(p)
  <2>1. req'[p].op = "create_session" /\ req'[p].case \in Cases \cup {NoCase}
    BY <1>4, SendAgent DEF SendCreateSession
  <2> QED
    BY <1>1, <1>3, <2>1, NoAgent, AgentStill
<1>5. CASE SendDeleteSession(p)
  <2>1. req'[p].op = "delete_session"
    BY <1>5, SendAgent DEF SendDeleteSession
  <2> QED
    BY <1>1, <1>3, <2>1, NoAgent, AgentStill
<1>6. CASE SendPost(p)
  <2>1. PICK u \in Senders(p, "post"), s \in SessionIds, tool \in Tools, d \in Days :
           /\ sessions[s].status # "none"
           /\ Send(p, "post", u, sessions[s].case, s,
                   [session |-> s, tool |-> tool, day |-> d], "none", "session")
    BY <1>6 DEF SendPost
  <2>2. /\ req'[p].op = "post" /\ req'[p].need = "none" /\ req'[p].then = "session"
        /\ req'[p].at \in {"lookup", "session"}
        /\ req'[p].arg = [session |-> s, tool |-> tool, day |-> d]
    BY <2>1, SendAgent
  <2>3. Armed(req[p])' /\ Decides(req[p])'
    BY <1>1, <2>1, <2>2, SentArmed DEF agentVars
  <2>4. Upholds(p) /\ \A k \in CallIds : CallOK(k)'
    <3>1. Upholds(p)
      BY <1>1 DEF agentVars, AgentInv, AgentTypeOK, Upholds
    <3> QED
      BY <1>1, <1>3, <3>1, CallKept DEF agentVars
  <2>5. RowsLeft'
    <3>1. FreshCall' = FreshCall
      BY <1>1 DEF FreshCall, agentVars
    <3> QED
      BY <1>2, <1>6, <3>1, RowForPost DEF SendPost
  <2> QED
    BY <2>3, <2>4, <2>5, AgentKept
<1>7. CASE SendDecision(p)
  <2>1. PICK op \in {"confirm", "reject"}, k \in CallIds : \E u \in Senders(p, op) :
           /\ calls[k].status # "none"
           /\ Send(p, op, u, sessions[calls[k].session].case, k, [call |-> k],
                   "none", "decide")
    BY <1>7 DEF SendDecision
  <2>2. /\ req'[p].op = op /\ req'[p].need = "none" /\ req'[p].then = "decide"
        /\ req'[p].at \in {"lookup", "decide"}
        /\ req'[p].arg.call = k /\ req'[p].case = CaseOf(k)
    BY <2>1, SendAgent DEF CaseOf
  <2>3. Armed(req[p])' /\ Decides(req[p])'
    BY <1>1, <2>1, <2>2, SentArmed DEF agentVars, CaseOf
  <2> QED
    BY <1>1, <1>3, <2>2, <2>3, AgentStill
<1> QED
  BY <1>4, <1>5, <1>6, <1>7

\* Sessions that come and go.
LEMMA AgentSessions ==
    ASSUME FlowInv, AccessInv, AgentInv, NEW p \in Slots,
           Others(p), crossed \subseteq crossed', InsertSession(p) \/ Archive(p)
    PROVE  AgentInv'
<1>1. req[p].op \in {"create_session", "delete_session"}
  BY Standing DEF InsertSession, Archive, OnWay, Checks, Late
<1>2. /\ ~Runs(req[p]) /\ req'[p].op \notin {"post", "confirm", "reject"}
      /\ req'[p].op = "create_session" => req'[p].case \in Cases \cup {NoCase}
  <2>1. Leaves(p) /\ Armed(req[p])
    BY SucceedLeaves, RefuseLeaves DEF InsertSession, Archive, AgentInv
  <2> QED
    BY <1>1, <2>1, IdleAgent DEF Leaves, Moves, Keeps, Runs, Armed
<1>3. /\ auto' = auto /\ calls' = calls /\ ran' = ran
      /\ AgentTypeOK
  BY DEF InsertSession, Archive, AgentInv
<1>4. /\ sessions' \in [SessionIds -> SessionRow]
      /\ \A s \in SessionIds : sessions[s].status # "none" =>
            sessions'[s].status # "none" /\ sessions'[s].case = sessions[s].case
  <2>1. CASE InsertSession(p)
    <3>1. req[p].op = "create_session" /\ req[p].user \in Users
      BY <1>1, <2>1, Standing
      DEF InsertSession, OnWay, Checks, Late, FlowInv, RequestOK
    <3>2. req[p].case \in Cases \cup {NoCase}
      BY <3>1 DEF AgentInv, Armed
    <3> QED
      BY <1>3, <2>1, <3>1, <3>2
      DEF InsertSession, FreshSession, AgentTypeOK, SessionRow
  <2>2. CASE Archive(p)
    BY <1>3, <2>2 DEF Archive, AgentTypeOK, SessionRow
  <2> QED
    BY <2>1, <2>2
<1>5. Upholds(p)
  BY <1>3, <1>4 DEF Upholds, AgentTypeOK
<1>6. \A k \in CallIds : CallOK(k)'
  BY <1>2, <1>3, <1>5, CallKept
<1>7. RowsLeft'
  <2>1. FreshCall' = FreshCall /\ RowsLeft
    BY <1>3 DEF FreshCall, AgentInv
  <2> QED
    BY <1>2, <2>1, PostingKept, RowsKept
<1> QED
  BY <1>2, <1>5, <1>6, <1>7, NoAgent, AgentKept

-----------------------------------------------------------------------------
\* A message that has yet to insert its row finds a free one,
LEMMA FreshRow ==
    ASSUME AgentInv, NEW p \in Slots, req[p].op = "post", req[p].at # "record"
    PROVE  NewCall \in FreshCall /\ NewCall \in CallIds
<1>1. FreshCall # {}
  <2>1. p \in Posting
    BY DEF Posting
  <2>2. Cardinality(Posting) # 0
    BY <2>1, RowCounts, FS_EmptySet
  <2>3. Cardinality(FreshCall) # 0
    BY <2>2, RowCounts DEF AgentInv, RowsLeft
  <2> QED
    BY <2>3, FS_EmptySet
<1> QED
  BY <1>1 DEF NewCall, FreshCall

\* and is done when it has.
LEMMA RowTaken ==
    ASSUME RowsLeft, NEW p \in Posting, NEW k \in FreshCall,
           FreshCall \ {k} \subseteq FreshCall', Posting' \subseteq Posting \ {p}
    PROVE  RowsLeft'
<1>1. /\ IsFiniteSet(FreshCall \ {k})
      /\ Cardinality(FreshCall \ {k}) = Cardinality(FreshCall) - 1
  BY RowCounts, FS_RemoveElement
<1>2. /\ IsFiniteSet(Posting \ {p})
      /\ Cardinality(Posting \ {p}) = Cardinality(Posting) - 1
  BY RowCounts, FS_RemoveElement
<1>3. Cardinality(FreshCall \ {k}) <= Cardinality(FreshCall')
  BY <1>1, RowCounts, FS_Subset
<1>4. Cardinality(Posting') <= Cardinality(Posting \ {p})
  BY <1>2, FS_Subset
<1> QED
  BY <1>1, <1>2, <1>3, <1>4, RowCounts DEF RowsLeft

\* A call gets its row.
LEMMA NewCallKept ==
    ASSUME FlowInv, AccessInv, AgentInv, NEW p \in Slots, Others(p),
           crossed \subseteq crossed', req[p].op = "post", req[p].at # "record",
           NEW status \in {"pending", "executed", "failed"},
           calls' = WithCall(p, status), sessions' = sessions, auto' = auto,
           \/ ran' = ran /\ ~(status = "executed" /\ req[p].arg.tool = "create_node")
           \/ ran' = [ran EXCEPT ![NewCall] = 1] /\ status = "executed",
           Leaves(p)
    PROVE  AgentInv'
<1>1. NewCall \in FreshCall /\ NewCall \in CallIds
  BY FreshRow
<1>0. PICK k \in CallIds : k = NewCall
  BY <1>1
<1>2. calls[k].status = "none" /\ ran[k] = 0
  BY <1>0, <1>1 DEF FreshCall, AgentInv, CallOK
<1>3. AgentTypeOK /\ Armed(req[p])
  BY DEF AgentInv
<1>4. /\ calls'[k] = [status |-> status, session |-> req[p].arg.session,
                      tool |-> req[p].arg.tool, day |-> req[p].arg.day,
                      approval |-> status = "pending"]
      /\ \A j \in CallIds \ {k} : calls'[j] = calls[j] /\ ran'[j] = ran[j]
      /\ ran'[k] = IF status = "executed" /\ ran' # ran THEN 1 ELSE 0
      /\ DOMAIN calls' = CallIds /\ DOMAIN ran' = CallIds
  BY <1>0, <1>2, <1>3 DEF WithCall, AgentTypeOK
<1>5. AgentTypeOK'
  <2>1. calls'[k] \in CallRow
    BY <1>3, <1>4 DEF CallRow, CallStatus, Armed
  <2>2. calls' \in [CallIds -> CallRow]
    BY <1>3, <1>4, <2>1 DEF AgentTypeOK, WithCall
  <2>3. ran' \in [CallIds -> Nat]
    BY <1>3 DEF AgentTypeOK
  <2> QED
    BY <1>3, <2>2, <2>3 DEF AgentTypeOK
<1>6. Upholds(p)
  BY <1>2, <1>4, <1>5 DEF Upholds
<1>7. ASSUME NEW j \in CallIds \ {k} PROVE CallOK(j)'
  BY <1>4, <1>6, CallKept
<1>8. CallOK(k)'
  <2>1. sessions[req[p].arg.session].status # "none"
    BY <1>3 DEF Armed
  <2>2. status = "executed" /\ req[p].arg.tool = "create_node" => ran'[k] = 1
    BY <1>0, <1>3 DEF AgentTypeOK
  <2> QED
    BY <1>4, <2>1, <2>2 DEF CallOK
<1>9. /\ Armed(req[p])' /\ Decides(req[p])'
      /\ ~(req'[p].op = "post" /\ req'[p].at # "record")
  BY <1>6, LeavesAgent
<1>10. RowsLeft'
  <2>1. p \in Posting
    BY DEF Posting
  <2>2. Posting' \subseteq Posting \ {p}
    <3>1. Posting' \subseteq Posting
      BY <1>9, PostingKept
    <3> QED
      BY <1>9, <3>1 DEF Posting
  <2>3. FreshCall \ {k} \subseteq FreshCall'
    BY <1>4 DEF FreshCall
  <2>4. k \in FreshCall
    BY <1>0, <1>1
  <2> QED
    BY <2>1, <2>2, <2>3, <2>4, RowTaken DEF AgentInv
<1> QED
  BY <1>6, <1>7, <1>8, <1>9, <1>10, AgentKept

\* A decision writes the status of its call, and of no other.
LEMMA DecisionKept ==
    ASSUME FlowInv, AccessInv, AgentInv, NEW p \in Slots, Others(p),
           crossed \subseteq crossed', req[p].op \in {"confirm", "reject"},
           NEW status \in {"approved", "rejected", "executed", "failed"},
           SetCall(p, status), sessions' = sessions, auto' = auto, ran' = ran,
           req[p].op = "reject" => status = "rejected",
           req'[p].op # "post"
    PROVE  /\ Upholds(p) /\ RowsLeft'
           /\ \A j \in CallIds \ {req[p].arg.call} : CallOK(j)'
           /\ calls'[req[p].arg.call] = [calls[req[p].arg.call] EXCEPT !.status = status]
<1> DEFINE k == req[p].arg.call
<1>1. k \in CallIds /\ calls[k].status # "none" /\ AgentTypeOK
  BY DEF AgentInv, Armed
<1>2. /\ calls'[k] = [calls[k] EXCEPT !.status = status]
      /\ \A j \in CallIds \ {k} : calls'[j] = calls[j]
      /\ DOMAIN calls' = CallIds
      /\ calls' \in [CallIds -> CallRow]
  BY <1>1 DEF SetCall, AgentTypeOK, CallRow, CallStatus
<1>3. /\ calls'[k].status = status /\ calls'[k].tool = calls[k].tool
      /\ calls'[k].session = calls[k].session
  BY <1>1, <1>2 DEF AgentTypeOK, CallRow
<1>4. Upholds(p)
  <2>1. AgentTypeOK'
    BY <1>1, <1>2 DEF AgentTypeOK
  <2> QED
    BY <1>1, <1>2, <1>3, <2>1 DEF Upholds
<1>5. ASSUME NEW j \in CallIds \ {k} PROVE CallOK(j)'
  BY <1>2, <1>4, CallKept
<1>6. RowsLeft'
  <2>1. FreshCall \subseteq FreshCall' /\ RowsLeft
    BY <1>1, <1>2 DEF FreshCall, AgentInv
  <2> QED
    BY <2>1, PostingKept, RowsKept
<1> QED
  BY <1>2, <1>4, <1>5, <1>6

\* A handler that leaves, and the tables as they were.
LEMMA LeavesStill ==
    ASSUME FlowInv, AccessInv, AgentInv, NEW p \in Slots, Others(p),
           crossed \subseteq crossed', UNCHANGED agentVars, Leaves(p),
           req[p].op \in {"post", "confirm", "reject"}, ~Runs(req[p])
    PROVE  AgentInv'
<1>1. Upholds(p)
  BY DEF agentVars, AgentInv, AgentTypeOK, Upholds
<1> QED
  BY <1>1, LeavesAgent, AgentStill

\* A message before its tool.
LEMMA AgentPosts ==
    ASSUME FlowInv, AccessInv, AgentInv, NEW p \in Slots,
           Others(p), crossed \subseteq crossed', FetchSession(p) \/ InsertPending(p)
    PROVE  AgentInv'
<1>1. /\ req[p].op = "post" /\ ~Runs(req[p]) /\ req[p].at # "record"
      /\ Armed(req[p]) /\ ~Carried(req[p])
  BY Standing DEF FetchSession, InsertPending, OnWay, Checks, Late, Runs,
     BeforeTool, AgentInv
<1>2. CASE InsertPending(p)
  <2>1. Leaves(p)
    BY <1>2, SucceedLeaves DEF InsertPending
  <2> QED
    BY <1>1, <1>2, <2>1, NewCallKept DEF InsertPending
<1>3. CASE FetchSession(p)
  <2>1. UNCHANGED agentVars
    BY <1>3 DEF FetchSession
  <2>2. CASE Refuse(p)
    BY <1>1, <2>1, <2>2, RefuseLeaves, LeavesStill
  <2>3. CASE Goto(p, "pending_row")
    <3>1. Goes(p, "pending_row", req[p].saw)
      BY <2>3, GotoGoes
    <3>2. /\ req'[p].op = "post" /\ req'[p].at = "pending_row"
          /\ req'[p].arg = req[p].arg
      BY <1>1, <3>1 DEF Goes, Keeps
    <3>3. ~Runs(req'[p])
      BY <3>2 DEF Runs, BeforeTool
    <3>4. Armed(req[p])' /\ Decides(req[p])'
      BY <1>1, <2>1, <3>2, <3>3 DEF Armed, Decides, agentVars
    <3> QED
      BY <1>1, <2>1, <3>4, AgentStill
  <2>4. CASE StartTool(p, req[p].arg.tool, req[p].arg.day)
    <3> DEFINE input == [tool |-> req[p].arg.tool, day |-> req[p].arg.day, order |-> 0]
               place == IF req[p].arg.tool = "list" THEN "tool_done" ELSE "tool_operation"
    <3>1. InTool(p, input, "read", place) /\ place \in ToolPlaces
      BY <2>4 DEF StartTool, ToolPlaces
    <3> HIDE DEF place
    <3>2. /\ \A f \in {"op", "user", "case", "arg"} : req'[p][f] = req[p][f]
          /\ req'[p].saw = input /\ req'[p].deny = "tool_failed"
          /\ Heading(req'[p]) \in ToolPlaces
          /\ req'[p].at \in {"tool_failed", "case"} /\ Runs(req'[p])
      BY <1>1, <3>1, InToolGoes
    <3>3. req'[p].op = "post" /\ req'[p].arg = req[p].arg
          /\ req'[p].saw.tool = req[p].arg.tool
      BY <1>1, <3>2
    <3>4. Armed(req[p])' /\ Decides(req[p])'
      BY <1>1, <2>1, <3>2, <3>3 DEF Armed, Decides, agentVars
    <3> QED
      BY <1>1, <2>1, <3>4, AgentStill
  <2> QED
    BY <1>3, <2>2, <2>3, <2>4 DEF FetchSession
<1> QED
  BY <1>2, <1>3

\* A decision that reads the call.
LEMMA AgentDecide ==
    ASSUME FlowInv, AccessInv, AgentInv, NEW p \in Slots,
           Others(p), crossed \subseteq crossed', Decide(p)
    PROVE  AgentInv'
<1>1. /\ req[p].op \in {"confirm", "reject"} /\ ~Runs(req[p]) /\ Armed(req[p])
  BY Standing DEF Decide, OnWay, Checks, Late, Runs, BeforeTool, AgentInv
<1>2. UNCHANGED agentVars
  BY DEF Decide
<1>3. CASE Refuse(p)
  BY <1>1, <1>2, <1>3, RefuseLeaves, LeavesStill
<1>4. ASSUME NEW place,
             place = IF req[p].op = "reject" THEN "reject_row" ELSE "approve_row",
             Goto(p, place), calls[req[p].arg.call].status = "pending"
      PROVE  AgentInv'
  <2>1. Goes(p, place, req[p].saw)
    BY <1>4, GotoGoes
  <2>2. /\ req'[p].op = req[p].op /\ req'[p].at = place
        /\ req'[p].arg = req[p].arg /\ req'[p].case = req[p].case
        /\ crossed' = crossed
    BY <2>1 DEF Goes, Keeps
  <2>3. ~Runs(req'[p])
    BY <1>1, <1>4, <2>2 DEF Runs, BeforeTool
  <2>4. Armed(req[p])'
    BY <1>1, <1>2, <1>4, <2>2, <2>3 DEF Armed, agentVars, CaseOf, Checks
  <2>5. Solo => ran[req[p].arg.call] = 0
    BY <1>1, <1>4 DEF Armed, AgentInv, CallOK
  <2>6. (Clean => Solo) /\ Clean' = Clean /\ Solo' = Solo
    BY <2>2 DEF Clean, Solo
  <2>7. Decides(req[p])'
    BY <1>1, <1>2, <1>4, <2>2, <2>3, <2>5, <2>6 DEF Decides, agentVars
  <2> QED
    BY <1>1, <1>2, <2>2, <2>4, <2>7, AgentStill
<1> QED
  BY <1>3, <1>4 DEF Decide

\* A decision that writes what it has decided.
LEMMA AgentReject ==
    ASSUME FlowInv, AccessInv, AgentInv, NEW p \in Slots,
           Others(p), crossed \subseteq crossed', RejectRow(p)
    PROVE  AgentInv'
<1>1. req[p].op = "reject" /\ req[p].at = "reject_row"
  BY Standing DEF RejectRow, OnWay, Checks, Late
<1>2. Leaves(p) /\ crossed' = crossed /\ req'[p].op # "post"
  BY <1>1, SucceedLeaves, IdleAgent DEF RejectRow, Leaves, Moves, Keeps
<1>3. PICK k \in CallIds : k = req[p].arg.call
  BY <1>1 DEF AgentInv, Armed
<1>4. SetCall(p, "rejected") /\ sessions' = sessions /\ auto' = auto /\ ran' = ran
  BY DEF RejectRow
<1>5. /\ Upholds(p) /\ RowsLeft'
      /\ \A j \in CallIds \ {k} : CallOK(j)'
      /\ calls'[k] = [calls[k] EXCEPT !.status = "rejected"]
  BY <1>1, <1>2, <1>3, <1>4, DecisionKept
<1>6. Armed(req[p])' /\ Decides(req[p])'
  BY <1>1, <1>2, <1>5, LeavesAgent
<1>7. CallOK(k)'
  <2>1. /\ CallOK(k) /\ Decides(req[p]) /\ calls[k] \in CallRow
        /\ calls[k].status # "none"
    BY <1>1, <1>3 DEF AgentInv, AgentTypeOK, Armed
  <2>2. calls'[k].status = "rejected" /\ calls'[k].session = calls[k].session
    BY <1>5, <2>1 DEF CallRow
  <2>3. Clean' = Clean /\ Solo' = Solo
    BY <1>2 DEF Clean, Solo
  <2> QED
    BY <1>1, <1>3, <1>4, <2>1, <2>2, <2>3 DEF CallOK, Decides
<1> QED
  BY <1>3, <1>5, <1>6, <1>7, AgentKept

\* One that executes it.
LEMMA AgentApprove ==
    ASSUME FlowInv, AccessInv, AgentInv, NEW p \in Slots,
           Others(p), crossed \subseteq crossed', ApproveRow(p)
    PROVE  AgentInv'
<1>1. req[p].op = "confirm" /\ req[p].at = "approve_row"
  BY Standing DEF ApproveRow, OnWay, Checks, Late
<1>2. PICK k \in CallIds : k = req[p].arg.call
  BY <1>1 DEF AgentInv, Armed
<1>3. /\ SetCall(p, "approved") /\ sessions' = sessions /\ auto' = auto
      /\ ran' = ran /\ StartTool(p, calls[k].tool, calls[k].day)
  BY <1>2 DEF ApproveRow
<1> DEFINE input == [tool |-> calls[k].tool, day |-> calls[k].day, order |-> 0]
           place == IF calls[k].tool = "list" THEN "tool_done" ELSE "tool_operation"
<1>4. InTool(p, input, "read", place) /\ place \in ToolPlaces
  BY <1>3 DEF StartTool, ToolPlaces
<1>5. input.tool = calls[k].tool
  OBVIOUS
<1> HIDE DEF place, input
<1>6. /\ \A f \in {"op", "user", "case", "arg"} : req'[p][f] = req[p][f]
      /\ req'[p].saw = input /\ req'[p].deny = "tool_failed"
      /\ crossed' = crossed /\ Heading(req'[p]) \in ToolPlaces
      /\ req'[p].at \in {"tool_failed", "case"}
      /\ Runs(req'[p]) /\ ~Carried(req'[p])
  BY <1>1, <1>4, InToolGoes
<1>7. /\ req'[p].op = "confirm" /\ req'[p].arg = req[p].arg
      /\ req'[p].case = req[p].case /\ req'[p].saw.tool = calls[k].tool
  BY <1>1, <1>5, <1>6
<1>8. /\ Upholds(p) /\ RowsLeft'
      /\ \A j \in CallIds \ {k} : CallOK(j)'
      /\ calls'[k] = [calls[k] EXCEPT !.status = "approved"]
  BY <1>1, <1>2, <1>3, <1>7, DecisionKept
<1>9. /\ CallOK(k) /\ Decides(req[p]) /\ Armed(req[p]) /\ calls[k] \in CallRow
  BY <1>2 DEF AgentInv, AgentTypeOK
<1>10. /\ calls'[k].status = "approved" /\ calls'[k].session = calls[k].session
       /\ calls'[k].tool = calls[k].tool
  BY <1>8, <1>9 DEF CallRow
<1>11. (Clean => Solo) /\ Clean' = Clean /\ Solo' = Solo
  BY <1>6 DEF Clean, Solo
<1>12. Armed(req[p])'
  BY <1>1, <1>2, <1>3, <1>6, <1>7, <1>9, <1>10 DEF Armed, CaseOf
<1>13. Decides(req[p])'
  BY <1>1, <1>2, <1>3, <1>6, <1>7, <1>9, <1>10, <1>11 DEF Decides, Runs, BeforeTool
<1>14. CallOK(k)'
  <2>1. Executed(k)'
    BY <1>2, <1>6, <1>7 DEF Executed
  <2>2. Solo => ran'[k] = 0
    BY <1>1, <1>2, <1>3, <1>9 DEF Decides
  <2>3. calls[k].status # "none"
    BY <1>1, <1>2, <1>9 DEF Armed
  <2> QED
    BY <1>3, <1>9, <1>10, <1>11, <2>1, <2>2, <2>3 DEF CallOK
<1> QED
  BY <1>2, <1>8, <1>12, <1>13, <1>14, AgentKept

\* A request at a place of a tool is in it.
LEMMA InATool ==
    ASSUME FlowInv, AgentInv, NEW p \in Slots, req[p].at \in ToolPlaces
    PROVE  /\ req[p].op \in {"post", "confirm"} /\ Runs(req[p])
           /\ req[p].deny = "tool_failed" /\ Heading(req[p]) = req[p].at
           /\ DOMAIN req[p].saw = {"tool", "day", "order"}
           /\ Carried(req[p]) <=> req[p].at = "tool_done" /\ req[p].saw.tool = "create_node"
           /\ req[p].at \in {"tool_sort", "tool_insert"} => req[p].saw.tool = "create_node"
<1>1. RequestOK(req[p]) /\ Armed(req[p])
  BY DEF FlowInv, AgentInv
<1>2. Heading(req[p]) = req[p].at /\ req[p].at \notin BeforeTool \cup {"record"}
  BY DEF Heading, ToolPlaces, Checks, BeforeTool
<1>3. req[p].op \in {"post", "confirm"}
  BY <1>1, <1>2 DEF RequestOK, OnWay, ToolPlaces
<1>4. Runs(req[p])
  BY <1>2, <1>3 DEF Runs
<1> QED
  BY <1>1, <1>2, <1>3, <1>4
  DEF RequestOK, ToolOK, Armed, Carried, ToolPlaces, Late, Checks

\* A tool that goes on, or fails.
LEMMA ToolGoesOn ==
    ASSUME FlowInv, AccessInv, AgentInv, NEW p \in Slots,
           Others(p), crossed \subseteq crossed',
           CheckOperation(p) \/ ToolSort(p) \/ ToolFails(p)
    PROVE  AgentInv'
<1>1. UNCHANGED agentVars
  BY DEF CheckOperation, ToolSort, ToolFails
<1>2. ASSUME Runs(req[p]), ~Carried(req[p]),
             \A f \in {"op", "arg", "case"} : req'[p][f] = req[p][f],
             req'[p].deny = req[p].deny, req'[p].saw.tool = req[p].saw.tool,
             Heading(req'[p]) \in ToolPlaces, ~Carried(req'[p]),
             req'[p].at \notin {"lookup", "record"}
      PROVE  AgentInv'
  <2>1. /\ Armed(req[p])' /\ Decides(req[p])'
        /\ \A k : Runs(req[p]) /\ req[p].op = "confirm" /\ req[p].arg.call = k
                    => Executed(k)'
    BY <1>1, <1>2, RunsOn
  <2>2. req'[p].op = req[p].op /\ req[p].at # "record"
    BY <1>2 DEF Runs
  <2> QED
    BY <1>1, <2>1, <2>2, AgentStill
<1>3. CASE CheckOperation(p)
  <2>1. req[p].at = "tool_operation"
    BY <1>3 DEF CheckOperation, At
  <2>2. /\ Runs(req[p]) /\ ~Carried(req[p]) /\ req[p].deny = "tool_failed"
        /\ req[p].op \in {"post", "confirm"}
    BY <2>1, InATool DEF ToolPlaces
  <2> DEFINE place == IF req[p].saw.tool = "create_node" THEN "tool_sort" ELSE "tool_failed"
  <2>3. InTool(p, req[p].saw, "operate", place) /\ place \in ToolPlaces
    BY <1>3 DEF CheckOperation, ToolPlaces
  <2> HIDE DEF place
  <2>4. /\ \A f \in {"op", "user", "case", "arg"} : req'[p][f] = req[p][f]
        /\ req'[p].saw = req[p].saw /\ req'[p].deny = "tool_failed"
        /\ Heading(req'[p]) \in ToolPlaces
        /\ req'[p].at \in {"tool_failed", "case"} /\ ~Carried(req'[p])
    BY <2>2, <2>3, InToolGoes
  <2> QED
    BY <1>2, <2>2, <2>4
<1>4. CASE ToolSort(p)
  <2>1. req[p].at = "tool_sort"
    BY <1>4 DEF ToolSort, At
  <2>2. /\ Runs(req[p]) /\ ~Carried(req[p])
        /\ DOMAIN req[p].saw = {"tool", "day", "order"}
    BY <2>1, InATool DEF ToolPlaces
  <2> DEFINE what == [req[p].saw EXCEPT !.order
                        = NextSort(nodes, req[p].case, req[p].saw.day)]
  <2>3. Learn(p, "tool_insert", what) /\ what.tool = req[p].saw.tool
    BY <1>4, <2>2 DEF ToolSort
  <2> HIDE DEF what
  <2>4. Goes(p, "tool_insert", what)
    BY <2>3, LearnGoes
  <2>5. /\ Heading(req'[p]) \in ToolPlaces /\ ~Carried(req'[p])
        /\ req'[p].at = "tool_insert"
    BY <2>4 DEF Goes, Heading, Carried, ToolPlaces, Checks, Late
  <2> QED
    BY <1>2, <2>2, <2>3, <2>4, <2>5 DEF Goes, Keeps
<1>5. CASE ToolFails(p)
  <2>1. /\ req[p].deny = "tool_failed"
        /\ req[p].at \in {"case", "member", "tool_sort", "tool_insert"}
        /\ req'[p].at = "tool_failed"
        /\ \A f \in Fields \ {"at"} : req'[p][f] = req[p][f]
    BY <1>5 DEF ToolFails, FlowInv, Fields
  <2>2. req[p].op \in {"post", "confirm"}
    BY <2>1 DEF FlowInv, RequestOK
  <2>3. Runs(req[p])
    BY <2>1, <2>2 DEF Runs, BeforeTool
  <2>4. ~Carried(req[p])
    BY <2>1, AtCheck DEF Carried, Checks, Late
  <2>5. Heading(req'[p]) \in ToolPlaces /\ ~Carried(req'[p])
    BY <2>1 DEF Heading, Carried, ToolPlaces, Checks, Late
  <2> QED
    BY <1>2, <2>1, <2>3, <2>4, <2>5 DEF Fields
<1> QED
  BY <1>3, <1>4, <1>5

\* The write of a tool.
LEMMA ToolWrites ==
    ASSUME FlowInv, AccessInv, AgentInv, NEW p \in Slots,
           Others(p), crossed \subseteq crossed', ToolInsert(p)
    PROVE  AgentInv'
<1>1. req[p].at = "tool_insert"
  BY DEF ToolInsert, At
<1>2. /\ req[p].op \in {"post", "confirm"} /\ Runs(req[p]) /\ ~Carried(req[p])
      /\ req[p].deny = "tool_failed" /\ req[p].saw.tool = "create_node"
      /\ DOMAIN req[p].saw = {"tool", "day", "order"}
  BY <1>1, InATool DEF ToolPlaces
<1> DEFINE what == [req[p].saw EXCEPT !.order = 0]
<1>3. Carry(p, "tool_done", what) /\ what.tool = "create_node"
  BY <1>2 DEF ToolInsert
<1> HIDE DEF what
<1>4. Goes(p, "tool_done", what)
  BY <1>3, LearnGoes
<1>5. /\ req'[p].op = req[p].op /\ req'[p].arg = req[p].arg
      /\ req'[p].case = req[p].case /\ req'[p].at = "tool_done"
      /\ req'[p].saw.tool = "create_node" /\ req'[p].deny = "tool_failed"
      /\ crossed' = crossed
  BY <1>2, <1>3, <1>4 DEF Goes, Keeps
<1>6. Runs(req'[p]) /\ Carried(req'[p]) /\ Heading(req'[p]) \in ToolPlaces
  BY <1>2, <1>5 DEF Runs, Carried, Heading, BeforeTool, ToolPlaces, Checks
<1>7. calls' = calls /\ sessions' = sessions /\ auto' = auto
  BY DEF ToolInsert
<1>8. Armed(req[p])'
  BY <1>2, <1>5, <1>6, <1>7 DEF Armed, AgentInv, CaseOf
<1>9. CASE req[p].op = "post"
  <2>1. ran' = ran
    BY <1>9 DEF ToolInsert
  <2>2. Decides(req[p])'
    BY <1>5, <1>9 DEF Decides
  <2>3. UNCHANGED agentVars
    BY <1>7, <2>1 DEF agentVars
  <2> QED
    BY <1>1, <1>5, <1>8, <1>9, <2>2, <2>3, AgentStill
<1>10. CASE req[p].op = "confirm"
  <2>1. PICK k \in CallIds : k = req[p].arg.call
    BY <1>10 DEF AgentInv, Armed
  <2>2. ran' = [ran EXCEPT ![k] = @ + 1] /\ AgentTypeOK /\ ran[k] \in Nat
    BY <1>10, <2>1 DEF ToolInsert, AgentInv, AgentTypeOK
  <2>3. ran'[k] = ran[k] + 1 /\ \A j \in CallIds \ {k} : ran'[j] = ran[j]
    BY <2>1, <2>2 DEF AgentTypeOK
  <2>4. Upholds(p)
    <3>1. AgentTypeOK'
      BY <1>7, <2>2 DEF AgentTypeOK
    <3> QED
      BY <1>7, <1>10, <2>1, <2>3, <3>1 DEF Upholds
  <2>5. ASSUME NEW j \in CallIds \ {k} PROVE CallOK(j)'
    BY <1>7, <2>1, <2>3, <2>4, CallKept
  <2>6. CallOK(k) /\ Decides(req[p]) /\ Armed(req[p])
    BY DEF AgentInv
  <2>7. (Clean => Solo) /\ Clean' = Clean /\ Solo' = Solo
    BY <1>5 DEF Clean, Solo
  <2>8. Solo => ran[k] = 0 /\ calls[k].status # "pending"
    BY <1>2, <1>10, <2>1, <2>6 DEF Decides
  <2>9. Clean => calls[k].status = "approved" /\ calls[k].tool = "create_node"
    BY <1>2, <1>10, <2>1, <2>6 DEF Decides
  <2>10. Decides(req[p])'
    BY <1>5, <1>6, <1>7, <1>10, <2>1, <2>3, <2>7, <2>8, <2>9
    DEF Decides, Runs, BeforeTool
  <2>11. CallOK(k)'
    <3>1. Executed(k)'
      BY <1>5, <1>6, <1>10, <2>1 DEF Executed
    <3>2. calls[k].status # "none"
      BY <1>10, <2>1, <2>6 DEF Armed
    <3> QED
      BY <1>7, <2>2, <2>3, <2>6, <2>7, <2>8, <2>9, <3>1, <3>2 DEF CallOK
  <2>12. RowsLeft'
    <3>1. FreshCall' = FreshCall /\ RowsLeft
      BY <1>7 DEF FreshCall, AgentInv
    <3> QED
      BY <1>5, <1>10, <3>1, PostingKept, RowsKept
  <2> QED
    BY <1>8, <2>4, <2>5, <2>10, <2>11, <2>12, AgentKept
<1> QED
  BY <1>2, <1>9, <1>10

\* A confirmed call is marked.
LEMMA ToolMarks ==
    ASSUME FlowInv, AccessInv, AgentInv, NEW p \in Slots,
           Others(p), crossed \subseteq crossed', ConfirmedDone(p) \/ ConfirmedFailed(p)
    PROVE  AgentInv'
<1>1. req[p].op = "confirm" /\ req[p].at \in ToolPlaces
  BY DEF ConfirmedDone, ConfirmedFailed, At, ToolPlaces
<1>2. /\ Runs(req[p])
      /\ Carried(req[p]) <=> req[p].at = "tool_done" /\ req[p].saw.tool = "create_node"
  BY <1>1, InATool
<1>3. Leaves(p) /\ crossed' = crossed
  BY SucceedLeaves, RefuseLeaves DEF ConfirmedDone, ConfirmedFailed, Finish
<1>4. req'[p].op # "post"
  BY <1>1, <1>3, IdleAgent DEF Leaves, Moves, Keeps
<1>5. PICK k \in CallIds : k = req[p].arg.call
  BY <1>1 DEF AgentInv, Armed
<1>6. PICK status \in {"executed", "failed"} :
         /\ SetCall(p, status) /\ sessions' = sessions /\ auto' = auto /\ ran' = ran
         /\ req[p].at = IF status = "executed" THEN "tool_done" ELSE "tool_failed"
  BY DEF ConfirmedDone, ConfirmedFailed, At
<1>7. /\ Upholds(p) /\ RowsLeft'
      /\ \A j \in CallIds \ {k} : CallOK(j)'
      /\ calls'[k] = [calls[k] EXCEPT !.status = status]
  BY <1>1, <1>4, <1>5, <1>6, DecisionKept
<1>8. Armed(req[p])' /\ Decides(req[p])'
  BY <1>1, <1>3, <1>7, LeavesAgent
<1>9. CallOK(k)'
  <2>1. /\ CallOK(k) /\ Decides(req[p]) /\ calls[k] \in CallRow
        /\ calls[k].status # "none"
    BY <1>1, <1>5 DEF AgentInv, AgentTypeOK, Armed
  <2>2. /\ calls'[k].status = status /\ calls'[k].session = calls[k].session
        /\ calls'[k].tool = calls[k].tool
    BY <1>7, <2>1 DEF CallRow
  <2>3. (Clean => Solo) /\ Clean' = Clean /\ Solo' = Solo
    BY <1>3 DEF Clean, Solo
  <2>4. Solo => ran[k] = IF Carried(req[p]) THEN 1 ELSE 0
    BY <1>1, <1>2, <1>5, <2>1 DEF Decides
  <2>5. Clean => req[p].saw.tool = calls[k].tool
    BY <1>1, <1>2, <1>5, <2>1 DEF Decides
  <2> QED
    BY <1>2, <1>6, <2>1, <2>2, <2>3, <2>4, <2>5 DEF CallOK
<1> QED
  BY <1>5, <1>7, <1>8, <1>9, AgentKept

\* Any other call gets its row.
LEMMA ToolRecords ==
    ASSUME FlowInv, AccessInv, AgentInv, NEW p \in Slots,
           Others(p), crossed \subseteq crossed', RecordCall(p)
    PROVE  AgentInv'
<1>1. req[p].op = "post" /\ req[p].at \in ToolPlaces /\ req[p].at # "record"
  BY DEF RecordCall, ToolPlaces
<1>2. req[p].saw.tool = req[p].arg.tool
  BY <1>1, InATool DEF AgentInv, Armed
<1>3. Leaves(p)
  BY SucceedLeaves DEF RecordCall, Finish
<1>4. PICK status \in {"executed", "failed"} :
         /\ calls' = WithCall(p, status)
         /\ status = IF At(p, "tool_done") THEN "executed" ELSE "failed"
  BY DEF RecordCall
<1>5. /\ sessions' = sessions /\ auto' = auto
      /\ ran' = IF At(p, "tool_done") /\ req[p].saw.tool = "create_node"
                THEN [ran EXCEPT ![NewCall] = 1] ELSE ran
  BY DEF RecordCall
<1> QED
  BY <1>1, <1>2, <1>3, <1>4, <1>5, NewCallKept

-----------------------------------------------------------------------------
\* In the beginning nothing has been executed.
LEMMA AgentStart == WorkInit => AgentInv
<1> SUFFICES ASSUME WorkInit PROVE AgentInv
  OBVIOUS
<1>1. /\ req = [p \in Slots |-> Idle] /\ menu \in Menus
      /\ Idle.op = "none" /\ Idle.at = "idle"
  BY DEF WorkInit, RequestInit, Idle
<1>2. PICK seed \in AgentSeeds[menu.about] :
         /\ auto = seed.auto /\ sessions = seed.sessions /\ calls = seed.calls
         /\ ran = [k \in CallIds |-> 0]
  BY DEF WorkInit, AgentInit
<1>3. AgentTypeOK
  BY <1>1, <1>2, AgentAssumption DEF AgentTypeOK
<1>4. ASSUME NEW k \in CallIds PROVE CallOK(k)
  BY <1>1, <1>2, AgentAssumption DEF CallOK
<1>5. \A p \in Slots : Armed(req[p]) /\ Decides(req[p])
  BY <1>1 DEF Armed, Decides, Runs
<1>6. RowsLeft
  <2>1. Posting = {}
    BY <1>1 DEF Posting
  <2> QED
    BY <2>1, RowCounts, FS_EmptySet DEF RowsLeft
<1> QED
  BY <1>3, <1>4, <1>5, <1>6 DEF AgentInv

\* Every step keeps the calls and their executions together.
LEMMA AgentNext ==
    ASSUME FlowInv, AccessInv, AgentInv, [Next]_vars
    PROVE  AgentInv'
<1>1. ASSUME UNCHANGED <<req, crossed, broken, agentVars>> PROVE AgentInv'
  BY <1>1 DEF agentVars, AgentInv, AgentTypeOK, CallOK, Executed, Armed, Decides,
     CaseOf, Solo, Clean, RowsLeft, Posting, FreshCall
<1>2. ASSUME NEW p \in Slots,
             CaseStep(p) \/ PersonStep(p) \/ TimelineStep(p) \/ AccountStep(p),
             UNCHANGED agentVars
      PROVE  AgentInv'
  <2>1. /\ CaseOps \cap AgentOps = {} /\ PersonOps \cap AgentOps = {}
        /\ TimelineOps \cap AgentOps = {} /\ AccountOps \cap AgentOps = {}
    BY DEF CaseOps, PersonOps, TimelineOps, AgentOps, AccountOps
  <2> QED
    BY <1>2, <2>1, ForeignAgent, CaseTurn, PersonTurn, TimelineTurn, AccountTurn
<1>3. ASSUME NEW p \in Slots, AgentStep(p) PROVE AgentInv'
  <2>1. Others(p) /\ crossed \subseteq crossed'
    BY <1>3, AgentTurn DEF Turn
  <2> QED
    BY <1>3, <2>1, AgentSends, AgentSessions, AgentPosts, AgentDecide, AgentReject,
       AgentApprove, ToolGoesOn, ToolWrites, ToolMarks, ToolRecords DEF AgentStep
<1>4. ASSUME NEW p \in Slots, RequestStep(p), UNCHANGED agentVars PROVE AgentInv'
  BY <1>4, EntryAgent, GoneAgent, ChecksAgent DEF RequestStep
<1>5. CASE (WindowStep /\ UNCHANGED agentVars) \/ AllServed \/ UNCHANGED vars
  BY <1>1, <1>5 DEF WindowStep, WindowEnds, AllServed, vars, requestVars
<1> QED
  BY <1>2, <1>3, <1>4, <1>5 DEF Next

(* A tool that waits for its user writes at most once for each call,       *)
(* unless two confirmations overlapped: each of them reads the status of   *)
(* the call in one statement and sets it in another.                       *)
THEOREM CallsRunOnce == Spec => []ExecutedOnce
<1>1. FlowInv /\ AccessInv /\ AgentInv /\ [Next]_vars
        => (FlowInv /\ AccessInv /\ AgentInv)'
  BY FlowStep, AccessNext, AgentNext
<1>2. AgentInv => ExecutedOnce
  BY DEF AgentInv, AgentTypeOK, CallOK, Solo, ExecutedOnce
<1> QED
  BY <1>1, <1>2, FlowInit, AccessInit, AgentStart, PTL DEF Spec

(* What the status of a call says is what its tool has done, whatever      *)
(* failures, denials and lost requests came in between, unless decisions   *)
(* overlapped.  A call that stays approved was left by a request that was  *)
(* cut short.                                                              *)
THEOREM DecisionsTellTruth == Spec => []DecisionHolds
<1>1. FlowInv /\ AccessInv /\ AgentInv /\ [Next]_vars
        => (FlowInv /\ AccessInv /\ AgentInv)'
  BY FlowStep, AccessNext, AgentNext
<1>2. AgentInv => DecisionHolds
  <2> SUFFICES ASSUME AgentInv, Clean, NEW k \in CallIds
               PROVE  /\ calls[k].status \in {"pending", "rejected", "failed"} => ran[k] = 0
                      /\ (calls[k].status = "executed" /\ calls[k].tool = "create_node")
                            => ran[k] = 1
                      /\ calls[k].status = "approved" =>
                            \/ \E p \in Slots : req[p].op = "confirm" /\ req[p].arg.call = k
                            \/ \E b \in broken : b[1] = "confirm"
    BY DEF DecisionHolds, Clean, Solo
  <2>1. CallOK(k) /\ Solo
    BY DEF AgentInv, Clean
  <2> QED
    BY <2>1 DEF CallOK, Executed
<1> QED
  BY <1>1, <1>2, FlowInit, AccessInit, AgentStart, PTL DEF Spec

(* The tables of the agent keep their types: its part of WorkTypeOK.       *)
THEOREM CallsAreTyped == Spec => []AgentTypeOK
<1>1. FlowInv /\ AccessInv /\ AgentInv /\ [Next]_vars
        => (FlowInv /\ AccessInv /\ AgentInv)'
  BY FlowStep, AccessNext, AgentNext
<1>2. AgentInv => AgentTypeOK
  BY DEF AgentInv
<1> QED
  BY <1>1, <1>2, FlowInit, AccessInit, AgentStart, PTL DEF Spec

=============================================================================
