---------------------------- MODULE WorkspaceProofs ----------------------------
(***************************************************************************)
(* Proofs about the requests of Workspace: where each handler goes on, what *)
(* a step leaves alone, and what the idempotency middleware promises for    *)
(* every route, menu and number of requests in flight.                      *)
(***************************************************************************)
EXTENDS Workspace, TLAPS

Fields == {"op", "at", "user", "case", "path", "arg", "saw", "need", "then",
           "deny", "keyed", "renewed", "may", "tx"}
KeyFields == {"recorded", "applied", "twice", "astray", "tokens"}

\* The places in each handler, beside the look-up, the checks and the record.
OnWay(op, place) ==
    \/ op = "none" /\ place = "idle"
    \/ op # "none" /\ place = "record"
    \/ op \notin {"none", "post", "confirm"} /\ place = "answer"
    \/ op = "create_case" /\ place \in {"create_case", "owner_row"}
    \/ op = "update_case" /\ place \in {"read_case", "update_case"}
    \/ op = "delete_case" /\ place = "delete_case"
    \/ op = "add_member" /\ place \in {"add_member", "member_row"}
    \/ op = "remove_member" /\ place = "remove_member"
    \/ op = "create_person" /\ place \in {"person_row", "person_link"}
    \/ /\ op \in {"update_person", "delete_person", "link_case"}
       /\ place \in {"fetch_person", "writable"}
    \/ op = "update_person" /\ place \in {"update_person", "person_detail"}
    \/ op = "delete_person" /\ place = "delete_person"
    \/ op = "link_case" /\ place = "link_insert"
    \/ op = "create_rel" /\ place \in {"rel_from", "rel_to", "rel_insert"}
    \/ op = "delete_rel" /\ place \in {"rel_read", "rel_delete"}
    \/ /\ op = "merge"
       /\ place \in {"merge_source", "merge_target", "merge_links", "merge_link",
                     "merge_fill", "merge_from", "merge_to", "merge_drop",
                     "merge_unlink", "merge_commit"}
    \/ op = "create_node" /\ place \in {"next_sort", "node_insert"}
    \/ /\ op \in {"update_node", "move_node", "delete_node", "link_evidence",
                  "unlink_evidence"}
       /\ place = "fetch_node"
    \/ /\ op \in {"update_node", "move_node"}
       /\ place \in {"next_order", "write_node", "read_new", "number_new",
                     "read_old", "number_old", "commit_node", "refetch"}
    \/ op = "delete_node" /\ place = "delete_node"
    \/ op = "link_evidence" /\ place \in {"find_evidence", "link_node"}
    \/ op = "unlink_evidence" /\ place = "unlink"
    \/ op = "delete_file" /\ place \in {"fetch_file", "delete_file"}
    \/ op = "create_session" /\ place = "session_row"
    \/ op = "delete_session" /\ place = "archive"
    \/ op = "post" /\ place \in {"session", "pending_row"}
    \/ op \in {"confirm", "reject"} /\ place = "decide"
    \/ op = "confirm" /\ place = "approve_row"
    \/ op = "reject" /\ place = "reject_row"
    \/ /\ op \in {"post", "confirm"}
       /\ place \in {"tool_operation", "tool_sort", "tool_insert", "tool_done",
                     "tool_failed"}
    \/ op = "register" /\ place \in {"count_users", "user_row", "role_row"}
    \/ /\ op = "login"
       /\ place \in {"count_attempt", "fetch_user", "fetch_version", "reset"}
    \/ op = "refresh" /\ place = "refresh"
    \/ op = "logout" /\ place = "bump"
    \/ op = "change_password" /\ place \in {"verify_old", "new_password"}

\* The places a handler reaches only after its operation has been committed.
Late == {"record", "owner_row", "member_row", "person_link", "person_detail",
         "refetch", "role_row"}

Checks   == {"case", "member"}
Heading(r) == IF r.at \in Checks \cup {"lookup"} THEN r.then ELSE r.at

Carried(r) ==
    \/ r.at \in Late
    \/ r.at \in Checks /\ r.then = "answer"
    \/ r.at = "tool_done" /\ r.saw.tool = "create_node"

\* Inside a tool the request has its input at hand.
ToolOK(place, deny, saw) ==
    /\ place \in {"tool_operation", "tool_sort", "tool_insert", "tool_done"}
          => deny = "tool_failed"
    /\ place \in {"tool_sort", "tool_insert"} => saw.tool = "create_node"

\* The access a place takes: a handler has checked it before it gets there.
Needed(place) ==
    IF place \in {"delete_case", "add_member", "remove_member"} THEN "own"
    ELSE IF place \in {"tool_sort", "tool_insert"} THEN "operate"
    ELSE IF place \in {"update_case", "person_row", "link_insert", "rel_from",
                       "rel_to", "rel_insert", "rel_read", "rel_delete",
                       "merge_source", "merge_target", "merge_links",
                       "next_sort", "node_insert", "next_order", "write_node",
                       "delete_node", "find_evidence", "link_node", "unlink",
                       "delete_file"} THEN "write"
    ELSE "none"

RequestOK(r) ==
    /\ OnWay(r.op, Heading(r)) /\ ToolOK(Heading(r), r.deny, r.saw)
    /\ r.keyed \in BOOLEAN /\ r.renewed \in BOOLEAN
    /\ IF r.op = "none" THEN ~r.keyed /\ r.at = "idle" ELSE r.user \in Users
    /\ r.keyed => r.op \notin WithoutToken
    /\ r.at = "record" => r.keyed
    /\ r.at = "lookup" => r.keyed /\ r.then \notin {"answer", "tool_done"}
    /\ r.at \in Checks \cup {"lookup"} => r.then \notin Late
    /\ r.at \in Checks /\ r.then = "tool_done" => r.saw.tool = "list"
    /\ r.at \in Checks \cup {"lookup"} => Needed(r.then) \in {"none", r.need}
    /\ r.at = "member" => r.need # "own" /\ r.case \in Cases
    /\ r.deny \in {"leave", "tool_failed"}
    /\ r.deny = "tool_failed" =>
          /\ r.op \in {"post", "confirm"}
          /\ r.at # "record" => DOMAIN r.saw = {"tool", "day", "order"}

FlowInv ==
    /\ menu \in Menus /\ faults \in Nat
    /\ DOMAIN keys = KeyFields
    /\ DOMAIN req = Slots
    /\ \A p \in Slots : DOMAIN req[p] = Fields /\ RequestOK(req[p])

-----------------------------------------------------------------------------
\* What a step of p leaves alone: the other requests, but for their rights,
\* and what history says of requests that were cut short.
Others(p) ==
    /\ \A q \in Slots \ {p} :
          /\ \A f \in Fields \ {"may"} : req'[q][f] = req[q][f]
          /\ req[q].may \subseteq req'[q].may
    /\ broken \subseteq broken'

\* A request that goes on: to a place that takes what it was heading for.
Same(p) ==
    /\ \A f \in {"op", "path", "user", "keyed", "renewed", "arg"} :
          req'[p][f] = req[p][f]
    /\ req[p].op # "create_case" => req'[p].case = req[p].case
    /\ req[p].may \subseteq req'[p].may
    /\ Needed(req'[p].at) \in {"none", Needed(Heading(req[p]))}
    /\ req'[p].at = "member" => req[p].at = "case"

\* The kinds of steps of a request, as the middleware sees them.
Sent(p) ==
    /\ req[p].op = "none" /\ req'[p].op # "none"
    /\ req'[p].keyed => req'[p].at = "lookup"
    /\ req'[p].at \notin {"record", "member", "owner_row"}
    /\ Needed(req'[p].at) = "none"
    /\ req'[p].op = "create_case" => req'[p].case = NoCase
    /\ req'[p].case \in Cases =>
          Rights(req'[p].user, cases[req'[p].case],
                 members[req'[p].case][req'[p].user]) \subseteq req'[p].may
    /\ \A q \in Slots \ {p} :
          req[q].op # "none" /\ req[q].case = req'[p].case
             => {req'[p].op, req[q].op} \in crossed'
    /\ keys' = keys
InHandler(p) == req[p].op # "none" /\ req[p].at \notin {"lookup", "record"}
Quiet(p) ==
    /\ InHandler(p) /\ keys' = keys
    /\ Same(p) /\ req'[p].at # "lookup"
    /\ Carried(req'[p]) <=> Carried(req[p])
Applies(p) ==
    /\ InHandler(p) /\ keys' = Applied(req[p])
    /\ ~Carried(req[p])
    /\ Same(p) /\ req'[p].at # "lookup" /\ Carried(req'[p])
Ends(p) ==
    /\ req[p].op # "none" /\ req'[p] = Idle
    /\ InHandler(p) \/ CutShort(p)
    /\ \/ keys' = Unrecorded(req[p])
       \/ ~req[p].keyed /\ keys' = keys

Serves(p) == Sent(p) \/ Quiet(p) \/ Applies(p) \/ Ends(p)
Turn(p, ops) ==
    /\ FlowInv' /\ Others(p) /\ Serves(p)
    /\ crossed \subseteq crossed'
    /\ req[p].at \in Checks
          => Needed(req'[p].at) = "none" /\ req'[p].at # "member"
    /\ IF req[p].op = "none" THEN req'[p].op \in ops ELSE req[p].op \in ops

-----------------------------------------------------------------------------
CaseOps == {"create_case", "update_case", "delete_case", "add_member",
            "remove_member"}

\* Who may send a request into a slot, and when.
LEMMA SenderFacts ==
    ASSUME NEW p \in Slots, NEW op, NEW user \in Senders(p, op)
    PROVE  req[p].op = "none" /\ user \in menu.users /\ op \in menu.ops
  BY DEF Senders, Active

\* A request is sent: its slot was free, and it stands at its first place.
LEMMA SendTurn ==
    ASSUME FlowInv, NEW p \in Slots, NEW op, NEW user \in Senders(p, op),
           NEW case, NEW path, NEW arg, NEW need, NEW then,
           Send(p, op, user, case, path, arg, need, then),
           op # "none", OnWay(op, then),
           then \notin Late \cup Checks \cup {"lookup", "answer"},
           ToolOK(then, "leave", Nothing), Needed(then) \in {"none", need},
           op = "create_case" => case = NoCase
    PROVE  /\ FlowInv' /\ Others(p) /\ Sent(p)
           /\ crossed \subseteq crossed'
           /\ req[p].op = "none" /\ req[p].at = "idle" /\ req'[p].op = op
<1> USE DEF FlowInv, Fields, Send, FirstStep
<1>1. /\ req[p].op = "none" /\ user \in Users /\ menu' = menu /\ keys' = keys /\ faults' = faults
      /\ menu.keyed \in BOOLEAN /\ (menu.keyed => op \notin WithoutToken)
      /\ crossed \subseteq crossed'
  <2>1. /\ menu' = menu /\ keys' = keys /\ faults' = faults
        /\ crossed \subseteq crossed'
    OBVIOUS
  <2>2. req[p].op = "none" /\ user \in menu.users /\ op \in menu.ops
    BY SenderFacts
  <2> QED
    BY <2>1, <2>2, RequestsAssumption
<1>2. PICK renewed \in BOOLEAN :
         LET r == [op |-> op, at |-> "lookup", user |-> user, case |-> case,
                   path |-> path, arg |-> arg, saw |-> Nothing, need |-> need,
                   then |-> then, deny |-> "leave",
                   keyed |-> menu.keyed, renewed |-> renewed,
                   may |-> IF case \in Cases
                           THEN Rights(user, cases[case], members[case][user])
                           ELSE {},
                   tx |-> <<>>]
         IN  req' = [req EXCEPT ![p] =
                       IF r.keyed THEN r ELSE [r EXCEPT !.at = FirstStep(r)]]
  BY DEF Idle
<1>3. /\ DOMAIN req' = Slots /\ Others(p)
      /\ \A q \in Slots \ {p} : req'[q] = req[q]
      /\ DOMAIN req'[p] = Fields
      /\ req'[p].op = op /\ req'[p].user = user /\ req'[p].then = then
      /\ req'[p].deny = "leave" /\ req'[p].keyed = menu.keyed
      /\ req'[p].renewed = renewed
      /\ req'[p].at = IF menu.keyed THEN "lookup"
                      ELSE IF need = "none" THEN then ELSE "case"
      /\ req'[p].need = need /\ req'[p].case = case
      /\ case \in Cases => req'[p].may = Rights(user, cases[case], members[case][user])
  BY <1>1, <1>2 DEF Others
<1>4. RequestOK(req'[p])
  BY <1>1, <1>3 DEF RequestOK, Heading, OnWay, ToolOK, Checks, Late
<1>5. Needed(req'[p].at) = "none" /\ req'[p].at \notin {"record", "member", "owner_row"}
  BY <1>3 DEF Needed, Checks, Late
<1>6. ASSUME NEW q \in Slots \ {p}, req[q].op # "none", req[q].case = case
      PROVE  {op, req[q].op} \in crossed'
  BY <1>6 DEF Overlaps, Active
<1>7. req[p].at = "idle"
  BY <1>1 DEF RequestOK
<1> QED
  BY <1>1, <1>3, <1>4, <1>5, <1>6, <1>7 DEF Sent
-----------------------------------------------------------------------------
\* What it takes for the slots of a step to be in order again.
LEMMA FlowKept ==
    ASSUME FlowInv, NEW p \in Slots, menu' = menu, faults' \in {faults, faults + 1},
           DOMAIN keys' = KeyFields,
           DOMAIN req' = Slots, Others(p),
           \A q \in Slots : DOMAIN req'[q] = Fields,
           RequestOK(req'[p])
    PROVE  FlowInv'
<1>1. ASSUME NEW q \in Slots \ {p}
      PROVE  RequestOK(req'[q])
  <2>1. RequestOK(req[q])
    BY DEF FlowInv
  <2>2. /\ req'[q].op = req[q].op /\ req'[q].at = req[q].at
        /\ req'[q].then = req[q].then /\ req'[q].user = req[q].user
        /\ req'[q].keyed = req[q].keyed /\ req'[q].renewed = req[q].renewed
        /\ req'[q].saw = req[q].saw /\ req'[q].deny = req[q].deny
        /\ req'[q].need = req[q].need /\ req'[q].case = req[q].case
    BY DEF Others, Fields
  <2> QED
    BY <2>1, <2>2 DEF RequestOK, ToolOK, Heading
<1> QED
  BY <1>1 DEF FlowInv

\* A step that changes one request, and its fields in S only.
Changes(p, S) ==
    /\ menu' = menu /\ crossed' = crossed
    /\ DOMAIN req' = Slots /\ Others(p)
    /\ \A q \in Slots : DOMAIN req'[q] = Fields
    /\ \A f \in Fields \ S : req'[p][f] = req[p][f]

Proceeds(p) == FlowInv' /\ Others(p) /\ crossed' = crossed
              /\ (Quiet(p) \/ Applies(p) \/ Ends(p))

\* The history of the keys keeps its shape.
LEMMA AppliedKeys ==
    ASSUME FlowInv, NEW p \in Slots
    PROVE  /\ DOMAIN Applied(req[p]) = KeyFields
           /\ DOMAIN Unrecorded(req[p]) = KeyFields
  BY DEF FlowInv, Applied, Unrecorded, Astray

\* A place that is neither a check nor the middleware says what the request is.
LEMMA Standing ==
    ASSUME FlowInv, NEW p \in Slots, NEW place, At(p, place),
           place \notin Checks \cup {"lookup", "record", "idle"}
    PROVE  /\ OnWay(req[p].op, place) /\ InHandler(p)
           /\ req[p].at = place /\ Heading(req[p]) = place
           /\ ToolOK(place, req[p].deny, req[p].saw)
           /\ req[p].deny = "leave" \/ req[p].op \in {"post", "confirm"}
           /\ req[p].deny = "tool_failed"
                 => DOMAIN req[p].saw = {"tool", "day", "order"}
           /\ Carried(req[p]) <=> \/ place \in Late
                                  \/ place = "tool_done" /\ req[p].saw.tool = "create_node"
  BY DEF FlowInv, RequestOK, ToolOK, Heading, OnWay, At, InHandler, Carried, Late,
     Checks

Onward(p, place) ==
    /\ InHandler(p) /\ OnWay(req[p].op, place)
    /\ place \notin Checks \cup {"lookup", "answer", "record", "idle"}
    /\ Needed(place) \in {"none", Needed(Heading(req[p]))}

\* The ways a handler goes on, one lemma for each: to another place,
LEMMA GotoTurn ==
    ASSUME FlowInv, NEW p \in Slots, NEW place, Goto(p, place), Onward(p, place),
           ~Carried(req[p]), place \notin Late,
           ToolOK(place, req[p].deny, req[p].saw),
           place = "tool_done" => req[p].saw.tool = "list"
    PROVE  Proceeds(p)
<1>1. faults' = faults /\ Changes(p, {"at"}) /\ req'[p].at = place /\ keys' = keys
      /\ DOMAIN keys' = KeyFields
  BY DEF Changes, Goto, bounds, FlowInv, Fields, Others
<1>2. RequestOK(req'[p]) /\ ~Carried(req'[p]) /\ Same(p) /\ req'[p].at # "lookup"
  BY <1>1 DEF Changes, FlowInv, RequestOK, ToolOK, Onward, InHandler, Heading,
     Fields, Same, Carried, Checks
<1> QED
  BY <1>1, <1>2, FlowKept DEF Changes, Proceeds, Quiet, Onward

\* with what it has read,
LEMMA LearnTurn ==
    ASSUME FlowInv, NEW p \in Slots, NEW place, NEW what, Learn(p, place, what),
           Onward(p, place), ~Carried(req[p]), place \notin Late \cup {"tool_done"},
           ToolOK(place, req[p].deny, what),
           req[p].deny = "tool_failed" => DOMAIN what = {"tool", "day", "order"}
    PROVE  Proceeds(p)
<1>1. faults' = faults /\ Changes(p, {"at", "saw"}) /\ req'[p].at = place /\ req'[p].saw = what
      /\ keys' = keys
      /\ DOMAIN keys' = KeyFields
  BY DEF Changes, Learn, bounds, FlowInv, Fields, Others
<1>2. RequestOK(req'[p]) /\ ~Carried(req'[p]) /\ Same(p) /\ req'[p].at # "lookup"
  BY <1>1 DEF Changes, FlowInv, RequestOK, ToolOK, Onward, InHandler, Heading,
     Fields, Same, Carried, Checks
<1> QED
  BY <1>1, <1>2, FlowKept DEF Changes, Proceeds, Quiet, Onward

\* with a row written in its transaction,
LEMMA BufferTurn ==
    ASSUME FlowInv, NEW p \in Slots, NEW place, NEW rows, Buffer(p, place, rows),
           Onward(p, place), ~Carried(req[p]), place \notin Late \cup {"tool_done"},
           ToolOK(place, "leave", Nothing)
    PROVE  Proceeds(p)
<1>1. faults' = faults /\ Changes(p, {"at", "tx"}) /\ req'[p].at = place /\ keys' = keys
      /\ DOMAIN keys' = KeyFields
  BY DEF Changes, Buffer, bounds, FlowInv, Fields, Others
<1>2. RequestOK(req'[p]) /\ ~Carried(req'[p]) /\ Same(p) /\ req'[p].at # "lookup"
  BY <1>1 DEF Changes, FlowInv, RequestOK, ToolOK, Onward, InHandler, Heading,
     Fields, Same, Carried, Checks
<1> QED
  BY <1>1, <1>2, FlowKept DEF Changes, Proceeds, Quiet, Onward

\* Where a check may lead: the last thing a handler does is one for its answer.
LeadsTo(p, level, place) ==
    /\ InHandler(p) /\ OnWay(req[p].op, place)
    /\ place \notin Checks \cup {"lookup", "record", "idle", "tool_done"} \cup Late
    /\ Carried(req[p]) <=> place = "answer"
    /\ ToolOK(place, "leave", Nothing) /\ Needed(place) \in {"none", level}

\* to a check of the access,
LEMMA CheckTurn ==
    ASSUME FlowInv, NEW p \in Slots, NEW level, NEW place, Check(p, level, place),
           LeadsTo(p, level, place)
    PROVE  Proceeds(p)
<1>1. faults' = faults /\ Changes(p, {"at", "need", "then"}) /\ req'[p].at = "case"
      /\ req'[p].then = place /\ req'[p].need = level /\ keys' = keys
      /\ DOMAIN keys' = KeyFields
  BY DEF Changes, Check, bounds, FlowInv, Fields, Others
<1>2. RequestOK(req'[p]) /\ (Carried(req'[p]) <=> Carried(req[p])) /\ Same(p)
      /\ req'[p].at # "lookup"
  BY <1>1 DEF Changes, FlowInv, RequestOK, ToolOK, LeadsTo, InHandler, Heading,
     Fields, Same, Carried, Checks, Late, Needed
<1> QED
  BY <1>1, <1>2, FlowKept DEF Changes, Proceeds, Quiet, LeadsTo

\* to a check, with the row it has read,
LEMMA LearnAndCheckTurn ==
    ASSUME FlowInv, NEW p \in Slots, NEW what, NEW level, NEW place,
           LearnAndCheck(p, what, level, place),
           LeadsTo(p, level, place), req[p].deny = "leave"
    PROVE  Proceeds(p)
<1>1. faults' = faults /\ Changes(p, {"at", "need", "then", "saw"}) /\ req'[p].at = "case"
      /\ req'[p].then = place /\ req'[p].need = level /\ keys' = keys
      /\ DOMAIN keys' = KeyFields
  BY DEF Changes, LearnAndCheck, bounds, FlowInv, Fields, Others
<1>2. RequestOK(req'[p]) /\ (Carried(req'[p]) <=> Carried(req[p])) /\ Same(p)
      /\ req'[p].at # "lookup"
  BY <1>1 DEF Changes, FlowInv, RequestOK, ToolOK, LeadsTo, InHandler, Heading,
     Fields, Same, Carried, Checks, Late, Needed
<1> QED
  BY <1>1, <1>2, FlowKept DEF Changes, Proceeds, Quiet, LeadsTo

\* past the statement that carries out its operation,
LEMMA CarryTurn ==
    ASSUME FlowInv, NEW p \in Slots, NEW place, NEW what, Carry(p, place, what),
           Onward(p, place), ~Carried(req[p]),
           \/ place \in Late /\ req[p].deny = "leave"
           \/ /\ place = "tool_done" /\ what.tool = "create_node"
              /\ req[p].deny = "tool_failed"
              /\ DOMAIN what = {"tool", "day", "order"}
    PROVE  Proceeds(p)
<1>1. faults' = faults /\ Changes(p, {"at", "saw", "tx"}) /\ req'[p].at = place /\ req'[p].saw = what
      /\ keys' = Applied(req[p])
  BY DEF Changes, Carry, bounds, FlowInv, Fields, Others
<1>2. RequestOK(req'[p]) /\ Carried(req'[p]) /\ Same(p) /\ req'[p].at # "lookup"
  BY <1>1 DEF Changes, FlowInv, RequestOK, ToolOK, Onward, InHandler, Heading,
     Fields, Same, Carried, Checks, Late, Needed
<1> QED
  BY <1>1, <1>2, FlowKept, AppliedKeys DEF Changes, Proceeds, Applies, Onward

\* The answer of an unkeyed request ends it, a keyed one is to be recorded.
LEMMA AnsweredTurn ==
    ASSUME FlowInv, NEW p \in Slots, req' = Answered(p), InHandler(p),
           broken' = broken
    PROVE  /\ DOMAIN req' = Slots /\ Others(p)
           /\ \A q \in Slots : DOMAIN req'[q] = Fields
           /\ RequestOK(req'[p])
           /\ ~req[p].keyed => req'[p] = Idle
           /\ req[p].keyed => /\ Same(p) /\ req'[p].at = "record"
                              /\ Carried(req'[p])
<1>1. /\ DOMAIN req' = Slots /\ Others(p)
      /\ \A q \in Slots : DOMAIN req'[q] = Fields
      /\ ~req[p].keyed => req'[p] = Idle
      /\ req[p].keyed =>
            /\ req'[p].at = "record" /\ Same(p)
            /\ req'[p].deny = req[p].deny
  BY DEF Answered, FlowInv, Fields, Others, Same, Needed, Idle
<1>2. CASE req[p].keyed
  BY <1>1, <1>2 DEF FlowInv, RequestOK, ToolOK, OnWay, Heading, InHandler, Carried,
     Late, Checks, Same
<1>3. CASE ~req[p].keyed
  <2>1. RequestOK(Idle)
    BY DEF RequestOK, ToolOK, OnWay, Heading, Idle, Checks, Late
  <2> QED
    BY <1>1, <1>3, <2>1
<1>4. req[p].keyed \in BOOLEAN
  BY DEF FlowInv, RequestOK
<1> QED
  BY <1>2, <1>3, <1>4

\* to its answer,
LEMMA SucceedTurn ==
    ASSUME FlowInv, NEW p \in Slots, Succeed(p), InHandler(p),
           Carried(req[p]) \/ ~req[p].keyed
    PROVE  Proceeds(p)
<1>1. /\ menu' = menu /\ crossed' = crossed /\ faults' = faults /\ keys' = keys
      /\ broken' = broken /\ DOMAIN keys' = KeyFields /\ req' = Answered(p)
  BY DEF Succeed, bounds, FlowInv
<1> QED
  BY <1>1, AnsweredTurn, FlowKept DEF Proceeds, Quiet, Ends, InHandler

\* to its answer by the statement that carries out its operation,
LEMMA CarryAndSucceedTurn ==
    ASSUME FlowInv, NEW p \in Slots, CarryAndSucceed(p), InHandler(p),
           ~Carried(req[p])
    PROVE  Proceeds(p)
<1>1. /\ menu' = menu /\ crossed' = crossed /\ faults' = faults
      /\ broken' = broken /\ keys' = Applied(req[p]) /\ req' = Answered(p)
  BY DEF CarryAndSucceed, bounds
<1>2. ~req[p].keyed => keys' = keys
  BY <1>1 DEF Applied
<1> QED
  BY <1>1, <1>2, AnsweredTurn, FlowKept, AppliedKeys
  DEF Proceeds, Applies, Ends, InHandler

\* to a refusal,
LEMMA RefuseTurn ==
    ASSUME FlowInv, NEW p \in Slots, Refuse(p), InHandler(p)
    PROVE  Proceeds(p)
<1>1. faults' = faults /\ Changes(p, Fields) /\ req'[p] = Idle /\ keys' = Unrecorded(req[p])
  BY DEF Changes, Refuse, bounds, FlowInv, Fields, Others, Idle
<1>2. RequestOK(req'[p])
  BY <1>1 DEF RequestOK, ToolOK, OnWay, Heading, Idle, Checks, Late
<1> QED
  BY <1>1, <1>2, FlowKept, AppliedKeys DEF Changes, Proceeds, Ends, InHandler

\* and into a tool of the agent.
LEMMA InToolTurn ==
    ASSUME FlowInv, NEW p \in Slots, NEW input, NEW level, NEW place,
           InTool(p, input, level, place), InHandler(p),
           DOMAIN input = {"tool", "day", "order"},
           req[p].op \in {"post", "confirm"},
           ~Carried(req[p]), Needed(place) \in {"none", level},
           \/ place \in {"tool_operation", "tool_failed"}
           \/ place = "tool_sort" /\ input.tool = "create_node"
           \/ place = "tool_done" /\ input.tool = "list"
    PROVE  Proceeds(p)
<1>1. faults' = faults /\ Changes(p, {"at", "need", "then", "deny", "saw"}) /\ keys' = keys
      /\ DOMAIN keys' = KeyFields
      /\ req'[p].at \in {"tool_failed", "case"} /\ req'[p].then = place
      /\ req'[p].need = level
      /\ req'[p].deny = "tool_failed" /\ req'[p].saw = input
  BY DEF Changes, InTool, bounds, FlowInv, Fields, Others
<1>2. RequestOK(req'[p]) /\ ~Carried(req'[p]) /\ Same(p) /\ req'[p].at # "lookup"
  BY <1>1 DEF Changes, FlowInv, RequestOK, ToolOK, InHandler, OnWay, Heading,
     Fields, Same, Carried, Checks, Late, Needed
<1> QED
  BY <1>1, <1>2, FlowKept DEF Changes, Proceeds, Quiet

-----------------------------------------------------------------------------
\* The history of the rights adds to `may' and touches nothing else.
LEMMA InformedKeeps ==
    ASSUME NEW sent, DOMAIN sent = Slots,
           \A q \in Slots : DOMAIN sent[q] = Fields,
           NEW rows, NEW roles
    PROVE  /\ DOMAIN Informed(sent, rows, roles) = Slots
           /\ \A q \in Slots :
                 LET r == Informed(sent, rows, roles)[q] IN
                   /\ DOMAIN r = Fields /\ sent[q].may \subseteq r.may
                   /\ \A f \in Fields \ {"may"} : r[f] = sent[q][f]
  BY DEF Informed, Fields

\* The handlers of cases and members go on as they should.
LEMMA CaseTurn ==
    ASSUME FlowInv, NEW p \in Slots, CaseStep(p)
    PROVE  Turn(p, CaseOps)
<1> USE DEF CaseOps, Turn, Serves, Proceeds, Onward, LeadsTo, OnWay, ToolOK, Late,
   Checks, Needed
<1>1. CASE SendCreateCase(p)
  BY <1>1, SendTurn DEF SendCreateCase
<1>2. CASE SendUpdateCase(p)
  BY <1>2, SendTurn DEF SendUpdateCase
<1>3. CASE SendDeleteCase(p)
  BY <1>3, SendTurn DEF SendDeleteCase
<1>4. CASE SendAddMember(p)
  BY <1>4, SendTurn DEF SendAddMember
<1>5. CASE SendRemoveMember(p)
  BY <1>5, SendTurn DEF SendRemoveMember
<1>6. CASE InsertCase(p)
  <2>0. /\ req[p].op = "create_case" /\ InHandler(p) /\ ~Carried(req[p])
        /\ Heading(req[p]) = req[p].at
    BY <1>6, Standing DEF InsertCase, OnWay, Late, Checks
  <2>1. PICK sent :
           /\ DOMAIN sent = Slots
           /\ \A q \in Slots : DOMAIN sent[q] = Fields /\ sent[q].may = req[q].may
           /\ \A q \in Slots \ {p} : sent[q] = req[q]
           /\ \A f \in Fields \ {"at", "case"} : sent[p][f] = req[p][f]
           /\ sent[p].at = "owner_row" /\ sent[p].then = req[p].then
           /\ req' = Informed(sent, cases', members)
    BY <1>6 DEF InsertCase, FlowInv, Fields
  <2>2. /\ DOMAIN req' = Slots
        /\ \A q \in Slots : /\ DOMAIN req'[q] = Fields
                           /\ sent[q].may \subseteq req'[q].may
                           /\ \A f \in Fields \ {"may"} : req'[q][f] = sent[q][f]
    BY <2>1, InformedKeeps
  <2>3. /\ menu' = menu /\ crossed' = crossed /\ faults' = faults
        /\ keys' = Applied(req[p]) /\ broken' = broken
    BY <1>6 DEF InsertCase, bounds
  <2>4. /\ Others(p) /\ req'[p].at = "owner_row" /\ req'[p].then = req[p].then
        /\ req'[p].saw = req[p].saw /\ req'[p].deny = req[p].deny
        /\ \A f \in {"op", "path", "user", "keyed", "renewed", "arg"} :
              req'[p][f] = req[p][f]
        /\ req[p].op # "create_case" => req'[p].case = req[p].case
        /\ req[p].may \subseteq req'[p].may
    BY <2>0, <2>1, <2>2, <2>3 DEF Others, Fields
  <2>5. Same(p)
    BY <2>0, <2>4 DEF Same, Needed
  <2>6. RequestOK(req'[p]) /\ Carried(req'[p]) /\ req'[p].at # "lookup"
    BY <2>0, <2>4 DEF FlowInv, RequestOK, ToolOK, OnWay, Heading, Carried, Late,
       Checks, Needed
  <2> QED
    BY <2>0, <2>2, <2>3, <2>4, <2>5, <2>6, FlowKept, AppliedKeys
    DEF Turn, Serves, Applies, Needed, Checks
<1>7. CASE InsertOwnerRow(p)
  BY <1>7, Standing, CheckTurn DEF InsertOwnerRow
<1>8. CASE ReadCase(p)
  BY <1>8, Standing, LearnAndCheckTurn, RefuseTurn DEF ReadCase
<1>9. CASE WriteCase(p)
  <2>0. /\ req[p].op = "update_case" /\ InHandler(p) /\ ~Carried(req[p])
        /\ Heading(req[p]) = req[p].at
    BY <1>9, Standing DEF WriteCase, OnWay, Late, Checks
  <2>1. PICK sent :
           /\ DOMAIN sent = Slots
           /\ \A q \in Slots : DOMAIN sent[q] = Fields /\ sent[q].may = req[q].may
           /\ \A q \in Slots \ {p} : sent[q] = req[q]
           /\ \A f \in Fields \ {"at", "need", "then"} : sent[p][f] = req[p][f]
           /\ sent[p].at = "case" /\ sent[p].then = "answer"
           /\ req' = Informed(sent, cases', members)
    <3> DEFINE new == [req EXCEPT ![p].at = "case", ![p].need = "read",
                                  ![p].then = "answer"]
    <3>1. req' = Informed(new, cases', members)
      BY <1>9 DEF WriteCase
    <3>2. /\ DOMAIN new = Slots
          /\ \A q \in Slots : DOMAIN new[q] = Fields /\ new[q].may = req[q].may
          /\ \A q \in Slots \ {p} : new[q] = req[q]
          /\ \A f \in Fields \ {"at", "need", "then"} : new[p][f] = req[p][f]
          /\ new[p].at = "case" /\ new[p].then = "answer"
      BY DEF FlowInv, Fields
    <3> QED
      BY <3>1, <3>2
  <2>2. /\ DOMAIN req' = Slots
        /\ \A q \in Slots : /\ DOMAIN req'[q] = Fields
                           /\ sent[q].may \subseteq req'[q].may
                           /\ \A f \in Fields \ {"may"} : req'[q][f] = sent[q][f]
    BY <2>1, InformedKeeps
  <2>3. /\ menu' = menu /\ crossed' = crossed /\ faults' = faults
        /\ keys' = Applied(req[p]) /\ broken' = broken
    BY <1>9 DEF WriteCase, bounds
  <2>4. /\ Others(p) /\ req'[p].at = "case" /\ req'[p].then = "answer"
        /\ req'[p].saw = req[p].saw /\ req'[p].deny = req[p].deny
        /\ \A f \in {"op", "path", "user", "keyed", "renewed", "arg"} :
              req'[p][f] = req[p][f]
        /\ req[p].op # "create_case" => req'[p].case = req[p].case
        /\ req[p].may \subseteq req'[p].may
    BY <2>0, <2>1, <2>2, <2>3 DEF Others, Fields
  <2>5. Same(p)
    BY <2>0, <2>4 DEF Same, Needed
  <2>6. RequestOK(req'[p]) /\ Carried(req'[p]) /\ req'[p].at # "lookup"
    BY <2>0, <2>4 DEF FlowInv, RequestOK, ToolOK, OnWay, Heading, Carried, Late,
       Checks, Needed
  <2> QED
    BY <2>0, <2>2, <2>3, <2>4, <2>5, <2>6, FlowKept, AppliedKeys
    DEF Turn, Serves, Applies, Needed, Checks
<1>10. CASE DeleteCase(p)
  BY <1>10, Standing, CarryAndSucceedTurn DEF DeleteCase
<1>11. CASE UpsertMember(p)
  <2>0. /\ req[p].op = "add_member" /\ InHandler(p) /\ ~Carried(req[p])
        /\ Heading(req[p]) = req[p].at
    BY <1>11, Standing DEF UpsertMember, OnWay, Late, Checks
  <2>1. PICK sent :
           /\ DOMAIN sent = Slots
           /\ \A q \in Slots : DOMAIN sent[q] = Fields /\ sent[q].may = req[q].may
           /\ \A q \in Slots \ {p} : sent[q] = req[q]
           /\ \A f \in Fields \ {"at"} : sent[p][f] = req[p][f]
           /\ sent[p].at = "member_row" /\ sent[p].then = req[p].then
           /\ req' = Informed(sent, cases, members')
    BY <1>11 DEF UpsertMember, FlowInv, Fields
  <2>2. /\ DOMAIN req' = Slots
        /\ \A q \in Slots : /\ DOMAIN req'[q] = Fields
                           /\ sent[q].may \subseteq req'[q].may
                           /\ \A f \in Fields \ {"may"} : req'[q][f] = sent[q][f]
    BY <2>1, InformedKeeps
  <2>3. /\ menu' = menu /\ crossed' = crossed /\ faults' = faults
        /\ keys' = Applied(req[p]) /\ broken' = broken
    BY <1>11 DEF UpsertMember, bounds
  <2>4. /\ Others(p) /\ req'[p].at = "member_row" /\ req'[p].then = req[p].then
        /\ req'[p].saw = req[p].saw /\ req'[p].deny = req[p].deny
        /\ \A f \in {"op", "path", "user", "keyed", "renewed", "arg"} :
              req'[p][f] = req[p][f]
        /\ req[p].op # "create_case" => req'[p].case = req[p].case
        /\ req[p].may \subseteq req'[p].may
    BY <2>0, <2>1, <2>2, <2>3 DEF Others, Fields
  <2>5. Same(p)
    BY <2>0, <2>4 DEF Same, Needed
  <2>6. RequestOK(req'[p]) /\ Carried(req'[p]) /\ req'[p].at # "lookup"
    BY <2>0, <2>4 DEF FlowInv, RequestOK, ToolOK, OnWay, Heading, Carried, Late,
       Checks, Needed
  <2> QED
    BY <2>0, <2>2, <2>3, <2>4, <2>5, <2>6, FlowKept, AppliedKeys
    DEF Turn, Serves, Applies, Needed, Checks
<1>12. CASE UpsertOwner(p)
  BY <1>12, Standing, CarryTurn DEF UpsertOwner
<1>13. CASE RefuseMember(p)
  BY <1>13, Standing, RefuseTurn DEF RefuseMember
<1>14. CASE ReadMember(p)
  BY <1>14, Standing, RefuseTurn, SucceedTurn DEF ReadMember
<1>15. CASE RemoveMember(p)
  BY <1>15, Standing, CarryAndSucceedTurn, RefuseTurn DEF RemoveMember
<1> QED
  BY <1>1, <1>2, <1>3, <1>4, <1>5, <1>6, <1>7, <1>8, <1>9, <1>10, <1>11, <1>12,
     <1>13, <1>14, <1>15 DEF CaseStep

PersonOps == {"create_person", "update_person", "delete_person", "link_case",
              "create_rel", "delete_rel", "merge"}

\* The handlers of persons, relationships and the merge go on as they should.
LEMMA PersonTurn ==
    ASSUME FlowInv, NEW p \in Slots, PersonStep(p)
    PROVE  Turn(p, PersonOps)
<1> USE DEF PersonOps, Turn, Serves, Proceeds, Onward, LeadsTo, OnWay, ToolOK, Late,
   Checks, Needed
<1>1. CASE SendCreatePerson(p)
  BY <1>1, SendTurn DEF SendCreatePerson
<1>2. CASE SendUpdatePerson(p)
  BY <1>2, SendTurn DEF SendUpdatePerson
<1>3. CASE SendDeletePerson(p)
  BY <1>3, SendTurn DEF SendDeletePerson
<1>4. CASE SendLinkCase(p)
  BY <1>4, SendTurn DEF SendLinkCase
<1>5. CASE SendCreateRel(p)
  BY <1>5, SendTurn DEF SendCreateRel
<1>6. CASE SendDeleteRel(p)
  BY <1>6, SendTurn DEF SendDeleteRel
<1>7. CASE SendMerge(p)
  BY <1>7, SendTurn DEF SendMerge
<1>8. CASE InsertPerson(p)
  BY <1>8, Standing, CarryTurn DEF InsertPerson
<1>9. CASE InsertPersonLink(p)
  BY <1>9, Standing, SucceedTurn DEF InsertPersonLink
<1>10. CASE FetchPerson(p)
  BY <1>10, Standing, GotoTurn, RefuseTurn DEF FetchPerson
<1>11. CASE PrimaryWritable(p)
  BY <1>11, Standing, RefuseTurn, CheckTurn, GotoTurn DEF PrimaryWritable
<1>12. CASE WritePerson(p)
  BY <1>12, Standing, CarryTurn DEF WritePerson
<1>13. CASE RefetchPerson(p)
  BY <1>13, Standing, SucceedTurn, RefuseTurn DEF RefetchPerson
<1>14. CASE DeletePerson(p)
  BY <1>14, Standing, CarryAndSucceedTurn DEF DeletePerson
<1>15. CASE InsertLink(p)
  BY <1>15, Standing, RefuseTurn, CarryAndSucceedTurn DEF InsertLink
<1>16. CASE CheckFrom(p)
  BY <1>16, Standing, GotoTurn, RefuseTurn DEF CheckFrom
<1>17. CASE CheckTo(p)
  BY <1>17, Standing, GotoTurn, RefuseTurn DEF CheckTo
<1>18. CASE InsertRel(p)
  BY <1>18, Standing, RefuseTurn, CarryAndSucceedTurn DEF InsertRel
<1>19. CASE ReadRel(p)
  BY <1>19, Standing, RefuseTurn, CarryAndSucceedTurn, GotoTurn DEF ReadRel
<1>20. CASE DeleteRel(p)
  BY <1>20, Standing, CarryAndSucceedTurn DEF DeleteRel
<1>21. CASE CheckSource(p)
  BY <1>21, Standing, GotoTurn, RefuseTurn DEF CheckSource
<1>22. CASE CheckTarget(p)
  BY <1>22, Standing, GotoTurn, RefuseTurn DEF CheckTarget
<1>23. CASE ReadSourceLinks(p)
  BY <1>23, Standing, LearnTurn DEF ReadSourceLinks
<1>24. CASE TakeLink(p)
  <2>1. /\ faults' \in {faults, faults + 1}
        /\ Changes(p, {"at", "saw", "tx"}) /\ keys' = keys /\ DOMAIN keys' = KeyFields
        /\ req'[p].at \in {"merge_link", "merge_fill"}
    <3>1. PICK link, seen :
             req' = IF seen
                    THEN [req EXCEPT ![p].saw.rest = @ \ {link},
                            ![p].tx = Writes(p, Row(TargetKey(p, link[1]), link[2]))]
                    ELSE [req EXCEPT ![p].at = "merge_fill", ![p].saw.link = link,
                            ![p].saw.rest = @ \ {link}]
      BY <1>24 DEF TakeLink
    <3>2. req[p].at = "merge_link" /\ UNCHANGED <<keys, bounds>>
      BY <1>24 DEF TakeLink, At
    <3>3. CASE seen
      BY <3>1, <3>2, <3>3 DEF Changes, bounds, FlowInv, Fields, Others
    <3>4. CASE ~seen
      BY <3>1, <3>2, <3>4 DEF Changes, bounds, FlowInv, Fields, Others
    <3> QED
      BY <3>3, <3>4
  <2>2. req[p].op = "merge" /\ InHandler(p) /\ ~Carried(req[p])
        /\ req[p].deny = "leave"
    BY <1>24, Standing DEF TakeLink, OnWay, Late, Checks
  <2>3. /\ RequestOK(req'[p]) /\ ~Carried(req'[p]) /\ req'[p].at # "lookup"
        /\ Same(p)
    BY <2>1, <2>2 DEF Changes, FlowInv, RequestOK, ToolOK, OnWay, Heading, Fields,
       Carried, Late, Checks, Same, Needed
  <2> QED
    BY <2>1, <2>2, <2>3, FlowKept DEF Turn, Serves, Quiet, Changes
<1>25. CASE FillLink(p)
  <2>1. /\ faults' \in {faults, faults + 1}
        /\ Changes(p, {"at", "saw", "tx"}) /\ keys' = keys /\ DOMAIN keys' = KeyFields
        /\ req'[p].at \in {"merge_link", "merge_fill"}
    BY <1>25 DEF FillLink, Changes, bounds, FlowInv, Fields, Others, At
  <2>2. req[p].op = "merge" /\ InHandler(p) /\ ~Carried(req[p])
        /\ req[p].deny = "leave"
    BY <1>25, Standing DEF FillLink, OnWay, Late, Checks
  <2>3. /\ RequestOK(req'[p]) /\ ~Carried(req'[p]) /\ req'[p].at # "lookup"
        /\ Same(p)
    BY <2>1, <2>2 DEF Changes, FlowInv, RequestOK, ToolOK, OnWay, Heading, Fields,
       Carried, Late, Checks, Same, Needed
  <2> QED
    BY <2>1, <2>2, <2>3, FlowKept DEF Turn, Serves, Quiet, Changes
<1>26. CASE LinksTaken(p)
  BY <1>26, Standing, GotoTurn DEF LinksTaken
<1>27. CASE MoveFrom(p)
  BY <1>27, Standing, BufferTurn, RefuseTurn DEF MoveFrom, Repoint
<1>28. CASE MoveTo(p)
  BY <1>28, Standing, BufferTurn, RefuseTurn DEF MoveTo, Repoint
<1>29. CASE DropDuplicates(p)
  BY <1>29, Standing, BufferTurn DEF DropDuplicates
<1>30. CASE UnlinkSource(p)
  BY <1>30, Standing, BufferTurn DEF UnlinkSource
<1>31. CASE MergeCommit(p)
  BY <1>31, Standing, CarryAndSucceedTurn DEF MergeCommit
<1>32. CASE MergeDeadlock(p)
  <2>1. req[p].at \in {"merge_link", "merge_fill", "merge_from", "merge_to",
                       "merge_drop", "merge_unlink"}
    BY <1>32 DEF MergeDeadlock, WaitsFor, Wanted, At
  <2>2. req[p].op = "merge" /\ InHandler(p)
    BY <2>1, Standing DEF At, OnWay, Late, Checks
  <2> QED
    BY <1>32, <2>1, <2>2, RefuseTurn
    DEF MergeDeadlock, Turn, Serves, Proceeds, InHandler
<1> QED
  BY <1>1, <1>2, <1>3, <1>4, <1>5, <1>6, <1>7, <1>8, <1>9, <1>10, <1>11, <1>12,
     <1>13, <1>14, <1>15, <1>16, <1>17, <1>18, <1>19, <1>20, <1>21, <1>22, <1>23,
     <1>24, <1>25, <1>26, <1>27, <1>28, <1>29, <1>30, <1>31, <1>32 DEF PersonStep

TimelineOps == {"create_node", "update_node", "move_node", "delete_node",
                "link_evidence", "unlink_evidence", "delete_file"}

\* The handlers of nodes and of their evidence go on as they should.
LEMMA TimelineTurn ==
    ASSUME FlowInv, NEW p \in Slots, TimelineStep(p)
    PROVE  Turn(p, TimelineOps)
<1> USE DEF TimelineOps, Turn, Serves, Proceeds, Onward, LeadsTo, OnWay, ToolOK,
   Late, Checks, Needed
<1>1. CASE SendCreateNode(p)
  BY <1>1, SendTurn DEF SendCreateNode
<1>2. CASE SendUpdateNode(p)
  BY <1>2, SendTurn DEF SendUpdateNode, SendToNode
<1>3. CASE SendMoveNode(p)
  BY <1>3, SendTurn DEF SendMoveNode, SendToNode
<1>4. CASE SendDeleteNode(p)
  BY <1>4, SendTurn DEF SendDeleteNode, SendToNode
<1>5. CASE SendLinkEvidence(p)
  BY <1>5, SendTurn DEF SendLinkEvidence, SendToNode
<1>6. CASE SendUnlinkEvidence(p)
  BY <1>6, SendTurn DEF SendUnlinkEvidence, SendToNode
<1>7. CASE SendDeleteFile(p)
  BY <1>7, SendTurn DEF SendDeleteFile
<1>8. CASE ReadNextSort(p)
  BY <1>8, Standing, LearnTurn DEF ReadNextSort
<1>9. CASE InsertNode(p)
  BY <1>9, Standing, CarryAndSucceedTurn DEF InsertNode
<1>10. CASE FetchNode(p)
  BY <1>10, Standing, LearnAndCheckTurn, RefuseTurn DEF FetchNode, AfterFetch
<1>11. CASE NextOrder(p)
  BY <1>11, Standing, LearnTurn DEF NextOrder
<1>12. CASE WriteNode(p)
  BY <1>12, Standing, BufferTurn DEF WriteNode
<1>13. CASE ReadDay(p)
  BY <1>13, Standing, LearnTurn DEF ReadDay, AfterDay, At
<1>14. CASE NumberRow(p)
  <2>1. /\ faults' \in {faults, faults + 1}
        /\ Changes(p, {"at", "saw", "tx"}) /\ keys' = keys /\ DOMAIN keys' = KeyFields
        /\ req'[p].at \in {"number_new", "number_old", "read_old", "commit_node"}
    BY <1>14 DEF NumberRow, AfterDay, Changes, bounds, FlowInv, Fields, Others
  <2>2. /\ req[p].op \in {"update_node", "move_node"} /\ InHandler(p)
        /\ ~Carried(req[p]) /\ req[p].deny = "leave"
    BY <1>14, Standing DEF NumberRow, At, OnWay, Late, Checks
  <2>3. /\ RequestOK(req'[p]) /\ ~Carried(req'[p]) /\ req'[p].at # "lookup"
        /\ Same(p)
    BY <2>1, <2>2 DEF Changes, FlowInv, RequestOK, ToolOK, OnWay, Heading, Fields,
       Carried, Late, Checks, Same, Needed
  <2> QED
    BY <2>1, <2>2, <2>3, FlowKept DEF Turn, Serves, Quiet, Changes
<1>15. CASE CommitNode(p)
  BY <1>15, Standing, CarryTurn DEF CommitNode
<1>16. CASE RefetchNode(p)
  BY <1>16, Standing, CheckTurn, RefuseTurn DEF RefetchNode
<1>17. CASE NodeDeadlock(p)
  <2>1. req[p].at \in {"write_node", "number_new", "number_old"}
    BY <1>17 DEF NodeDeadlock, NodeWaitsFor, NodeWanted, At
  <2>2. req[p].op \in {"update_node", "move_node"} /\ InHandler(p)
    BY <2>1, Standing DEF At, OnWay, Late, Checks
  <2> QED
    BY <1>17, <2>1, <2>2, RefuseTurn
    DEF NodeDeadlock, Turn, Serves, Proceeds, InHandler
<1>18. CASE DeleteNode(p)
  BY <1>18, Standing, CarryAndSucceedTurn DEF DeleteNode
<1>19. CASE FindEvidence(p)
  BY <1>19, Standing, GotoTurn, RefuseTurn DEF FindEvidence
<1>20. CASE LinkNode(p)
  BY <1>20, Standing, CarryAndSucceedTurn DEF LinkNode
<1>21. CASE UnlinkNode(p)
  BY <1>21, Standing, RefuseTurn, CarryAndSucceedTurn DEF UnlinkNode
<1>22. CASE FetchFile(p)
  BY <1>22, Standing, CheckTurn, RefuseTurn DEF FetchFile
<1>23. CASE DeleteEvidence(p)
  BY <1>23, Standing, CarryAndSucceedTurn DEF DeleteEvidence
<1> QED
  BY <1>1, <1>2, <1>3, <1>4, <1>5, <1>6, <1>7, <1>8, <1>9, <1>10, <1>11, <1>12,
     <1>13, <1>14, <1>15, <1>16, <1>17, <1>18, <1>19, <1>20, <1>21, <1>22, <1>23
     DEF TimelineStep

AgentOps == {"create_session", "delete_session", "post", "confirm", "reject"}

\* The handlers of sessions and approvals, and the tools, go on as they should.
LEMMA AgentTurn ==
    ASSUME FlowInv, NEW p \in Slots, AgentStep(p)
    PROVE  Turn(p, AgentOps)
<1> USE DEF AgentOps, Turn, Serves, Proceeds, Onward, LeadsTo, OnWay, ToolOK, Late,
   Checks, Needed
<1>1. CASE SendCreateSession(p)
  BY <1>1, SendTurn DEF SendCreateSession
<1>2. CASE SendDeleteSession(p)
  BY <1>2, SendTurn DEF SendDeleteSession
<1>3. CASE SendPost(p)
  BY <1>3, SendTurn DEF SendPost
<1>4. CASE SendDecision(p)
  BY <1>4, SendTurn DEF SendDecision
<1>5. CASE InsertSession(p)
  BY <1>5, Standing, CarryAndSucceedTurn DEF InsertSession
<1>6. CASE Archive(p)
  BY <1>6, Standing, CarryAndSucceedTurn, RefuseTurn DEF Archive
<1>7. CASE FetchSession(p)
  BY <1>7, Standing, RefuseTurn, GotoTurn, InToolTurn DEF FetchSession, StartTool
<1>8. CASE InsertPending(p)
  BY <1>8, Standing, CarryAndSucceedTurn DEF InsertPending
<1>9. CASE Decide(p)
  BY <1>9, Standing, RefuseTurn, GotoTurn DEF Decide
<1>10. CASE RejectRow(p)
  BY <1>10, Standing, CarryAndSucceedTurn DEF RejectRow
<1>11. CASE ApproveRow(p)
  BY <1>11, Standing, InToolTurn DEF ApproveRow, StartTool
<1>12. CASE CheckOperation(p)
  BY <1>12, Standing, InToolTurn DEF CheckOperation
<1>13. CASE ToolSort(p)
  BY <1>13, Standing, LearnTurn DEF ToolSort
<1>14. CASE ToolFails(p)
  <2>1. /\ faults' \in {faults, faults + 1}
        /\ Changes(p, {"at"}) /\ keys' = keys /\ DOMAIN keys' = KeyFields
        /\ req'[p].at = "tool_failed"
    BY <1>14 DEF ToolFails, Changes, FlowInv, Fields, Others
  <2>2. /\ RequestOK(req[p]) /\ req[p].deny = "tool_failed"
        /\ req[p].at \in {"case", "member", "tool_sort", "tool_insert"}
    BY <1>14 DEF ToolFails, FlowInv
  <2>3. req[p].op \in {"post", "confirm"} /\ InHandler(p) /\ ~Carried(req[p])
    BY <2>2 DEF RequestOK, Heading, OnWay, InHandler, Carried, Late, Checks
  <2>4. /\ RequestOK(req'[p]) /\ ~Carried(req'[p]) /\ req'[p].at # "lookup"
        /\ Same(p)
    BY <2>1, <2>2, <2>3 DEF Changes, RequestOK, ToolOK, OnWay, Heading, Fields,
       Carried, Late, Checks, Same, Needed
  <2> QED
    BY <2>1, <2>3, <2>4, FlowKept DEF Turn, Serves, Quiet, Changes
<1>15. CASE ConfirmedDone(p)
  BY <1>15, Standing, SucceedTurn, CarryAndSucceedTurn DEF ConfirmedDone, Finish, At
<1>16. CASE ConfirmedFailed(p)
  BY <1>16, Standing, RefuseTurn DEF ConfirmedFailed, At
<1>17. CASE RecordCall(p)
  BY <1>17, Standing, SucceedTurn, CarryAndSucceedTurn DEF RecordCall, Finish, At
<1>18. CASE ToolInsert(p)
  <2>1. /\ req[p].op \in {"post", "confirm"} /\ InHandler(p) /\ ~Carried(req[p])
        /\ req[p].deny = "tool_failed" /\ req[p].saw.tool = "create_node"
        /\ req[p].at = "tool_insert" /\ Heading(req[p]) = "tool_insert"
        /\ DOMAIN req[p].saw = {"tool", "day", "order"}
    BY <1>18, Standing DEF ToolInsert, OnWay, ToolOK, Late, Checks
  <2>2. /\ [req[p].saw EXCEPT !.order = 0].tool = "create_node"
        /\ DOMAIN [req[p].saw EXCEPT !.order = 0] = {"tool", "day", "order"}
    BY <2>1
  <2>3. Carry(p, "tool_done", [req[p].saw EXCEPT !.order = 0])
    BY <1>18 DEF ToolInsert
  <2>4. Onward(p, "tool_done")
    BY <2>1 DEF Onward, OnWay, Checks
  <2> QED
    BY <2>1, <2>2, <2>3, <2>4, CarryTurn DEF Turn, Serves, Proceeds
<1> QED
  BY <1>1, <1>2, <1>3, <1>4, <1>5, <1>6, <1>7, <1>8, <1>9, <1>10, <1>11, <1>12,
     <1>13, <1>14, <1>15, <1>16, <1>17, <1>18 DEF AgentStep

AccountOps == {"register", "login", "refresh", "logout", "change_password"}

\* The handlers of accounts go on as they should.
LEMMA AccountTurn ==
    ASSUME FlowInv, NEW p \in Slots, AccountStep(p)
    PROVE  Turn(p, AccountOps)
<1> USE DEF AccountOps, Turn, Serves, Proceeds, Onward, LeadsTo, OnWay, ToolOK,
   Late, Checks, Needed
<1>1. CASE SendRegister(p)
  BY <1>1, SendTurn DEF SendRegister, SendAccount
<1>2. CASE SendLogin(p)
  BY <1>2, SendTurn DEF SendLogin, SendAccount
<1>3. CASE SendRefresh(p)
  BY <1>3, SendTurn DEF SendRefresh, SendAccount
<1>4. CASE SendLogout(p)
  BY <1>4, SendTurn DEF SendLogout, SendAccount
<1>5. CASE SendChangePassword(p)
  BY <1>5, SendTurn DEF SendChangePassword, SendAccount
<1>6. CASE CountUsers(p)
  BY <1>6, Standing, GotoTurn, RefuseTurn DEF CountUsers
<1>7. CASE InsertUser(p)
  BY <1>7, Standing, CarryTurn, RefuseTurn DEF InsertUser
<1>8. CASE InsertRole(p)
  BY <1>8, Standing, SucceedTurn DEF InsertRole
<1>9. CASE CountAttempt(p)
  BY <1>9, Standing, GotoTurn, RefuseTurn DEF CountAttempt
<1>10. CASE CountFails(p)
  <2>1. /\ faults' \in {faults, faults + 1}
        /\ Changes(p, {"at"}) /\ keys' = keys /\ DOMAIN keys' = KeyFields
        /\ req'[p].at = "fetch_user"
    BY <1>10 DEF CountFails, Changes, FlowInv, Fields, Others
  <2>2. /\ req[p].op = "login" /\ InHandler(p) /\ ~Carried(req[p])
        /\ req[p].deny = "leave"
    BY <1>10, Standing DEF CountFails, OnWay, Late, Checks
  <2>3. /\ RequestOK(req'[p]) /\ ~Carried(req'[p]) /\ req'[p].at # "lookup"
        /\ Same(p)
    BY <2>1, <2>2 DEF Changes, FlowInv, RequestOK, ToolOK, OnWay, Heading, Fields,
       Carried, Late, Checks, Same, Needed
  <2> QED
    BY <2>1, <2>2, <2>3, FlowKept DEF Turn, Serves, Quiet, Changes
<1>11. CASE FetchUser(p)
  BY <1>11, Standing, GotoTurn, RefuseTurn DEF FetchUser
<1>12. CASE FetchVersion(p)
  BY <1>12, Standing, LearnTurn DEF FetchVersion
<1>13. CASE Reset(p)
  BY <1>13, Standing, CarryAndSucceedTurn DEF Reset
<1>14. CASE ResetFails(p)
  <2>1. /\ menu' = menu /\ faults' \in {faults, faults + 1}
        /\ crossed' = crossed /\ broken' = broken /\ keys' = Applied(req[p])
        /\ req' = Answered(p)
    BY <1>14 DEF ResetFails
  <2>2. /\ req[p].op = "login" /\ InHandler(p) /\ ~Carried(req[p]) /\ ~req[p].keyed
        /\ req[p].at \notin Checks
    BY <1>14, Standing DEF ResetFails, OnWay, Late, Checks, FlowInv, RequestOK,
       WithoutToken
  <2>3. keys' = keys
    BY <2>1, <2>2 DEF Applied
  <2> QED
    BY <2>1, <2>2, <2>3, AnsweredTurn, FlowKept, AppliedKeys
    DEF Turn, Serves, Ends, InHandler
<1>15. CASE Refresh(p)
  <2>1. InHandler(p) /\ req[p].op = "refresh" /\ ~req[p].keyed /\ req[p].at \notin Checks
    BY <1>15, Standing DEF Refresh, OnWay, Late, Checks, FlowInv, RequestOK,
       WithoutToken
  <2> QED
    BY <1>15, <2>1, SucceedTurn, RefuseTurn DEF Refresh, Turn, Serves, Proceeds
<1>16. CASE BumpVersion(p)
  BY <1>16, Standing, CarryAndSucceedTurn DEF BumpVersion
<1>17. CASE VerifyOld(p)
  BY <1>17, Standing, GotoTurn, RefuseTurn DEF VerifyOld
<1>18. CASE WritePassword(p)
  BY <1>18, Standing, CarryAndSucceedTurn DEF WritePassword
<1> QED
  BY <1>1, <1>2, <1>3, <1>4, <1>5, <1>6, <1>7, <1>8, <1>9, <1>10, <1>11, <1>12,
     <1>13, <1>14, <1>15, <1>16, <1>17, <1>18 DEF AccountStep

-----------------------------------------------------------------------------
(* The middleware and the checks.                                          *)
Entry(p) ==
    /\ LookupMiss(p) \/ LookupFails(p)
    /\ Same(p) /\ req'[p].at # "lookup" /\ ~Carried(req'[p])
Out(p) == (Replay(p) \/ Record(p) \/ RecordFails(p)) /\ req'[p] = Idle

RequestTurn(p) ==
    /\ FlowInv' /\ Others(p) /\ crossed \subseteq crossed'
    /\ req[p].op # "none" /\ (Same(p) \/ req'[p] = Idle)
    /\ Serves(p) \/ Entry(p) \/ Out(p)

\* A slot that is free.
LEMMA IdleOK == RequestOK(Idle)
  BY DEF RequestOK, OnWay, ToolOK, Heading, Idle, Checks, Late

\* A look-up that lets the request through sends it where it was bound.
LEMMA EntryTurn ==
    ASSUME FlowInv, NEW p \in Slots, LookupMiss(p) \/ LookupFails(p)
    PROVE  RequestTurn(p)
<1>1. /\ faults' \in {faults, faults + 1} /\ Changes(p, {"at"}) /\ DOMAIN keys' = KeyFields
      /\ req'[p].at = FirstStep(req[p]) /\ req[p].at = "lookup"
  BY DEF LookupMiss, LookupFails, bounds, Astray, Changes, FlowInv, Fields, Others,
     At
<1>2. RequestOK(req[p]) /\ req[p].op # "none"
  BY <1>1 DEF FlowInv, RequestOK
<1>3. /\ req'[p].at = req[p].then \/ req'[p].at = "case"
      /\ req'[p].then = req[p].then /\ req'[p].deny = req[p].deny
      /\ req'[p].saw = req[p].saw /\ req'[p].need = req[p].need
      /\ req'[p].case = req[p].case
      /\ \A f \in Fields \ {"at"} : req'[p][f] = req[p][f]
  BY <1>1 DEF FirstStep, Changes, Fields
<1>4. /\ req[p].then \notin Late \cup {"answer", "tool_done", "lookup", "member", "record"}
      /\ Heading(req'[p]) = req[p].then /\ Heading(req[p]) = req[p].then
  BY <1>1, <1>2, <1>3 DEF RequestOK, OnWay, Heading, Late, Checks
<1>5. Same(p)
  BY <1>3, <1>4 DEF Same, Needed, Fields
<1>6. req'[p].at # "lookup" /\ ~Carried(req'[p])
  BY <1>3, <1>4 DEF Carried, Late, Checks
<1>7. /\ OnWay(req'[p].op, Heading(req'[p]))
      /\ ToolOK(Heading(req'[p]), req'[p].deny, req'[p].saw)
  BY <1>1, <1>2, <1>3, <1>4, <1>5 DEF RequestOK, Heading, Same
<1>8. RequestOK(req'[p])
  BY <1>1, <1>2, <1>3, <1>4, <1>5, <1>6, <1>7 DEF RequestOK, Same, Late, Checks
<1> QED
  BY <1>1, <1>2, <1>3, <1>5, <1>6, <1>8, FlowKept DEF RequestTurn, Entry, Changes

\* A request that leaves by the middleware.
LEMMA OutTurn ==
    ASSUME FlowInv, NEW p \in Slots, Replay(p) \/ Record(p) \/ RecordFails(p)
    PROVE  RequestTurn(p)
<1>1. /\ faults' \in {faults, faults + 1} /\ Changes(p, Fields) /\ DOMAIN keys' = KeyFields
      /\ req'[p] = Idle /\ req[p].at \in {"lookup", "record"}
  BY DEF Replay, Record, RecordFails, bounds, Astray, Changes, FlowInv, Fields,
     Others, At, Idle
<1>2. req[p].op # "none"
  BY <1>1 DEF FlowInv, RequestOK, OnWay, Heading, Checks, Late
<1> QED
  BY <1>1, <1>2, IdleOK, FlowKept DEF RequestTurn, Out, Changes

\* A request that ends between two statements.
LEMMA CutShortTurn ==
    ASSUME FlowInv, NEW p \in Slots, CutShort(p)
    PROVE  RequestTurn(p)
<1>1. /\ faults' \in {faults, faults + 1} /\ Changes(p, Fields) /\ DOMAIN keys' = KeyFields
      /\ req'[p] = Idle /\ req[p].op # "none" /\ keys' = Unrecorded(req[p])
  BY AppliedKeys DEF CutShort, Active, Changes, FlowInv, Fields, Others, Idle
<1> QED
  BY <1>1, IdleOK, FlowKept DEF RequestTurn, Serves, Ends, Changes

\* What a check finds: the request is in its handler and bound for `then'.
LEMMA AtCheck ==
    ASSUME FlowInv, NEW p \in Slots, req[p].at \in Checks
    PROVE  /\ InHandler(p) /\ OnWay(req[p].op, req[p].then)
           /\ req[p].then \notin Late \cup {"record", "idle"}
           /\ Heading(req[p]) = req[p].then
           /\ Carried(req[p]) <=> req[p].then = "answer"
           /\ ToolOK(req[p].then, req[p].deny, req[p].saw)
           /\ req[p].then = "tool_done" => req[p].saw.tool = "list"
           /\ req[p].deny \in {"leave", "tool_failed"}
           /\ req[p].deny = "tool_failed" =>
                 req[p].op \in {"post", "confirm"} /\ req[p].then # "answer"
           /\ req[p].then \notin Checks \cup {"lookup"}
  BY DEF FlowInv, RequestOK, Heading, OnWay, InHandler, Carried, Late, Checks

\* A check that lets the request through,
LEMMA PassTurn ==
    ASSUME FlowInv, NEW p \in Slots, req[p].at \in Checks, Pass(p)
    PROVE  Proceeds(p)
<1>1. CASE req[p].then = "answer"
  BY <1>1, AtCheck, SucceedTurn DEF Pass
<1>2. CASE req[p].then # "answer"
  BY <1>2, AtCheck, GotoTurn DEF Pass, Onward, Needed
<1> QED
  BY <1>1, <1>2

\* one that does not,
LEMMA DenyTurn ==
    ASSUME FlowInv, NEW p \in Slots, req[p].at \in Checks, Deny(p)
    PROVE  Proceeds(p)
<1>1. CASE req[p].deny = "leave"
  BY <1>1, AtCheck, RefuseTurn DEF Deny
<1>2. CASE req[p].deny = "tool_failed"
  <2>1. Onward(p, "tool_failed") /\ ToolOK("tool_failed", req[p].deny, req[p].saw)
    BY <1>2, AtCheck DEF Onward, OnWay, ToolOK, Checks, Needed
  <2> QED
    BY <1>2, <2>1, AtCheck, GotoTurn DEF Deny, Late
<1> QED
  BY <1>1, <1>2, AtCheck

\* and one that has yet to read the membership.
LEMMA MemberTurn ==
    ASSUME FlowInv, NEW p \in Slots, At(p, "case"), Goto(p, "member"),
           req[p].need # "own", req[p].case \in Cases
    PROVE  Proceeds(p)
<1>1. /\ faults' \in {faults, faults + 1}
      /\ Changes(p, {"at"}) /\ req'[p].at = "member" /\ keys' = keys
      /\ DOMAIN keys' = KeyFields /\ req[p].at = "case"
  BY DEF Changes, Goto, bounds, FlowInv, Fields, Others, At
<1>2. /\ RequestOK(req'[p]) /\ (Carried(req'[p]) <=> Carried(req[p])) /\ Same(p)
      /\ req'[p].at # "lookup"
  BY <1>1 DEF Changes, FlowInv, RequestOK, ToolOK, Heading, Fields, Same, Carried,
     Checks, Late, Needed
<1> QED
  BY <1>1, <1>2, AtCheck, FlowKept DEF Changes, Proceeds, Quiet, Checks

\* The checks of access.rs.
LEMMA ChecksTurn ==
    ASSUME FlowInv, NEW p \in Slots, CheckCase(p) \/ CheckMember(p)
    PROVE  Proceeds(p)
<1>1. CASE CheckCase(p)
  BY <1>1, PassTurn, DenyTurn, MemberTurn DEF CheckCase, Live, At, Checks
<1>2. CASE CheckMember(p)
  BY <1>2, PassTurn, DenyTurn DEF CheckMember, At, Checks
<1> QED
  BY <1>1, <1>2

\* A request that goes on remains the same request.
LEMMA ProceedsSame ==
    ASSUME NEW p \in Slots, Proceeds(p)
    PROVE  req[p].op # "none" /\ (Same(p) \/ req'[p] = Idle)
  BY DEF Proceeds, Quiet, Applies, Ends, InHandler

\* The steps that all handlers share.
LEMMA RequestStepTurn ==
    ASSUME FlowInv, NEW p \in Slots, RequestStep(p)
    PROVE  RequestTurn(p)
<1>1. CASE Replay(p) \/ Record(p) \/ RecordFails(p)
  BY <1>1, OutTurn
<1>2. CASE LookupMiss(p) \/ LookupFails(p)
  BY <1>2, EntryTurn
<1>3. CASE CutShort(p)
  BY <1>3, CutShortTurn
<1>4. CASE CheckCase(p) \/ CheckMember(p)
  BY <1>4, ChecksTurn, ProceedsSame DEF Proceeds, RequestTurn, Serves
<1> QED
  BY <1>1, <1>2, <1>3, <1>4 DEF RequestStep

-----------------------------------------------------------------------------
\* Every step of the API serves one request, or touches none.
NextTurn ==
    \/ \E p \in Slots : RequestTurn(p)
    \/ \E p \in Slots : Others(p) /\ Sent(p) /\ crossed \subseteq crossed'
    \/ UNCHANGED <<req, keys, crossed>>

\* In the beginning every slot is free.
LEMMA FlowInit == WorkInit => FlowInv
<1> SUFFICES ASSUME WorkInit PROVE FlowInv
  OBVIOUS
<1>1. /\ req = [p \in Slots |-> Idle] /\ menu \in Menus /\ faults \in Nat
      /\ DOMAIN keys = KeyFields
  BY DEF WorkInit, RequestInit, KeyFields
<1>2. DOMAIN Idle = Fields
  BY DEF Idle, Fields
<1> QED
  BY <1>1, <1>2, IdleOK DEF FlowInv

\* A step of a component is a step of the API.
LEMMA TurnServes ==
    ASSUME NEW p \in Slots, NEW ops, Turn(p, ops)
    PROVE  /\ FlowInv'
           /\ \/ RequestTurn(p)
              \/ Others(p) /\ Sent(p) /\ crossed \subseteq crossed'
<1>1. Quiet(p) \/ Applies(p) \/ Ends(p)
         => req[p].op # "none" /\ (Same(p) \/ req'[p] = Idle)
  BY DEF Quiet, Applies, Ends, InHandler, CutShort, Active
<1> QED
  BY <1>1 DEF Turn, RequestTurn, Serves

\* Every step keeps the requests on their course.
LEMMA FlowStep ==
    ASSUME FlowInv, [Next]_vars
    PROVE  FlowInv' /\ NextTurn
<1>1. ASSUME NEW p \in Slots, RequestStep(p)
      PROVE  FlowInv' /\ NextTurn
  BY <1>1, RequestStepTurn DEF RequestTurn, NextTurn
<1>2. ASSUME NEW p \in Slots, CaseStep(p) \/ PersonStep(p) \/ TimelineStep(p)
                              \/ AgentStep(p) \/ AccountStep(p)
      PROVE  FlowInv' /\ NextTurn
  BY <1>2, CaseTurn, PersonTurn, TimelineTurn, AgentTurn, AccountTurn, TurnServes
  DEF NextTurn
<1>3. CASE WindowStep \/ AllServed \/ UNCHANGED vars
  <2>1. UNCHANGED <<req, keys, menu, crossed>> /\ faults' \in {faults, faults + 1}
    BY <1>3 DEF WindowStep, WindowEnds, AllServed, vars, requestVars
  <2> QED
    BY <2>1 DEF FlowInv, NextTurn
<1> QED
  BY <1>1, <1>2, <1>3 DEF Next

\* FlowInv holds throughout: every request is at a place of its own handler.
THEOREM HandlersStayOnCourse == Spec => []FlowInv
<1>1. FlowInv /\ [Next]_vars => FlowInv'
  BY FlowStep
<1> QED
  BY <1>1, FlowInit, PTL DEF Spec

-----------------------------------------------------------------------------
\* A keyed request that the middleware has let through.
Past(p) == req[p].keyed /\ ~At(p, "lookup")

KeyInv ==
    /\ \A p \in Slots :
          /\ Past(p) /\ Carried(req[p]) => Identity(req[p]) \in keys.applied
          /\ Past(p) /\ ~Carried(req[p]) /\ Identity(req[p]) \in keys.applied
                => Identity(req[p]) \in keys.astray
          /\ Past(p) => \/ <<Identity(req[p]), req[p].renewed>> \in keys.tokens
                        \/ Identity(req[p]) \in keys.astray
          /\ \A q \in Slots \ {p} :
                Past(p) /\ Past(q) /\ Identity(req[p]) = Identity(req[q])
                   => Identity(req[p]) \in keys.astray
    /\ \A i \in keys.applied :
          \/ i \in keys.astray
          \/ \E p \in Slots : Past(p) /\ Carried(req[p]) /\ Identity(req[p]) = i
          \/ \E b \in BOOLEAN : /\ <<i[1], i[2], i[3], b>> \in keys.recorded
                                /\ <<i, b>> \in keys.tokens
    /\ \A k \in keys.recorded : <<k[1], k[2], k[3]>> \in keys.applied
    /\ keys.twice \subseteq keys.astray

\* What a step of p leaves of the others, as far as the middleware cares.
LEMMA OthersKeep ==
    ASSUME NEW p \in Slots, Others(p), NEW q \in Slots \ {p}
    PROVE  /\ Past(q)' <=> Past(q)
           /\ Identity(req'[q]) = Identity(req[q])
           /\ req'[q].renewed = req[q].renewed
           /\ Carried(req'[q]) <=> Carried(req[q])
<1>1. /\ req'[q].op = req[q].op /\ req'[q].at = req[q].at
      /\ req'[q].then = req[q].then /\ req'[q].saw = req[q].saw
      /\ req'[q].user = req[q].user /\ req'[q].path = req[q].path
      /\ req'[q].keyed = req[q].keyed /\ req'[q].renewed = req[q].renewed
  BY DEF Others, Fields
<1> QED
  BY <1>1 DEF Past, At, Identity, Carried

\* What a step of p leaves of p, as far as the middleware cares.
LEMMA SameKeeps ==
    ASSUME NEW p \in Slots, Same(p)
    PROVE  /\ Identity(req'[p]) = Identity(req[p])
           /\ req'[p].renewed = req[p].renewed
           /\ req'[p].keyed = req[p].keyed
  BY DEF Same, Identity

\* A slot that is free is not past the look-up.
LEMMA IdlePast ==
    ASSUME NEW p \in Slots, req'[p] = Idle
    PROVE  ~Past(p)'
  BY DEF Past, Idle

\* A request that is not let through, or goes on without carrying anything out.
LEMMA KeyQuiet ==
    ASSUME KeyInv, NEW p \in Slots, Others(p), keys' = keys,
           \/ ~Past(p) /\ ~Past(p)'
           \/ /\ Past(p) /\ Past(p)' /\ Same(p)
              /\ Carried(req'[p]) <=> Carried(req[p])
    PROVE  KeyInv'
<1>1. \A q \in Slots :
         /\ Past(q)' <=> Past(q)
         /\ Past(q) => /\ Identity(req'[q]) = Identity(req[q])
                       /\ req'[q].renewed = req[q].renewed
                       /\ Carried(req'[q]) <=> Carried(req[q])
  BY OthersKeep, SameKeeps
<1>2. ASSUME NEW i \in keys'.applied
      PROVE  \/ i \in keys'.astray
             \/ \E q \in Slots : Past(q)' /\ Carried(req'[q]) /\ Identity(req'[q]) = i
             \/ \E b \in BOOLEAN : /\ <<i[1], i[2], i[3], b>> \in keys'.recorded
                                   /\ <<i, b>> \in keys'.tokens
  BY <1>1 DEF KeyInv
<1> QED
  BY <1>1, <1>2 DEF KeyInv

\* The statement that carries out a keyed operation.
LEMMA KeyApplies ==
    ASSUME KeyInv, FlowInv, NEW p \in Slots, Others(p), Past(p), Past(p)', Same(p),
           keys' = Applied(req[p]), ~Carried(req[p]), Carried(req'[p])
    PROVE  KeyInv'
<1>1. /\ keys'.applied = keys.applied \cup {Identity(req[p])}
      /\ keys'.twice \subseteq keys.twice \cup {Identity(req[p])}
      /\ Identity(req[p]) \notin keys.applied => keys'.twice = keys.twice
      /\ keys'.recorded = keys.recorded /\ keys'.astray = keys.astray
      /\ keys'.tokens = keys.tokens
  BY DEF Applied, Past, FlowInv, KeyFields
<1>2. keys'.twice \subseteq keys'.astray
  BY <1>1 DEF KeyInv
<1>3. \A q \in Slots :
         /\ Past(q)' <=> Past(q)
         /\ Identity(req'[q]) = Identity(req[q])
         /\ req'[q].renewed = req[q].renewed
         /\ Carried(req'[q]) <=> (q = p \/ Carried(req[q]))
  BY OthersKeep, SameKeeps
<1>4. \A i \in keys'.applied :
          \/ i \in keys'.astray
          \/ \E q \in Slots : Past(q)' /\ Carried(req'[q]) /\ Identity(req'[q]) = i
          \/ \E b \in BOOLEAN : /\ <<i[1], i[2], i[3], b>> \in keys'.recorded
                                /\ <<i, b>> \in keys'.tokens
  BY <1>1, <1>3 DEF KeyInv
<1> QED
  BY <1>1, <1>2, <1>3, <1>4 DEF KeyInv

\* A keyed request that leaves its handler without a record.
LEMMA KeyEnds ==
    ASSUME KeyInv, FlowInv, NEW p \in Slots, Others(p), Ends(p)
    PROVE  KeyInv'
<1>1. /\ keys'.applied = keys.applied /\ keys'.twice = keys.twice
      /\ keys'.recorded = keys.recorded /\ keys'.tokens = keys.tokens
      /\ keys.astray \subseteq keys'.astray
      /\ req[p].keyed /\ Identity(req[p]) \in keys.applied
            => Identity(req[p]) \in keys'.astray
  BY DEF Ends, Unrecorded, Astray, FlowInv, KeyFields
<1>2. ~Past(p)'
  BY IdlePast DEF Ends
<1>3. \A q \in Slots : Past(q)' =>
         /\ q # p /\ Past(q) /\ Identity(req'[q]) = Identity(req[q])
         /\ req'[q].renewed = req[q].renewed
         /\ Carried(req'[q]) <=> Carried(req[q])
  BY <1>2, OthersKeep
<1>4. ASSUME NEW i \in keys'.applied
      PROVE  \/ i \in keys'.astray
             \/ \E q \in Slots : Past(q)' /\ Carried(req'[q]) /\ Identity(req'[q]) = i
             \/ \E b \in BOOLEAN : /\ <<i[1], i[2], i[3], b>> \in keys'.recorded
                                   /\ <<i, b>> \in keys'.tokens
  <2>1. CASE \E q \in Slots : Past(q) /\ Carried(req[q]) /\ Identity(req[q]) = i
    BY <1>1, <2>1, OthersKeep DEF Past
  <2> QED
    BY <1>1, <2>1 DEF KeyInv
<1> QED
  BY <1>1, <1>3, <1>4 DEF KeyInv

\* A look-up that lets a request through.
LEMMA KeyEntry ==
    ASSUME KeyInv, FlowInv, NEW p \in Slots, Others(p), Entry(p)
    PROVE  KeyInv'
<1>1. /\ keys'.applied = keys.applied /\ keys'.twice = keys.twice
      /\ keys'.recorded = keys.recorded
      /\ keys.astray \subseteq keys'.astray /\ keys.tokens \subseteq keys'.tokens
  BY DEF Entry, LookupMiss, LookupFails, Astray, FlowInv, KeyFields
<1>2. \/ Identity(req[p]) \in keys'.astray
      \/ /\ RequestKey(req[p]) \notin keys.recorded /\ ~Unprotected(req[p])
         /\ <<Identity(req[p]), req[p].renewed>> \in keys'.tokens
  BY DEF Entry, LookupMiss, LookupFails, Astray, FlowInv, KeyFields
<1>3. /\ req[p].at = "lookup" /\ ~Past(p) /\ req[p].keyed /\ Past(p)'
      /\ ~Carried(req'[p]) /\ req[p].renewed \in BOOLEAN
      /\ Identity(req'[p]) = Identity(req[p]) /\ req'[p].renewed = req[p].renewed
  BY SameKeeps DEF Entry, LookupMiss, LookupFails, FlowInv, RequestOK, Past, At
<1>4. ASSUME Identity(req[p]) \notin keys'.astray
      PROVE  /\ \A q \in Slots : Past(q) => Identity(req[q]) # Identity(req[p])
             /\ Identity(req[p]) \notin keys.applied
  <2>1. ASSUME NEW q \in Slots, Past(q)
        PROVE  Identity(req[q]) # Identity(req[p])
    <3>1. Active(q)
      BY <2>1 DEF Active, Past, FlowInv, RequestOK
    <3> QED
      BY <1>2, <1>4, <2>1, <3>1 DEF Unprotected, Past, At
  <2>2. ASSUME NEW b \in BOOLEAN,
               <<req[p].op, req[p].path, req[p].user, b>> \in keys.recorded
        PROVE  <<Identity(req[p]), b>> \notin keys.tokens
    <3>1. b = ~req[p].renewed
      BY <1>2, <1>3, <1>4, <2>2 DEF RequestKey
    <3> QED
      BY <1>2, <1>4, <3>1 DEF Unprotected
  <2>3. /\ Identity(req[p])[1] = req[p].op /\ Identity(req[p])[2] = req[p].path
        /\ Identity(req[p])[3] = req[p].user
    BY DEF Identity
  <2>4. Identity(req[p]) \notin keys.astray
    BY <1>1, <1>4
  <2> QED
    BY <2>1, <2>2, <2>3, <2>4 DEF KeyInv
<1>5. \A q \in Slots \ {p} :
         /\ Past(q)' <=> Past(q)
         /\ Identity(req'[q]) = Identity(req[q])
         /\ req'[q].renewed = req[q].renewed
         /\ Carried(req'[q]) <=> Carried(req[q])
  BY OthersKeep
<1>6. ASSUME NEW i \in keys'.applied
      PROVE  \/ i \in keys'.astray
             \/ \E q \in Slots : Past(q)' /\ Carried(req'[q]) /\ Identity(req'[q]) = i
             \/ \E b \in BOOLEAN : /\ <<i[1], i[2], i[3], b>> \in keys'.recorded
                                   /\ <<i, b>> \in keys'.tokens
  BY <1>1, <1>3, <1>5 DEF KeyInv
<1> QED
  BY <1>1, <1>2, <1>3, <1>4, <1>5, <1>6 DEF KeyInv

\* A replayed answer, a record, and a record that fails.
LEMMA KeyOut ==
    ASSUME KeyInv, FlowInv, NEW p \in Slots, Others(p), Out(p)
    PROVE  KeyInv'
<1>1. ~Past(p)'
  BY IdlePast DEF Out
<1>2. \A q \in Slots \ {p} :
         /\ Past(q)' <=> Past(q)
         /\ Identity(req'[q]) = Identity(req[q])
         /\ req'[q].renewed = req[q].renewed
         /\ Carried(req'[q]) <=> Carried(req[q])
  BY OthersKeep
<1>3. CASE Replay(p)
  <2>1. keys' = keys /\ ~Past(p)
    BY <1>3 DEF Replay, bounds, Past, At
  <2> QED
    BY <1>1, <2>1, KeyQuiet
<1>4. CASE RecordFails(p)
  <2>1. /\ keys'.applied = keys.applied /\ keys'.twice = keys.twice
        /\ keys'.recorded = keys.recorded /\ keys'.tokens = keys.tokens
        /\ keys'.astray = keys.astray \cup {Identity(req[p])}
    BY <1>4 DEF RecordFails, Astray, FlowInv, KeyFields
  <2>2. ASSUME NEW i \in keys'.applied
        PROVE  \/ i \in keys'.astray
               \/ \E q \in Slots : Past(q)' /\ Carried(req'[q]) /\ Identity(req'[q]) = i
               \/ \E b \in BOOLEAN : /\ <<i[1], i[2], i[3], b>> \in keys'.recorded
                                     /\ <<i, b>> \in keys'.tokens
    BY <1>1, <1>2, <2>1 DEF KeyInv
  <2> QED
    BY <1>1, <1>2, <2>1, <2>2 DEF KeyInv
<1>5. CASE Record(p)
  <2>1. /\ keys'.applied = keys.applied /\ keys'.twice = keys.twice
        /\ keys'.recorded = keys.recorded \cup {RequestKey(req[p])}
        /\ keys'.tokens = keys.tokens /\ keys'.astray = keys.astray
    BY <1>5 DEF Record, FlowInv, KeyFields
  <2>2. req[p].at = "record" /\ Carried(req[p]) /\ req[p].renewed \in BOOLEAN
    BY <1>5 DEF Record, At, Carried, Late, FlowInv, RequestOK
  <2>3. Past(p)
    <3>1. req[p].keyed
      BY <2>2 DEF FlowInv, RequestOK
    <3> QED
      BY <2>2, <3>1 DEF Past, At
  <2>4. /\ Identity(req[p]) \in keys'.applied
        /\ \/ Identity(req[p]) \in keys'.astray
           \/ <<Identity(req[p]), req[p].renewed>> \in keys'.tokens
    BY <2>1, <2>2, <2>3 DEF KeyInv
  <2>5. ASSUME NEW i \in keys'.applied
        PROVE  \/ i \in keys'.astray
               \/ \E q \in Slots : Past(q)' /\ Carried(req'[q]) /\ Identity(req'[q]) = i
               \/ \E b \in BOOLEAN : /\ <<i[1], i[2], i[3], b>> \in keys'.recorded
                                     /\ <<i, b>> \in keys'.tokens
    <3>1. CASE i = Identity(req[p])
      <4>1. <<i[1], i[2], i[3], req[p].renewed>> \in keys'.recorded
        BY <2>1, <3>1 DEF RequestKey, Identity
      <4> QED
        BY <2>2, <2>4, <3>1, <4>1
    <3>2. CASE i # Identity(req[p])
      BY <1>1, <1>2, <2>1, <3>2 DEF KeyInv
    <3> QED
      BY <3>1, <3>2
  <2>6. \A k \in keys'.recorded : <<k[1], k[2], k[3]>> \in keys'.applied
    <3>1. LET k == RequestKey(req[p]) IN <<k[1], k[2], k[3]>> = Identity(req[p])
      BY DEF RequestKey, Identity
    <3> QED
      BY <2>1, <2>4, <3>1 DEF KeyInv
  <2>7. ASSUME NEW q \in Slots, Past(q)'
        PROVE  q # p /\ Past(q)
    BY <1>1, <1>2, <2>7
  <2> QED
    BY <1>2, <2>1, <2>5, <2>6, <2>7 DEF KeyInv
<1> QED
  BY <1>3, <1>4, <1>5 DEF Out

\* One step of the API and what the middleware knows.
LEMMA KeyStep ==
    ASSUME FlowInv, KeyInv, [Next]_vars
    PROVE  KeyInv'
<1>1. FlowInv' /\ NextTurn
  BY FlowStep
<1>2. ASSUME NEW p \in Slots, Others(p), Sent(p)
      PROVE  KeyInv'
  <2>1. ~Past(p) /\ ~Past(p)' /\ keys' = keys
    BY <1>2 DEF Sent, Past, At, FlowInv, RequestOK
  <2> QED
    BY <1>2, <2>1, KeyQuiet
<1>3. ASSUME NEW p \in Slots, Others(p), Quiet(p)
      PROVE  KeyInv'
  <2>1. Past(p)' <=> Past(p)
    BY <1>3, SameKeeps DEF Quiet, InHandler, Past, At
  <2> QED
    BY <1>3, <2>1, KeyQuiet DEF Quiet
<1>4. ASSUME NEW p \in Slots, Others(p), Applies(p)
      PROVE  KeyInv'
  <2>1. Past(p)' <=> Past(p)
    BY <1>4, SameKeeps DEF Applies, InHandler, Past, At
  <2>2. CASE req[p].keyed
    BY <1>4, <2>1, <2>2, KeyApplies DEF Applies, InHandler, Past, At
  <2>3. CASE ~req[p].keyed
    BY <1>4, <2>1, <2>3, KeyQuiet DEF Applies, Applied, Past
  <2> QED
    BY <2>2, <2>3
<1>5. ASSUME NEW p \in Slots, RequestTurn(p)
      PROVE  KeyInv'
  BY <1>2, <1>3, <1>4, <1>5, KeyEnds, KeyEntry, KeyOut DEF RequestTurn, Serves
<1>6. CASE UNCHANGED <<req, keys, crossed>>
  BY <1>6 DEF KeyInv, Past, At
<1> QED
  BY <1>1, <1>2, <1>5, <1>6 DEF NextTurn

\* In the beginning no key has been used.
LEMMA KeyInit == WorkInit => KeyInv
  BY DEF WorkInit, RequestInit, KeyInv, Past, Idle

\* A retry under the same key applies its operation once more only in the cases
\* that the middleware does not promise to catch.
THEOREM RetriesApplyOnce == Spec => []RetryAppliesOnce
<1>1. FlowInv /\ KeyInv /\ [Next]_vars => (FlowInv /\ KeyInv)'
  BY FlowStep, KeyStep
<1>2. KeyInv => RetryAppliesOnce
  BY DEF KeyInv, RetryAppliesOnce
<1> QED
  BY <1>1, <1>2, FlowInit, KeyInit, PTL DEF Spec

\* A recorded answer is given only to a user whose own request to the same path
\* has been carried out.
THEOREM ReplaysAreEarned == Spec => ReplayMeansDone
<1> DEFINE Step == \A p \in Slots :
               (At(p, "lookup") /\ req'[p] = Idle /\ faults' = faults)
                  => Identity(req[p]) \in keys.applied
<1>1. FlowInv /\ KeyInv /\ [Next]_vars => (FlowInv /\ KeyInv)'
  BY FlowStep, KeyStep
<1>2. ASSUME FlowInv, KeyInv, [Next]_vars PROVE Step
  <2> SUFFICES ASSUME NEW p \in Slots, At(p, "lookup"), req'[p] = Idle, faults' = faults
               PROVE  Identity(req[p]) \in keys.applied
    OBVIOUS
  <2>1. /\ req[p].at = "lookup" /\ req[p].op # "none"
        /\ req'[p].op = "none" /\ req'[p].at = "idle" /\ faults' # faults + 1
    <3>1. req[p].at = "lookup" /\ RequestOK(req[p]) /\ faults \in Nat
      BY <1>2 DEF At, FlowInv
    <3>2. req[p].op # "none"
      BY <3>1 DEF RequestOK
    <3> QED
      BY <3>1, <3>2 DEF Idle
  <2>2. Replay(p)
    <3>1. /\ ~Entry(p) /\ ~Sent(p) /\ ~Quiet(p) /\ ~Applies(p)
          /\ ~Record(p) /\ ~RecordFails(p)
      BY <2>1 DEF Entry, Same, Sent, Quiet, Applies, InHandler, Record, RecordFails,
         At
    <3>2. ~Ends(p)
      BY <2>1 DEF Ends, InHandler, CutShort
    <3>3. \A q \in Slots \ {p} : ~Others(q)
      BY <2>1 DEF Others, Fields
    <3>4. RequestTurn(p)
      BY <1>2, <2>1, <3>1, <3>3, FlowStep DEF NextTurn, RequestTurn
    <3> QED
      BY <3>1, <3>2, <3>4 DEF RequestTurn, Serves, Out
  <2>3. /\ RequestKey(req[p]) \in keys.recorded
        /\ \A k \in keys.recorded : <<k[1], k[2], k[3]>> \in keys.applied
    BY <1>2, <2>2 DEF Replay, KeyInv
  <2> QED
    BY <2>3 DEF RequestKey, Identity
<1>3. FlowInv /\ KeyInv /\ [Next]_vars => [Step]_<<req, faults, keys>>
  BY <1>2
<1> QED
  BY <1>1, <1>3, FlowInit, KeyInit, PTL DEF Spec, ReplayMeansDone
=============================================================================
