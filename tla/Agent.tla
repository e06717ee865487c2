-------------------------------- MODULE Agent ---------------------------------
(***************************************************************************)
(* The agent's sessions and the calls of its tools: agent/routes.rs,       *)
(* agent/engine.rs and agent/tools.rs.  A message names a tool; a tool     *)
(* that only reads runs at once, any other one waits in a row for its user *)
(* to confirm or to reject it, unless the server's policy is "auto".  None *)
(* of this is in a transaction: the decision is a read, an UPDATE by id,   *)
(* the statements of the tool and another UPDATE by id.                    *)
(***************************************************************************)
EXTENDS Timeline

CONSTANTS
    SessionIds,  \* bound: ids of sessions
    CallIds,     \* bound: ids of tool calls
    AgentSeeds   \* the policy and the tables a behaviour can start from

VARIABLES
    auto,        \* the policy is "auto"
    sessions,    \* the rows of agent_sessions
    calls,       \* the rows of agent_tool_calls
    ran          \* history: call -> how often its tool has written

agentVars == <<auto, sessions, calls, ran>>

Tools == {"list", "create_node", "timeline_report"}
CallStatus == {"none", "pending", "approved", "rejected", "executed", "failed"}
SessionRow == [status : {"none", "active", "archived"},
               user : Users \cup {NoUser}, case : Cases \cup {NoCase}]
CallRow == [status : CallStatus, session : SessionIds, tool : Tools,
            day : Days, approval : BOOLEAN]

AgentInit == \E seed \in AgentSeeds[menu.about] :
    /\ auto = seed.auto
    /\ sessions = seed.sessions
    /\ calls = seed.calls
    /\ ran = [k \in CallIds |-> 0]

(* A call belongs to a session that is there, and history begins before    *)
(* any call was approved.                                                  *)
ASSUME AgentAssumption == \A m \in Menus : \A seed \in AgentSeeds[m.about] :
    /\ seed.auto \in BOOLEAN
    /\ seed.sessions \in [SessionIds -> SessionRow]
    /\ seed.calls \in [CallIds -> CallRow]
    /\ \A k \in CallIds : seed.calls[k].status # "none" =>
          /\ seed.sessions[seed.calls[k].session].status # "none"
          /\ seed.calls[k].status \notin {"approved", "executed"}

Mine(s, u) == sessions[s].status = "active" /\ sessions[s].user = u

-----------------------------------------------------------------------------
(* POST /agent/sessions, for a case or for none.                           *)
FreshSession == {s \in SessionIds : sessions[s].status = "none"}

SendCreateSession(p) ==
    /\ Cardinality(FreshSession)
         > Cardinality({q \in Slots : req[q].op = "create_session"})
    /\ \E u \in Senders(p, "create_session"), c \in Cases \cup {NoCase} :
         Send(p, "create_session", u, c, NoCase, Nothing,
              IF c = NoCase THEN "none" ELSE "read", "session_row")
    /\ UNCHANGED agentVars

InsertSession(p) ==
    /\ At(p, "session_row")
    /\ \E s \in FreshSession :
         sessions' = [sessions EXCEPT ![s] = [status |-> "active",
                                              user |-> req[p].user,
                                              case |-> req[p].case]]
    /\ CarryAndSucceed(p)
    /\ UNCHANGED <<auto, calls, ran>>

(* DELETE /agent/sessions/:id leaves its pending calls as they are.        *)
SendDeleteSession(p) ==
    /\ \E u \in Senders(p, "delete_session"), s \in SessionIds :
         Send(p, "delete_session", u, NoCase, s, [session |-> s], "none", "archive")
    /\ UNCHANGED agentVars

Archive(p) ==
    /\ At(p, "archive")
    /\ LET s == req[p].arg.session IN
         IF sessions[s].user # req[p].user
         THEN UNCHANGED sessions /\ Refuse(p)
         ELSE /\ sessions' = [sessions EXCEPT ![s].status = "archived"]
              /\ CarryAndSucceed(p)
    /\ UNCHANGED <<auto, calls, ran>>

-----------------------------------------------------------------------------
(* POST /agent/sessions/:id/messages, with a message that names a tool; to *)
(* any other the agent only answers.                                       *)
FreshCall == {k \in CallIds : calls[k].status = "none"}
NewCall   == CHOOSE k \in FreshCall : TRUE   \* one id is as good as another

RequiresApproval(tool) == tool # "list"

SendPost(p) ==
    /\ Cardinality(FreshCall) > Cardinality({q \in Slots : req[q].op = "post"})
    /\ NodesLeft
    /\ \E u \in Senders(p, "post"), s \in SessionIds, tool \in Tools, d \in Days :
         /\ sessions[s].status # "none"
         /\ Send(p, "post", u, sessions[s].case, s,
                 [session |-> s, tool |-> tool, day |-> d], "none", "session")
    /\ UNCHANGED agentVars

Waits(tool) == RequiresApproval(tool) /\ ~auto

(* Tool::execute begins: a check of the access.  The errors of a tool are  *)
(* its results: they go to "tool_failed".                                  *)
InTool(p, input, level, place) ==
    /\ req' = [req EXCEPT ![p].at = IF req[p].case = NoCase
                                   THEN "tool_failed" ELSE "case",
                          ![p].need = level, ![p].then = place,
                          ![p].deny = "tool_failed", ![p].saw = input]
    /\ UNCHANGED <<keys, bounds>>

StartTool(p, tool, day) ==
    InTool(p, [tool |-> tool, day |-> day, order |-> 0], "read",
           IF tool = "list" THEN "tool_done" ELSE "tool_operation")

FetchSession(p) ==
    /\ At(p, "session")
    /\ LET r == req[p] IN
         IF ~Mine(r.arg.session, r.user) THEN Refuse(p)
         ELSE IF Waits(r.arg.tool) THEN Goto(p, "pending_row")
         ELSE StartTool(p, r.arg.tool, r.arg.day)
    /\ UNCHANGED agentVars

WithCall(p, status) ==
    LET a == req[p].arg IN
      [calls EXCEPT ![NewCall] =
         [status |-> status, session |-> a.session, tool |-> a.tool,
          day |-> a.day, approval |-> status = "pending"]]

InsertPending(p) ==
    /\ At(p, "pending_row")
    /\ calls' = WithCall(p, "pending")
    /\ CarryAndSucceed(p)
    /\ UNCHANGED <<auto, sessions, ran>>

-----------------------------------------------------------------------------
(* POST /agent/approvals/:id/confirm and .../reject: execute_approval.     *)
SendDecision(p) ==
    /\ NodesLeft
    /\ \E op \in {"confirm", "reject"}, k \in CallIds : \E u \in Senders(p, op) :
         /\ calls[k].status # "none"
         /\ Send(p, op, u, sessions[calls[k].session].case, k, [call |-> k],
                 "none", "decide")
    /\ UNCHANGED agentVars

(* The row is found for the user who asked for the call, whatever became   *)
(* of the session; a session without a case makes the row unreadable.      *)
Decidable(u, k) ==
    LET s == sessions[calls[k].session] IN
      /\ calls[k].status # "none" /\ calls[k].approval
      /\ s.user = u /\ s.case # NoCase

FaultyDecide(p) ==
    /\ At(p, "decide")
    /\ LET r == req[p] IN
         IF ~Decidable(r.user, r.arg.call) THEN Refuse(p)
         ELSE Goto(p, IF r.op = "reject" THEN "reject_row" ELSE "approve_row")
    /\ UNCHANGED agentVars

Decide(p) ==
    /\ At(p, "decide")
    /\ LET r == req[p] IN
         IF ~Decidable(r.user, r.arg.call) \/ calls[r.arg.call].status # "pending"
         THEN Refuse(p)
         ELSE Goto(p, IF r.op = "reject" THEN "reject_row" ELSE "approve_row")
    /\ UNCHANGED agentVars

SetCall(p, status) == calls' = [calls EXCEPT ![req[p].arg.call].status = status]

RejectRow(p) ==
    /\ At(p, "reject_row")
    /\ SetCall(p, "rejected")
    /\ CarryAndSucceed(p)
    /\ UNCHANGED <<auto, sessions, ran>>

ApproveRow(p) ==
    /\ At(p, "approve_row")
    /\ SetCall(p, "approved")
    /\ LET k == req[p].arg.call IN StartTool(p, calls[k].tool, calls[k].day)
    /\ UNCHANGED <<auto, sessions, ran>>

-----------------------------------------------------------------------------
(* The rest of the tools.  After ensure_operation the report says that it  *)
(* cannot be made here; create_node works like POST /cases/:id/nodes.      *)
CheckOperation(p) ==
    /\ At(p, "tool_operation")
    /\ InTool(p, req[p].saw, "operate",
              IF req[p].saw.tool = "create_node" THEN "tool_sort" ELSE "tool_failed")
    /\ UNCHANGED agentVars

ToolSort(p) ==
    /\ At(p, "tool_sort")
    /\ Learn(p, "tool_insert",
             [req[p].saw EXCEPT !.order = NextSort(nodes, req[p].case, req[p].saw.day)])
    /\ UNCHANGED agentVars

ToolInsert(p) ==
    /\ At(p, "tool_insert")
    /\ nodes' = NodesWith(req[p].case, req[p].saw.day, req[p].saw.order)
    /\ Carry(p, "tool_done", [req[p].saw EXCEPT !.order = 0])
    /\ ran' = IF req[p].op = "confirm" THEN [ran EXCEPT ![req[p].arg.call] = @ + 1]
              ELSE ran
    /\ UNCHANGED <<evidence, evlinks, auto, sessions, calls>>

ToolFails(p) ==
    /\ req[p].deny = "tool_failed"
    /\ req[p].at \in {"case", "member", "tool_sort", "tool_insert"}
    /\ faults < menu.faults
    /\ req' = [req EXCEPT ![p].at = "tool_failed"]
    /\ faults' = faults + 1
    /\ UNCHANGED <<keys, menu, left, crossed, broken, agentVars>>

(* A tool that only read has carried nothing out before the answer.        *)
Finish(p) ==
    IF req[p].saw.tool = "create_node" THEN Succeed(p) ELSE CarryAndSucceed(p)

(* A call that was confirmed is marked, any other gets its row only now.   *)
ConfirmedDone(p) ==
    /\ At(p, "tool_done") /\ req[p].op = "confirm"
    /\ SetCall(p, "executed")
    /\ Finish(p)
    /\ UNCHANGED <<auto, sessions, ran>>

FaultyConfirmedFailed(p) ==
    /\ At(p, "tool_failed") /\ req[p].op = "confirm"
    /\ SetCall(p, "executed")
    /\ Refuse(p)
    /\ UNCHANGED <<auto, sessions, ran>>

ConfirmedFailed(p) ==
    /\ At(p, "tool_failed") /\ req[p].op = "confirm"
    /\ SetCall(p, "failed")
    /\ Refuse(p)
    /\ UNCHANGED <<auto, sessions, ran>>

RecordCall(p) ==
    /\ req[p].at \in {"tool_done", "tool_failed"} /\ req[p].op = "post"
    /\ calls' = WithCall(p, IF At(p, "tool_done") THEN "executed" ELSE "failed")
    /\ ran' = IF At(p, "tool_done") /\ req[p].saw.tool = "create_node"
              THEN [ran EXCEPT ![NewCall] = 1] ELSE ran
    /\ IF At(p, "tool_done") THEN Finish(p) ELSE CarryAndSucceed(p)
    /\ UNCHANGED <<auto, sessions>>

-----------------------------------------------------------------------------
AgentStep(p) ==
    /\ \/ /\ \/ SendCreateSession(p) \/ InsertSession(p)
             \/ SendDeleteSession(p) \/ Archive(p)
             \/ SendPost(p) \/ FetchSession(p) \/ InsertPending(p)
             \/ SendDecision(p) \/ Decide(p) \/ RejectRow(p) \/ ApproveRow(p)
             \/ CheckOperation(p) \/ ToolSort(p) \/ ToolFails(p)
             \/ ConfirmedDone(p) \/ ConfirmedFailed(p) \/ RecordCall(p)
          /\ UNCHANGED timelineVars
       \/ ToolInsert(p)
    /\ UNCHANGED <<caseVars, personVars>>

AgentWrites == [tool_insert |-> "operate"]

-----------------------------------------------------------------------------
AgentTypeOK ==
    /\ auto \in BOOLEAN
    /\ sessions \in [SessionIds -> SessionRow]
    /\ calls \in [CallIds -> CallRow]
    /\ ran \in [CallIds -> Nat]

(* A tool that waits for its user writes at most once for each call,       *)
(* however often it is confirmed: unless two confirmations overlapped.     *)
(* Each reads the status in one statement and sets it in another.          *)
ExecutedOnce ==
    \A k \in CallIds : ran[k] > 1 => {"confirm"} \in crossed

(* The status of a call tells the truth about its tool: it has written     *)
(* neither while the call waits nor after its rejection or its failure,    *)
(* and has written once the call is executed; an approved call is being    *)
(* executed, unless its request was cut short: nothing takes it up again.  *)
(* Decisions that overlapped may have overwritten each other.              *)
DecisionHolds ==
    \/ {"confirm", "reject"} \in crossed \/ {"confirm"} \in crossed
    \/ \A k \in CallIds :
         /\ calls[k].status \in {"pending", "rejected", "failed"} => ran[k] = 0
         /\ (calls[k].status = "executed" /\ calls[k].tool = "create_node")
               => ran[k] = 1
         /\ calls[k].status = "approved" =>
               \/ \E p \in Slots : req[p].op = "confirm" /\ req[p].arg.call = k
               \/ \E b \in broken : b[1] = "confirm"
=============================================================================
