------------------------------- MODULE Timeline -------------------------------
(***************************************************************************)
(* The handlers of routes/timeline.rs and routes/case_timeline.rs: the     *)
(* nodes of a case's timeline, their order within a day, and their links   *)
(* to evidence.  A node that changes its day or its place is written, and  *)
(* the days it leaves and enters are numbered again, in one transaction    *)
(* that works with the row read before it began.                           *)
(***************************************************************************)
EXTENDS Persons, Sequences, FiniteSetsExt

CONSTANTS
    NodeIds,       \* 1 .. N, in the order of created_at
    Days,          \* values of event_time
    Orders,        \* values of new_sort_order a client sends
    Evidence,      \* ids of evidence files
    EvLinkIds,     \* bound: ids of links to evidence
    TimelineSeeds  \* the nodes a behaviour can start from

VARIABLES
    nodes,         \* the rows of event_nodes
    evidence,      \* the rows of evidence_files, as far as the links go
    evlinks        \* the rows of node_evidence_links

timelineVars == <<nodes, evidence, evlinks>>

NodeStatus == {"none", "active", "deleted"}
NodeRow == [status : NodeStatus, case : Cases, day : Days, order : Nat]
EvidenceRow == [status : NodeStatus, case : Cases]
EvLink == [id : EvLinkIds, node : NodeIds, evidence : Evidence]

Keep == 0   \* an optional field of a request that is left out

(* A behaviour begins with an order for every day.                         *)
ASSUME TimelineAssumption ==
    /\ NodeIds \subseteq Nat \ {0} /\ IsFiniteSet(NodeIds)
    /\ Days \subseteq Nat \ {0} /\ Orders \subseteq Nat \ {0}
    /\ \A m \in Menus : \A seed \in TimelineSeeds[m.about] :
          /\ seed.nodes \in [NodeIds -> NodeRow]
          /\ seed.evidence \in [Evidence -> EvidenceRow]
          /\ \A a, b \in NodeIds :
                (/\ a # b /\ seed.nodes[a].status = "active"
                 /\ seed.nodes[b].status = "active"
                 /\ seed.nodes[a].case = seed.nodes[b].case
                 /\ seed.nodes[a].day = seed.nodes[b].day)
                   => seed.nodes[a].order # seed.nodes[b].order

TimelineInit == \E seed \in TimelineSeeds[menu.about] :
    /\ nodes = seed.nodes
    /\ evidence = seed.evidence
    /\ evlinks = {}

-----------------------------------------------------------------------------
OnDay(table, c, d) ==
    {n \in NodeIds : /\ table[n].status = "active"
                     /\ table[n].case = c /\ table[n].day = d}

(* COALESCE(MAX(sort_order), 0) + 1                                        *)
FaultyNextSort(table, c, d) ==
    Max({0} \cup {table[n].order : n \in OnDay(table, c, d)})

NextSort(table, c, d) ==
    1 + Max({0} \cup {table[n].order : n \in OnDay(table, c, d)})

(* ORDER BY sort_order, the node that moved first, created_at, id          *)
FaultyBefore(table, first, a, b) ==
    \/ table[a].order < table[b].order
    \/ table[a].order = table[b].order /\ a < b

Before(table, first, a, b) ==
    \/ table[a].order < table[b].order
    \/ /\ table[a].order = table[b].order
       /\ a = first \/ (b # first /\ a < b)

DaySequence(table, c, d, first) ==
    LET day  == OnDay(table, c, d)
        rows == 1 .. Cardinality(day)
    IN  CHOOSE list \in [rows -> day] :
          \A i, j \in rows : i < j => /\ list[i] # list[j]
                                     /\ Before(table, first, list[i], list[j])

-----------------------------------------------------------------------------
(* POST /cases/:id/nodes: the place on the day is read in one statement    *)
(* and used in the next.                                                   *)
FreshNode == {n \in NodeIds : nodes[n].status = "none"}

NodesLeft ==
    Cardinality(FreshNode)
      > Cardinality({q \in Slots : req[q].op \in {"create_node", "post", "confirm"}})

SendCreateNode(p) ==
    /\ NodesLeft
    /\ \E u \in Senders(p, "create_node"), c \in Cases, d \in Days :
         Send(p, "create_node", u, c, c, [day |-> d], "write", "next_sort")
    /\ UNCHANGED timelineVars

ReadNextSort(p) ==
    /\ At(p, "next_sort")
    /\ Learn(p, "node_insert", NextSort(nodes, req[p].case, req[p].arg.day))
    /\ UNCHANGED timelineVars

NodesWith(c, d, order) ==
    [nodes EXCEPT ![Min(FreshNode)] = [status |-> "active", case |-> c,
                                       day |-> d, order |-> order]]

InsertNode(p) ==
    /\ At(p, "node_insert")
    /\ nodes' = NodesWith(req[p].case, req[p].arg.day, req[p].saw)
    /\ CarryAndSucceed(p)
    /\ UNCHANGED <<evidence, evlinks>>

-----------------------------------------------------------------------------
(* The handlers of one node begin with fetch_node: the row, then the       *)
(* access to its case.                                                     *)
SendToNode(p, op, arg) ==
    /\ nodes[arg.node].status # "none"
    /\ \E u \in Senders(p, op) :
         Send(p, op, u, nodes[arg.node].case, arg.node, arg, "none", "fetch_node")
    /\ UNCHANGED timelineVars

SendUpdateNode(p) == \E n \in NodeIds, d \in Days \cup {Keep} :
    SendToNode(p, "update_node", [node |-> n, day |-> d])
SendMoveNode(p) == \E n \in NodeIds, d \in Days, o \in Orders \cup {Keep} :
    SendToNode(p, "move_node", [node |-> n, day |-> d, order |-> o])
SendDeleteNode(p) == \E n \in NodeIds :
    SendToNode(p, "delete_node", [node |-> n])
SendLinkEvidence(p) == \E n \in NodeIds, e \in Evidence :
    SendToNode(p, "link_evidence", [node |-> n, evidence |-> e])
SendUnlinkEvidence(p) == \E n \in NodeIds, l \in EvLinkIds :
    SendToNode(p, "unlink_evidence", [node |-> n, link |-> l])

NewDay(r, row) == IF r.arg.day = Keep THEN row.day ELSE r.arg.day

AfterFetch(r, row) ==
    CASE r.op = "update_node" ->
           IF NewDay(r, row) # row.day THEN "next_order" ELSE "write_node"
      [] r.op = "move_node" ->
           IF r.arg.order = Keep THEN "next_order" ELSE "write_node"
      [] r.op = "delete_node"   -> "delete_node"
      [] r.op = "link_evidence" -> "find_evidence"
      [] OTHER                  -> "unlink"

FirstOrder(r, row) ==
    IF r.op = "move_node" /\ r.arg.order # Keep THEN r.arg.order ELSE row.order

FetchNode(p) ==
    /\ At(p, "fetch_node")
    /\ LET r   == req[p]
           row == nodes[r.arg.node]
       IN  IF row.status # "active" THEN Refuse(p)
           ELSE LearnAndCheck(p, [row |-> row, order |-> FirstOrder(r, row),
                                  list |-> <<>>, done |-> 0],
                              "write", AfterFetch(r, row))
    /\ UNCHANGED timelineVars

(* PUT /nodes/:id, POST /nodes/:id/move: the transaction.                  *)
Day(p)    == NewDay(req[p], req[p].saw.row)
OldDay(p) == req[p].saw.row.day

NextOrder(p) ==
    /\ At(p, "next_order")
    /\ Learn(p, "write_node",
             [req[p].saw EXCEPT !.order = NextSort(Seen(p, nodes), req[p].case, Day(p))])
    /\ UNCHANGED timelineVars

Resequences(p) == req[p].op = "move_node" \/ Day(p) # OldDay(p)

WriteNode(p) ==
    /\ At(p, "write_node")
    /\ LET n   == req[p].arg.node
           row == Seen(p, nodes)[n]
       IN  /\ ~Locked(p, {n})
           /\ Buffer(p, IF Resequences(p) THEN "read_new" ELSE "commit_node",
                     IF row.status # "active" THEN <<>>
                     ELSE Row(n, [row EXCEPT !.day = Day(p), !.order = req[p].saw.order]))
    /\ UNCHANGED timelineVars

(* resequence_day_orders, of the new day and then of the old one: the ids  *)
(* in their order, then one UPDATE by id for each.                         *)
AfterDay(p) ==
    IF req[p].at \in {"read_new", "number_new"} /\ Day(p) # OldDay(p)
    THEN "read_old" ELSE "commit_node"

ReadDay(p) ==
    /\ req[p].at \in {"read_new", "read_old"}
    /\ LET list == IF At(p, "read_new")
                   THEN DaySequence(Seen(p, nodes), req[p].case, Day(p),
                                    req[p].arg.node)
                   ELSE DaySequence(Seen(p, nodes), req[p].case, OldDay(p), Keep)
       IN  Learn(p, IF list = <<>> THEN AfterDay(p)
                    ELSE IF At(p, "read_new") THEN "number_new" ELSE "number_old",
                 [req[p].saw EXCEPT !.list = list, !.done = 0])
    /\ UNCHANGED timelineVars

NextRow(p) == req[p].saw.list[req[p].saw.done + 1]

NumberRow(p) ==
    /\ req[p].at \in {"number_new", "number_old"}
    /\ ~Locked(p, {NextRow(p)})
    /\ LET saw  == req[p].saw
           last == saw.done + 1 = Len(saw.list)
       IN  req' = [req EXCEPT
                     ![p].at = IF last THEN AfterDay(p) ELSE @,
                     ![p].saw = [saw EXCEPT !.done = @ + 1],
                     ![p].tx = Writes(p, Row(NextRow(p),
                                 [Seen(p, nodes)[NextRow(p)] EXCEPT
                                    !.order = 100 * (saw.done + 1)]))]
    /\ UNCHANGED <<keys, bounds, timelineVars>>

CommitNode(p) ==
    /\ At(p, "commit_node")
    /\ nodes' = Seen(p, nodes)
    /\ Carry(p, "refetch", Nothing)
    /\ UNCHANGED <<evidence, evlinks>>

(* fetch_node_with_links: the row once more, and the access.               *)
RefetchNode(p) ==
    /\ At(p, "refetch")
    /\ IF nodes[req[p].arg.node].status = "active"
       THEN Check(p, "write", "answer") ELSE Refuse(p)
    /\ UNCHANGED timelineVars

NodeWanted(p) ==
    CASE At(p, "write_node") -> {req[p].arg.node}
      [] req[p].at \in {"number_new", "number_old"} -> {NextRow(p)}
      [] OTHER -> {}

NodeWaitsFor(p, q) == q # p /\ NodeWanted(p) \cap DOMAIN req[q].tx # {}

NodeDeadlock(p) ==
    /\ \E q \in Slots : NodeWaitsFor(p, q) /\ NodeWaitsFor(q, p)
    /\ Refuse(p)
    /\ UNCHANGED timelineVars

(* DELETE /nodes/:id.  The answer does not depend on whether a row was hit.*)
DeleteNode(p) ==
    /\ At(p, "delete_node")
    /\ ~Locked(p, {req[p].arg.node})
    /\ nodes' = [nodes EXCEPT ![req[p].arg.node].status = "deleted"]
    /\ CarryAndSucceed(p)
    /\ UNCHANGED <<evidence, evlinks>>

-----------------------------------------------------------------------------
(* POST /nodes/:id/evidence.  Nothing makes a pair unique.                 *)
FaultyFindEvidence(p) ==
    /\ At(p, "find_evidence")
    /\ IF evidence[req[p].arg.evidence].status = "active"
       THEN Goto(p, "link_node") ELSE Refuse(p)
    /\ UNCHANGED timelineVars

FindEvidence(p) ==
    /\ At(p, "find_evidence")
    /\ LET e == evidence[req[p].arg.evidence] IN
         IF e.status = "active" /\ e.case = req[p].case
         THEN Goto(p, "link_node") ELSE Refuse(p)
    /\ UNCHANGED timelineVars

LinkNode(p) ==
    /\ At(p, "link_node")
    /\ \E id \in EvLinkIds \ {l.id : l \in evlinks} :
         evlinks' = evlinks \cup {[id |-> id, node |-> req[p].arg.node,
                                   evidence |-> req[p].arg.evidence]}
    /\ CarryAndSucceed(p)
    /\ UNCHANGED <<nodes, evidence>>

(* DELETE /nodes/:id/evidence/:link_id                                     *)
UnlinkNode(p) ==
    /\ At(p, "unlink")
    /\ LET found == {l \in evlinks : /\ l.id = req[p].arg.link
                                     /\ l.node = req[p].arg.node}
       IN  /\ evlinks' = evlinks \ found
           /\ IF found = {} THEN Refuse(p) ELSE CarryAndSucceed(p)
    /\ UNCHANGED <<nodes, evidence>>

(* DELETE /files/:id, as far as the links go.                              *)
SendDeleteFile(p) ==
    /\ \E u \in Senders(p, "delete_file"), e \in Evidence :
         Send(p, "delete_file", u, evidence[e].case, e, [evidence |-> e],
              "none", "fetch_file")
    /\ UNCHANGED timelineVars

FetchFile(p) ==
    /\ At(p, "fetch_file")
    /\ IF evidence[req[p].arg.evidence].status = "active"
       THEN Check(p, "write", "delete_file") ELSE Refuse(p)
    /\ UNCHANGED timelineVars

DeleteEvidence(p) ==
    /\ At(p, "delete_file")
    /\ evidence' = [evidence EXCEPT ![req[p].arg.evidence].status = "deleted"]
    /\ CarryAndSucceed(p)
    /\ UNCHANGED <<nodes, evlinks>>

(* list_nodes: the nodes of a case, and which it puts before which.        *)
ListNodes(c) == {n \in NodeIds : nodes[n].status = "active" /\ nodes[n].case = c}

ListedBefore(a, b) ==
    \/ nodes[a].day < nodes[b].day
    \/ nodes[a].day = nodes[b].day /\ nodes[a].order < nodes[b].order

TimelineStep(p) ==
    /\ \/ SendCreateNode(p) \/ ReadNextSort(p) \/ InsertNode(p)
       \/ SendUpdateNode(p) \/ SendMoveNode(p) \/ SendDeleteNode(p)
       \/ SendLinkEvidence(p) \/ SendUnlinkEvidence(p) \/ FetchNode(p)
       \/ NextOrder(p) \/ WriteNode(p) \/ ReadDay(p) \/ NumberRow(p)
       \/ CommitNode(p) \/ RefetchNode(p) \/ NodeDeadlock(p)
       \/ DeleteNode(p) \/ FindEvidence(p) \/ LinkNode(p) \/ UnlinkNode(p)
       \/ SendDeleteFile(p) \/ FetchFile(p) \/ DeleteEvidence(p)
    /\ UNCHANGED <<caseVars, personVars>>

TimelineWrites ==
    [node_insert |-> "write", write_node |-> "write", delete_node |-> "write",
     link_node |-> "write", unlink |-> "write", delete_file |-> "write"]

-----------------------------------------------------------------------------
TimelineTypeOK ==
    /\ nodes \in [NodeIds -> NodeRow]
    /\ evidence \in [Evidence -> EvidenceRow]
    /\ evlinks \subseteq EvLink
    /\ \A l \in evlinks : evidence[l.evidence].case = nodes[l.node].case

PlacesNodes == {"create_node", "update_node", "move_node", "post", "confirm"}

(* list_nodes has an order for any two nodes of a case, so that its pages  *)
(* neither miss nor repeat one: unless two requests that place a node      *)
(* overlapped.  create_node and the agent's tool read the place in one     *)
(* statement and insert in another; update_node writes back the day and    *)
(* the place it read.                                                      *)
DayOrderUnambiguous ==
    \/ \E pair \in crossed : pair \subseteq PlacesNodes
    \/ \A c \in Cases : \A a, b \in ListNodes(c) :
         a # b => ListedBefore(a, b) \/ ListedBefore(b, a)

(* A move that no other request on the case overlaps leaves the days it    *)
(* touches numbered 100, 200, ...; the other nodes keep their days and     *)
(* their order; and the node that moved is on its day, before every node   *)
(* that was at or behind the place asked for.                              *)
MoveKeepsOrder ==
    [][\A p \in Slots :
         (/\ At(p, "commit_node") /\ At(p, "refetch")'
          /\ Resequences(p) /\ crossed = {})
         => LET n == req[p].arg.node
                c == req[p].case
                days == {Day(p), OldDay(p)}
                others == NodeIds \ {n}
            IN /\ nodes'[n].day = Day(p)
               /\ \A a \in others : nodes'[a] = [nodes[a] EXCEPT !.order = nodes'[a].order]
               /\ \A d \in days : LET there == OnDay(nodes', c, d) IN
                    {nodes'[a].order : a \in there} = {100 * i : i \in 1 .. Cardinality(there)}
               /\ \A a, b \in others : \A d \in Days :
                    ({a, b} \subseteq OnDay(nodes, c, d) /\ nodes[a].order < nodes[b].order)
                    => nodes'[a].order < nodes'[b].order
               /\ \A a \in others \cap OnDay(nodes, c, Day(p)) :
                    (req[p].saw.order <= nodes[a].order)
                    = (nodes'[n].order < nodes'[a].order)
      ]_<<req, nodes, crossed>>
=============================================================================
