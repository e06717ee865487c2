---------------------------- MODULE WorkspaceGraph -----------------------------
(***************************************************************************)
(* The persons of a case and their relationships, for any number of        *)
(* requests, cases and persons: the graph stays closed, and a merge that   *)
(* is alone in its case loses nothing.                                     *)
(*                                                                         *)
(* GraphInv says of each request what it has found, of each merge what its *)
(* transaction has written so far, and of the tables that both ends of a   *)
(* live relationship are linked to its case; the last two hold unless a    *)
(* merge met another merge or the creation of a relationship.  MergeInv    *)
(* says what a merge has united so far, if it met no request of its case.  *)
(***************************************************************************)
EXTENDS WorkspaceSafety

(***************************************************************************)
(* Persons.  What a request knows of the persons it is about, what a merge *)
(* has written in its transaction, and what both say of the two tables     *)
(* while it is in flight.                                                  *)
(***************************************************************************)
\* The places of a merge in its transaction, and those where it takes links over.
InTx == {"merge_link", "merge_fill", "merge_from", "merge_to", "merge_drop",
         "merge_unlink", "merge_commit"}
Taking == {"merge_link", "merge_fill"}

\* The rows of a table as the transaction of r sees them.
Sight(r, table) == [k \in DOMAIN table |-> IF k \in DOMAIN r.tx THEN r.tx[k] ELSE table[k]]

RelRowOK(row) == row \in RelRow /\ (row.id = 0) = (row.status = "absent")
LinkOK(link) == link \in RoleTypes \X (Details \ {"absent"})

\* What a request was sent with, and where it is bound.
Asked(r) ==
    /\ r.op = "update_person" => r.arg.name \in {"a", "b"}
    /\ r.op = "delete_rel" => r.arg.id \in RelIds
    /\ r.op = "create_rel" =>
          /\ r.case \in Cases /\ r.arg.from \in People /\ r.arg.to \in People
          /\ r.at \in Checks \cup {"lookup"} => r.then = "rel_from"
          /\ r.at \in {"rel_to", "rel_insert"} => r.arg.from # r.arg.to
    /\ r.op = "merge" =>
          /\ r.case \in Cases /\ r.arg.source \in People /\ r.arg.target \in People
          /\ r.at \in Checks \cup {"lookup"} => r.then = "merge_source"
          /\ r.at \in InTx \cup {"merge_target", "merge_links"}
                => r.arg.source # r.arg.target

\* The rows that a merge has written so far, and the links it has yet to take.
Buffered(r) == r.op = "merge" =>
    /\ r.at \notin InTx => DOMAIN r.tx = {}
    /\ \A k \in DOMAIN r.tx \cap LinkKeys :
          /\ k[1] = r.case /\ r.tx[k] \in Details
          /\ \/ k[2] = r.arg.target /\ r.tx[k] # "absent"
             \/ k[2] = r.arg.source /\ r.at = "merge_commit"
    /\ \A k \in DOMAIN r.tx \cap RelKeys :
          /\ k[1] = r.case /\ RelRowOK(r.tx[k])
          /\ {k[2], k[3]} \cap {r.arg.source, r.arg.target} # {}
    /\ r.at \in Taking \cup {"merge_from"} => DOMAIN r.tx \cap RelKeys = {}
    /\ r.at \in Taking => /\ DOMAIN r.saw = {"link", "rest"}
                          /\ \A link \in r.saw.rest : LinkOK(link)
    /\ r.at = "merge_fill" => LinkOK(r.saw.link)

\* No merge met another one, or the creation of a relationship.
Apart == ~MergeOverlaps("merge") /\ ~MergeOverlaps("create_rel")

Tied(k) == LinkedIn(k[1], k[2]) /\ LinkedIn(k[1], k[3])

\* What a request has found, and still is so if they are apart.
Knows(r) ==
    /\ r.op = "create_rel" =>
          /\ r.at \in {"rel_to", "rel_insert"} => LinkedIn(r.case, r.arg.from)
          /\ r.at = "rel_insert" => LinkedIn(r.case, r.arg.to)
    /\ r.op = "merge" =>
          /\ r.at \in InTx \cup {"merge_links"} => LinkedIn(r.case, r.arg.target)
          /\ \A k \in DOMAIN r.tx \cap RelKeys : r.tx[k].status = "active" => Tied(k)
          /\ r.at \in {"merge_unlink", "merge_commit"} =>
                \A k \in RelKeys :
                   k[1] = r.case /\ r.arg.source \in {k[2], k[3]}
                      => Sight(r, rels)[k].status # "active"

Ties == Apart =>
    /\ \A k \in RelKeys : rels[k].status = "active" => Tied(k)
    /\ \A p \in Slots : Knows(req[p])

GraphInv ==
    /\ PersonTypeOK
    /\ \A p \in Slots : Asked(req[p]) /\ Buffered(req[p])
    /\ Ties

-----------------------------------------------------------------------------
\* No merge met any other request of its case.
Single == \A pair \in crossed : "merge" \notin pair

\* The link of the target, with what the source brings.
United(row, detail) ==
    IF detail = "absent" THEN row
    ELSE IF row = "absent" THEN detail ELSE Filled(row, detail)

InHand(r) == IF r.at = "merge_fill" THEN {r.saw.link} ELSE {}
Pending(r) == IF r.at \in Taking THEN r.saw.rest \cup InHand(r) ELSE {}

Joint(table, c, x, y) == <<c, x, y>> \in RelKeys /\ table[<<c, x, y>>].status = "active"

LinksMerged(r) ==
    /\ r.at = "merge_fill" =>
          /\ r.saw.link \notin r.saw.rest
          /\ links[<<r.case, r.arg.target, r.saw.link[1]>>] # "absent"
    /\ \A link \in Pending(r) :
          /\ link[2] = links[<<r.case, r.arg.source, link[1]>>]
          /\ <<r.case, r.arg.target, link[1]>> \notin DOMAIN r.tx
    /\ \A role \in RoleTypes :
          \/ \E link \in Pending(r) : link[1] = role
          \/ Sight(r, links)[<<r.case, r.arg.target, role>>]
                = United(links[<<r.case, r.arg.target, role>>],
                         links[<<r.case, r.arg.source, role>>])
    /\ r.at = "merge_commit" => \A role \in RoleTypes :
          Sight(r, links)[<<r.case, r.arg.source, role>>] = "absent"

RelsMerged(r) ==
    /\ r.at = "merge_to" => \A k \in DOMAIN r.tx \cap RelKeys :
                               k[2] \in {r.arg.source, r.arg.target}
    /\ r.at \in {"merge_to", "merge_drop", "merge_unlink", "merge_commit"} =>
          \A y \in People \ {r.arg.source, r.arg.target} :
             Joint(Sight(r, rels), r.case, r.arg.target, y)
                <=> \/ Joint(rels, r.case, r.arg.target, y)
                    \/ Joint(rels, r.case, r.arg.source, y)
    /\ r.at \in {"merge_drop", "merge_unlink", "merge_commit"} =>
          \A x \in People \ {r.arg.source, r.arg.target} :
             Joint(Sight(r, rels), r.case, x, r.arg.target)
                <=> \/ Joint(rels, r.case, x, r.arg.target)
                    \/ Joint(rels, r.case, x, r.arg.source)

MergeInv == Single => \A p \in Slots :
    req[p].op = "merge" /\ req[p].at \in InTx
       => LinksMerged(req[p]) /\ RelsMerged(req[p])

-----------------------------------------------------------------------------
\* A link is no relationship.
LEMMA KeysApart == LinkKeys \cap RelKeys = {}
  BY PersonsAssumption DEF LinkKeys, RelKeys

\* Where a step leaves a request that goes on.
On(p, place, saw, tx) ==
    /\ req'[p].at = place /\ req'[p].saw = saw /\ req'[p].tx = tx
    /\ req'[p].then = req[p].then /\ Keeps(p) /\ crossed' = crossed

\* It goes on to another place,
LEMMA GotoOn ==
    ASSUME FlowInv, NEW p \in Slots, NEW place, Goto(p, place)
    PROVE  On(p, place, req[p].saw, req[p].tx)
  BY DEF FlowInv, Fields, Goto, bounds, On, Keeps

\* with what it has read,
LEMMA LearnOn ==
    ASSUME FlowInv, NEW p \in Slots, NEW place, NEW what, Learn(p, place, what)
    PROVE  On(p, place, what, req[p].tx)
  BY DEF FlowInv, Fields, Learn, bounds, On, Keeps

\* or with the rows it has written.
LEMMA BufferOn ==
    ASSUME FlowInv, NEW p \in Slots, NEW place, NEW rows, Buffer(p, place, rows)
    PROVE  On(p, place, req[p].saw, Writes(p, rows))
  BY DEF FlowInv, Fields, Buffer, bounds, On, Keeps

\* A request that leaves has no transaction.
LEMMA LeavesEmpty ==
    ASSUME FlowInv, NEW p \in Slots, req' = Answered(p)
    PROVE  Leaves(p) /\ DOMAIN req'[p].tx = {}
<1>1. DOMAIN <<>> = {}
  OBVIOUS
<1>2. req'[p].tx = <<>>
  BY DEF FlowInv, Fields, Answered, Idle
<1> QED
  BY <1>1, <1>2, AnsweredLeaves

\* A check leads on to where the request was bound, or out of its handler.
LEMMA ChecksOn ==
    ASSUME FlowInv, NEW p \in Slots, CheckCase(p) \/ CheckMember(p)
    PROVE  /\ req[p].at \in Checks
           /\ \/ req'[p] = Idle
              \/ /\ Keeps(p) /\ req[p].then = "answer" /\ req'[p].at = "record"
              \/ \E place \in {"member", req[p].then} :
                    On(p, place, req[p].saw, req[p].tx)
              \/ /\ req[p].op \in {"post", "confirm"}
                 /\ On(p, "tool_failed", req[p].saw, req[p].tx)
<1>1. req[p].at \in Checks
  BY DEF CheckCase, CheckMember, At, Checks
<1>2. /\ req[p].deny = "leave" \/ req[p].deny = "tool_failed"
      /\ req[p].deny = "tool_failed" => req[p].op \in {"post", "confirm"}
  BY DEF FlowInv, RequestOK
<1>3. Pass(p) \/ Deny(p) \/ Goto(p, "member")
  BY DEF CheckCase, CheckMember
<1>4. CASE Pass(p)
  <2>1. CASE req[p].then = "answer"
    <3>1. req' = Answered(p)
      BY <1>4, <2>1 DEF Pass, Succeed
    <3> QED
      BY <1>1, <2>1, <3>1, AnsweredLeaves DEF Leaves, Moves
  <2>2. CASE req[p].then # "answer"
    BY <1>1, <1>4, <2>2, GotoOn DEF Pass
  <2> QED
    BY <2>1, <2>2
<1>5. CASE Deny(p)
  BY <1>1, <1>2, <1>5, GotoOn, RefuseLeaves DEF Deny
<1>6. CASE Goto(p, "member")
  BY <1>1, <1>6, GotoOn
<1> QED
  BY <1>3, <1>4, <1>5, <1>6

-----------------------------------------------------------------------------
\* What a step of p may do to the links and the relationships: those of its
\* own case, and only a merge takes a link away.
Alters(p) ==
    /\ \A k \in LinkKeys : links'[k] # links[k] =>
          /\ req[p].op \notin {"none", "create_case"} /\ req[p].case = k[1]
          /\ req[p].op # "merge" => links'[k] # "absent"
    /\ \A k \in RelKeys : rels'[k] # rels[k] =>
          /\ req[p].op \in {"create_rel", "delete_rel", "merge"}
          /\ req[p].case = k[1]
          /\ req[p].op = "delete_rel" => rels'[k].status = "deleted"

\* A person that is linked to a case stays so, where no link goes.
LEMMA LinkedStays ==
    ASSUME NEW c \in Cases, NEW x \in People,
           \A role \in RoleTypes : links[<<c, x, role>>] # "absent"
                                      => links'[<<c, x, role>>] # "absent",
           LinkedIn(c, x)
    PROVE  LinkedIn(c, x)'
  BY DEF LinkedIn

\* What p does leaves every other request what it has and what it knows.
LEMMA OtherGraph ==
    ASSUME FlowInv, AccessInv, GraphInv, NEW p \in Slots, Others(p),
           crossed \subseteq crossed', Alters(p), PersonTypeOK',
           NEW q \in Slots \ {p}
    PROVE  Asked(req'[q]) /\ Buffered(req'[q]) /\ (Apart' => Knows(req[q])')
<1>1. /\ req'[q].op = req[q].op /\ req'[q].at = req[q].at
      /\ req'[q].then = req[q].then /\ req'[q].case = req[q].case
      /\ req'[q].arg = req[q].arg /\ req'[q].saw = req[q].saw
      /\ req'[q].tx = req[q].tx
  BY DEF Others, Fields
<1>2. Asked(req[q]) /\ Buffered(req[q])
  BY DEF GraphInv
<1>3. Asked(req'[q]) /\ Buffered(req'[q])
  BY <1>1, <1>2 DEF Asked, Buffered
<1>4. ASSUME Apart' PROVE Knows(req[q])'
  <2>1. Apart /\ Knows(req[q])
    BY <1>4 DEF Apart, MergeOverlaps, GraphInv, Ties
  <2>2. req[q].op \in {"create_rel", "merge"} /\ req[p].op \notin {"none", "create_case"}
        /\ req[p].case = req[q].case => req[p].op # "merge"
    <3>1. SUFFICES ASSUME req[q].op \in {"create_rel", "merge"}, req[p].op = "merge",
                          req[p].case = req[q].case
                   PROVE  FALSE
      OBVIOUS
    <3>2. {"merge", req[q].op} \in crossed
      BY <3>1 DEF AccessInv, CrossPairs
    <3> QED
      BY <2>1, <3>1, <3>2 DEF Apart, MergeOverlaps
  <2>3. req[q].op \in {"create_rel", "merge"} => \A x \in People :
           LinkedIn(req[q].case, x) => LinkedIn(req[q].case, x)'
    <3>1. SUFFICES ASSUME req[q].op \in {"create_rel", "merge"}, NEW x \in People,
                          LinkedIn(req[q].case, x)
                   PROVE  LinkedIn(req[q].case, x)'
      BY Zenon
    <3>2. req[q].case \in Cases
      BY <1>2, <3>1 DEF Asked
    <3>3. ASSUME NEW role \in RoleTypes, links[<<req[q].case, x, role>>] # "absent"
          PROVE  links'[<<req[q].case, x, role>>] # "absent"
      <4>1. <<req[q].case, x, role>> \in LinkKeys
        BY <3>2 DEF LinkKeys
      <4> QED
        BY <2>2, <3>1, <3>3, <4>1 DEF Alters
    <3>4. PICK c \in Cases : c = req[q].case
      BY <3>2
    <3> QED
      BY <1>1, <3>1, <3>3, <3>4, LinkedStays
  <2>4. CASE req[q].op = "create_rel"
    BY <1>1, <1>2, <2>1, <2>3, <2>4 DEF Knows, Asked, LinkedIn
  <2>5. CASE req[q].op = "merge"
    <3>1. ASSUME NEW k \in DOMAIN req[q].tx \cap RelKeys, req[q].tx[k].status = "active"
          PROVE  Tied(k)'
      <4>1. k[1] = req[q].case /\ k[2] \in People /\ k[3] \in People
        BY <1>2, <2>5 DEF Buffered, RelKeys
      <4> QED
        BY <1>1, <2>1, <2>3, <2>5, <3>1, <4>1 DEF Knows, Tied, LinkedIn
    <3>2. ASSUME req[q].at \in {"merge_unlink", "merge_commit"}, NEW k \in RelKeys,
                 k[1] = req[q].case, req[q].arg.source \in {k[2], k[3]}
          PROVE  Sight(req[q], rels')[k].status # "active"
      <4>1. DOMAIN rels = RelKeys /\ DOMAIN rels' = RelKeys
        BY DEF GraphInv, PersonTypeOK
      <4>2. Sight(req[q], rels)[k].status # "active"
        BY <2>1, <2>5, <3>2 DEF Knows
      <4>3. rels'[k] = rels[k] \/ rels'[k].status = "deleted"
        <5>1. SUFFICES ASSUME rels'[k] # rels[k]
                       PROVE  rels'[k].status = "deleted"
          OBVIOUS
        <5>2. req[p].op \in {"create_rel", "delete_rel", "merge"} /\ req[p].case = req[q].case
              /\ (req[p].op = "delete_rel" => rels'[k].status = "deleted")
          BY <3>2, <5>1 DEF Alters
        <5>3. {req[p].op, "merge"} \in crossed
          BY <2>5, <5>2 DEF AccessInv, CrossPairs
        <5>4. {req[p].op, "merge"} = {"merge", req[p].op}
          OBVIOUS
        <5> QED
          BY <2>1, <5>2, <5>3, <5>4 DEF Apart, MergeOverlaps
      <4> QED
        BY <4>1, <4>2, <4>3 DEF Sight
    <3>3. req[q].at \in InTx \cup {"merge_links"}
            => LinkedIn(req[q].case, req[q].arg.target)'
      BY <1>1, <1>2, <2>1, <2>3, <2>5 DEF Knows, Asked, LinkedIn
    <3> QED
      BY <1>1, <2>5, <3>1, <3>2, <3>3 DEF Knows, Sight
  <2>6. CASE req[q].op \notin {"create_rel", "merge"}
    BY <1>1, <2>6 DEF Knows
  <2> QED
    BY <2>4, <2>5, <2>6
<1> QED
  BY <1>3, <1>4

\* What it takes for the graph to be in order after a step of p.
LEMMA GraphKept ==
    ASSUME FlowInv, AccessInv, GraphInv, NEW p \in Slots, Others(p),
           crossed \subseteq crossed', Alters(p), PersonTypeOK',
           Asked(req'[p]), Buffered(req'[p]),
           Apart' => /\ Knows(req[p])'
                     /\ \A k \in RelKeys : rels'[k].status = "active" => Tied(k)'
    PROVE  GraphInv'
<1>1. \A q \in Slots : Asked(req'[q]) /\ Buffered(req'[q]) /\ (Apart' => Knows(req[q])')
  BY OtherGraph
<1> QED
  BY <1>1 DEF GraphInv, Ties

\* A step that leaves the relationships, and takes no link away.
LEMMA GraphGrows ==
    ASSUME FlowInv, AccessInv, GraphInv, NEW p \in Slots, Others(p),
           crossed \subseteq crossed', PersonTypeOK', rels' = rels,
           \A k \in LinkKeys : links'[k] # links[k] =>
              /\ req[p].op \notin {"none", "create_case"} /\ req[p].case = k[1]
              /\ links'[k] # "absent",
           Asked(req'[p]), Buffered(req'[p]), Apart /\ Apart' => Knows(req[p])'
    PROVE  GraphInv'
<1>1. Alters(p)
  BY DEF Alters
<1>2. ASSUME Apart', NEW k \in RelKeys, rels'[k].status = "active" PROVE Tied(k)'
  <2>1. /\ k[1] \in Cases /\ k[2] \in People /\ k[3] \in People /\ Tied(k)
    BY <1>2 DEF RelKeys, GraphInv, Ties, Apart, MergeOverlaps
  <2>2. PICK c \in Cases, x \in People, y \in People : k[1] = c /\ k[2] = x /\ k[3] = y
    BY <2>1
  <2>3. \A z \in People, role \in RoleTypes :
           links[<<c, z, role>>] # "absent" => links'[<<c, z, role>>] # "absent"
    BY DEF LinkKeys
  <2>4. LinkedIn(c, x) /\ LinkedIn(c, y)
    BY <2>1, <2>2 DEF Tied
  <2>5. LinkedIn(c, x)' /\ LinkedIn(c, y)'
    BY <2>3, <2>4, LinkedStays
  <2> QED
    BY <2>2, <2>5 DEF Tied
<1>3. Apart' => Apart
  BY DEF Apart, MergeOverlaps
<1> QED
  BY <1>1, <1>2, <1>3, GraphKept

\* A step that leaves the three tables alone.
LEMMA GraphStill ==
    ASSUME FlowInv, AccessInv, GraphInv, NEW p \in Slots, Others(p),
           crossed \subseteq crossed', UNCHANGED personVars,
           Asked(req'[p]), Buffered(req'[p]), Apart /\ Apart' => Knows(req[p])'
    PROVE  GraphInv'
<1>1. links' = links /\ rels' = rels /\ persons' = persons
  BY DEF personVars
<1>2. PersonTypeOK'
  BY <1>1 DEF GraphInv, PersonTypeOK
<1> QED
  BY <1>1, <1>2, GraphGrows

\* A request without a transaction, and with nothing found.
LEMMA CalmGraph ==
    ASSUME NEW p \in Slots,
           req'[p].op = "merge" =>
              /\ req'[p].at \notin InTx \cup {"merge_links"}
              /\ DOMAIN req'[p].tx = {},
           req'[p].op = "create_rel" => req'[p].at \notin {"rel_to", "rel_insert"}
    PROVE  Buffered(req'[p]) /\ Knows(req[p])'
<1>1. Buffered(req'[p])
  BY DEF Buffered, InTx, Taking
<1>2. Knows(req[p])'
  BY DEF Knows, InTx
<1> QED
  BY <1>1, <1>2

\* A request that is no business of the persons'.
LEMMA NoPerson ==
    ASSUME NEW p \in Slots, req'[p].op \notin PersonOps
    PROVE  Asked(req'[p]) /\ Buffered(req'[p]) /\ Knows(req[p])'
<1>1. Asked(req'[p])
  BY DEF Asked, PersonOps
<1> QED
  BY <1>1, CalmGraph DEF PersonOps

\* A request that leaves.
LEMMA LeavesGraph ==
    ASSUME FlowInv, GraphInv, NEW p \in Slots, req' = Answered(p) \/ req'[p] = Idle
    PROVE  Asked(req'[p]) /\ Buffered(req'[p]) /\ Knows(req[p])'
<1>1. CASE req'[p] = Idle
  <2>1. req'[p].op = "none"
    BY <1>1 DEF Idle
  <2> QED
    BY <2>1, NoPerson DEF PersonOps
<1>2. CASE req'[p] # Idle
  <2>1. Moves(p, "record") /\ DOMAIN req'[p].tx = {}
    BY <1>2, LeavesEmpty DEF Leaves
  <2>2. /\ req'[p].op = req[p].op /\ req'[p].at = "record"
        /\ req'[p].arg = req[p].arg /\ req'[p].case = req[p].case
    BY <2>1 DEF Moves, Keeps
  <2>3. Asked(req[p])
    BY DEF GraphInv
  <2>4. Asked(req'[p])
    BY <2>2, <2>3 DEF Asked, Checks, InTx
  <2> QED
    BY <2>1, <2>2, <2>4, CalmGraph DEF InTx
<1> QED
  BY <1>1, <1>2

\* The steps of the other components.
LEMMA ForeignGraph ==
    ASSUME FlowInv, AccessInv, GraphInv, NEW p \in Slots, NEW ops,
           ops \cap PersonOps = {}, Turn(p, ops), UNCHANGED personVars
    PROVE  GraphInv'
<1>1. Others(p) /\ crossed \subseteq crossed'
  BY DEF Turn
<1>2. req'[p].op \notin PersonOps
  <2>1. req'[p] = Idle => req'[p].op = "none"
    BY DEF Idle
  <2> QED
    BY <2>1 DEF Turn, Serves, Sent, Quiet, Applies, Ends, InHandler, Same, PersonOps
<1> QED
  BY <1>1, <1>2, NoPerson, GraphStill

\* The look-up lets a request through to its first place.
LEMMA EntryGraph ==
    ASSUME FlowInv, AccessInv, GraphInv, NEW p \in Slots,
           LookupMiss(p) \/ LookupFails(p), UNCHANGED personVars
    PROVE  GraphInv'
<1>1. Others(p) /\ crossed \subseteq crossed'
  BY EntryTurn DEF RequestTurn
<1>2. /\ req[p].at = "lookup" /\ req'[p].at = FirstStep(req[p])
      /\ \A f \in Fields \ {"at"} : req'[p][f] = req[p][f]
  BY DEF LookupMiss, LookupFails, At, FlowInv, Fields
<1>3. /\ req'[p].op = req[p].op /\ req'[p].arg = req[p].arg
      /\ req'[p].case = req[p].case /\ req'[p].tx = req[p].tx
      /\ req'[p].then = req[p].then
  BY <1>2 DEF Fields
<1>4. Asked(req[p]) /\ Buffered(req[p])
  BY DEF GraphInv
<1>5. req'[p].at \in {"case", req[p].then}
  BY <1>2 DEF FirstStep
<1>6. Asked(req'[p])
  BY <1>2, <1>3, <1>4, <1>5 DEF Asked, Checks, InTx
<1>7. Buffered(req'[p]) /\ Knows(req[p])'
  BY <1>2, <1>3, <1>4, <1>5, CalmGraph DEF Asked, Buffered, InTx
<1> QED
  BY <1>1, <1>6, <1>7, GraphStill

\* The checks of access.rs.
LEMMA ChecksGraph ==
    ASSUME FlowInv, AccessInv, GraphInv, NEW p \in Slots,
           CheckCase(p) \/ CheckMember(p), UNCHANGED personVars
    PROVE  GraphInv'
<1>1. Others(p) /\ crossed \subseteq crossed'
  BY ChecksTurn DEF Proceeds
<1>2. req[p].at \in Checks /\ Asked(req[p]) /\ Buffered(req[p])
  BY ChecksOn DEF GraphInv
<1>3. CASE req'[p] = Idle
  BY <1>1, <1>3, LeavesGraph, GraphStill
<1>4. CASE Keeps(p) /\ req[p].then = "answer" /\ req'[p].at = "record"
  <2>1. /\ req'[p].op = req[p].op /\ req'[p].arg = req[p].arg /\ req'[p].case = req[p].case
        /\ req[p].op \notin {"create_rel", "merge"}
    BY <1>2, <1>4 DEF Keeps, Asked
  <2>2. Asked(req'[p])
    BY <1>2, <2>1 DEF Asked
  <2> QED
    BY <1>1, <2>1, <2>2, CalmGraph, GraphStill
<1>5. CASE \E place \in {"member", req[p].then} : On(p, place, req[p].saw, req[p].tx)
  <2>1. /\ req'[p].op = req[p].op /\ req'[p].arg = req[p].arg /\ req'[p].case = req[p].case
        /\ req'[p].tx = req[p].tx /\ req'[p].then = req[p].then
        /\ req'[p].at \in {"member", req[p].then}
    BY <1>5 DEF On, Keeps
  <2>2. Asked(req'[p])
    BY <1>2, <2>1 DEF Asked, Checks, InTx
  <2>3. Buffered(req'[p]) /\ Knows(req[p])'
    BY <1>2, <2>1, CalmGraph DEF Asked, Buffered, InTx, Checks
  <2> QED
    BY <1>1, <2>2, <2>3, GraphStill
<1>6. CASE req[p].op \in {"post", "confirm"} /\ On(p, "tool_failed", req[p].saw, req[p].tx)
  <2>1. req'[p].op \notin PersonOps
    BY <1>6 DEF On, Keeps, PersonOps
  <2> QED
    BY <1>1, <2>1, NoPerson, GraphStill
<1> QED
  BY <1>3, <1>4, <1>5, <1>6, ChecksOn

-----------------------------------------------------------------------------
\* A request to the persons is sent.
LEMMA PersonSends ==
    ASSUME FlowInv, AccessInv, GraphInv, NEW p \in Slots, Others(p),
           crossed \subseteq crossed',
           \/ SendCreatePerson(p) \/ SendUpdatePerson(p) \/ SendDeletePerson(p)
           \/ SendLinkCase(p) \/ SendCreateRel(p) \/ SendDeleteRel(p) \/ SendMerge(p)
    PROVE  GraphInv'
<1>1. UNCHANGED personVars
  BY DEF SendCreatePerson, SendUpdatePerson, SendDeletePerson, SendLinkCase,
     SendCreateRel, SendDeleteRel, SendMerge
<1>2. ASSUME NEW op, NEW user \in Senders(p, op), NEW case, NEW path, NEW arg,
             NEW need, NEW then, Send(p, op, user, case, path, arg, need, then)
      PROVE  /\ req'[p].op = op /\ req'[p].case = case /\ req'[p].arg = arg
             /\ req'[p].then = then /\ req'[p].at \in {"lookup", "case", then}
             /\ DOMAIN req'[p].tx = {}
  <2>1. /\ req'[p].op = op /\ req'[p].case = case /\ req'[p].arg = arg
        /\ req'[p].then = then /\ req'[p].tx = <<>>
        /\ req'[p].at \in {"lookup", "case", then}
    BY <1>2 DEF Send, FirstStep, FlowInv, Fields
  <2>2. DOMAIN <<>> = {}
    OBVIOUS
  <2> QED
    BY <2>1, <2>2
<1>3. CASE SendCreateRel(p)
  <2>1. /\ req'[p].op = "create_rel" /\ req'[p].case \in Cases
        /\ req'[p].arg.from \in People /\ req'[p].arg.to \in People
        /\ req'[p].then = "rel_from" /\ req'[p].at \in {"lookup", "case", "rel_from"}
    BY <1>2, <1>3 DEF SendCreateRel
  <2>2. Asked(req'[p])
    BY <2>1 DEF Asked, Checks
  <2> QED
    BY <1>1, <2>1, <2>2, CalmGraph, GraphStill
<1>4. CASE SendMerge(p)
  <2>1. /\ req'[p].op = "merge" /\ req'[p].case \in Cases
        /\ req'[p].arg.source \in People /\ req'[p].arg.target \in People
        /\ req'[p].then = "merge_source" /\ DOMAIN req'[p].tx = {}
        /\ req'[p].at \in {"lookup", "case", "merge_source"}
    BY <1>2, <1>4 DEF SendMerge
  <2>2. Asked(req'[p])
    BY <2>1 DEF Asked, Checks, InTx
  <2> QED
    BY <1>1, <2>1, <2>2, CalmGraph, GraphStill DEF InTx
<1>5. CASE SendUpdatePerson(p)
  <2>1. req'[p].op = "update_person" /\ req'[p].arg.name = "b"
    BY <1>2, <1>5 DEF SendUpdatePerson
  <2>2. Asked(req'[p])
    BY <2>1 DEF Asked
  <2> QED
    BY <1>1, <2>1, <2>2, CalmGraph, GraphStill
<1>6. CASE SendDeleteRel(p)
  <2>1. req'[p].op = "delete_rel" /\ req'[p].arg.id \in RelIds
    BY <1>2, <1>6 DEF SendDeleteRel
  <2>2. Asked(req'[p])
    BY <2>1 DEF Asked
  <2> QED
    BY <1>1, <2>1, <2>2, CalmGraph, GraphStill
<1>7. CASE SendCreatePerson(p) \/ SendDeletePerson(p) \/ SendLinkCase(p)
  <2>1. req'[p].op \in {"create_person", "delete_person", "link_case"}
    BY <1>2, <1>7 DEF SendCreatePerson, SendDeletePerson, SendLinkCase
  <2>2. Asked(req'[p])
    BY <2>1 DEF Asked
  <2> QED
    BY <1>1, <2>1, <2>2, CalmGraph, GraphStill
<1> QED
  BY <1>3, <1>4, <1>5, <1>6, <1>7

-----------------------------------------------------------------------------
\* A request that is neither a merge nor the creation of a relationship has
\* only to remember what it was asked for.
LEMMA PlainGraph ==
    ASSUME FlowInv, GraphInv, NEW p \in Slots, Keeps(p),
           req[p].op \notin {"create_rel", "merge"}
    PROVE  Asked(req'[p]) /\ Buffered(req'[p]) /\ Knows(req[p])'
<1>1. req'[p].op = req[p].op /\ req'[p].arg = req[p].arg /\ req'[p].case = req[p].case
  BY DEF Keeps
<1>2. Asked(req[p])
  BY DEF GraphInv
<1>3. Asked(req'[p])
  BY <1>1, <1>2 DEF Asked
<1> QED
  BY <1>1, <1>3, CalmGraph

\* Ways out of a handler.
LEMMA WaysOut ==
    ASSUME FlowInv, GraphInv, NEW p \in Slots, Succeed(p) \/ CarryAndSucceed(p) \/ Refuse(p)
    PROVE  Asked(req'[p]) /\ Buffered(req'[p]) /\ Knows(req[p])'
<1>1. req' = Answered(p) \/ req'[p] = Idle
  BY DEF Succeed, CarryAndSucceed, Refuse, FlowInv
<1> QED
  BY <1>1, LeavesGraph

\* The persons themselves.
LEMMA PersonRows ==
    ASSUME FlowInv, AccessInv, GraphInv, NEW p \in Slots, Others(p),
           crossed \subseteq crossed',
           \/ InsertPerson(p) \/ FetchPerson(p) \/ PrimaryWritable(p)
           \/ WritePerson(p) \/ RefetchPerson(p) \/ DeletePerson(p)
    PROVE  GraphInv'
<1>1. UNCHANGED <<links, rels>>
  BY DEF InsertPerson, FetchPerson, PrimaryWritable, WritePerson, RefetchPerson,
     DeletePerson, personVars
<1>2. req[p].at \in {"person_row", "fetch_person", "writable", "update_person",
                     "person_detail", "delete_person"}
  BY DEF InsertPerson, FetchPerson, PrimaryWritable, WritePerson, RefetchPerson,
     DeletePerson, At
<1>3. req[p].op \in PersonOps \ {"create_rel", "merge"} /\ Asked(req[p])
      /\ (req[p].at = "update_person" => req[p].op = "update_person")
  BY <1>2, Standing DEF OnWay, At, Late, Checks, PersonOps, GraphInv
<1>4. Asked(req'[p]) /\ Buffered(req'[p]) /\ Knows(req[p])'
  <2>1. Keeps(p) \/ Succeed(p) \/ CarryAndSucceed(p) \/ Refuse(p)
    <3>1. CASE InsertPerson(p) \/ WritePerson(p)
      BY <3>1, CarryMoves DEF InsertPerson, WritePerson, Moves
    <3>2. CASE FetchPerson(p) \/ RefetchPerson(p) \/ DeletePerson(p)
      BY <3>2, GotoMoves DEF FetchPerson, RefetchPerson, DeletePerson, Moves
    <3>3. CASE PrimaryWritable(p)
      <4>1. CASE \E place : Check(p, "write", place)
        <5>1. \A f \in {"op", "user", "case", "arg"} : req'[p][f] = req[p][f]
          BY <4>1 DEF Check, FlowInv, Fields
        <5> QED
          BY <5>1, <4>1 DEF Keeps, Check, FlowInv, Fields
      <4> QED
        BY <3>3, <4>1, GotoMoves DEF PrimaryWritable, Moves
    <3> QED
      BY <3>1, <3>2, <3>3
  <2> QED
    BY <1>3, <2>1, PlainGraph, WaysOut
<1>5. persons' \in [People -> PersonRow]
  <2>1. persons \in [People -> PersonRow]
    BY DEF GraphInv, PersonTypeOK
  <2>2. CASE InsertPerson(p)
    <3>1. PICK x \in Fresh :
             persons' = [persons EXCEPT ![x] = [status |-> "active", name |-> "a"]]
      BY <2>2 DEF InsertPerson
    <3>2. [status |-> "active", name |-> "a"] \in PersonRow
      BY DEF PersonRow
    <3> QED
      BY <2>1, <3>1, <3>2
  <2>3. CASE WritePerson(p)
    BY <1>3, <2>1, <2>3 DEF WritePerson, PersonRow, Asked, At
  <2>4. CASE DeletePerson(p)
    BY <2>1, <2>4 DEF DeletePerson, PersonRow
  <2>5. CASE FetchPerson(p) \/ PrimaryWritable(p) \/ RefetchPerson(p)
    BY <2>1, <2>5 DEF FetchPerson, PrimaryWritable, RefetchPerson, personVars
  <2> QED
    BY <2>2, <2>3, <2>4, <2>5
<1>6. PersonTypeOK'
  BY <1>1, <1>5 DEF PersonTypeOK, GraphInv
<1> QED
  BY <1>1, <1>4, <1>6, GraphGrows

\* Links to cases.
LEMMA PersonLinks ==
    ASSUME FlowInv, AccessInv, GraphInv, NEW p \in Slots, Others(p),
           crossed \subseteq crossed', InsertPersonLink(p) \/ InsertLink(p)
    PROVE  GraphInv'
<1>1. UNCHANGED <<persons, rels>>
  BY DEF InsertPersonLink, InsertLink
<1>2. req[p].op \in {"create_person", "link_case"}
  BY Standing DEF InsertPersonLink, InsertLink, OnWay, At, Late, Checks
<1>3. PICK key : /\ links' \in {links, [links EXCEPT ![key] = "full"]}
                 /\ key[1] = req[p].case
  BY DEF InsertPersonLink, InsertLink
<1>4. links \in [LinkKeys -> Details]
  BY DEF GraphInv, PersonTypeOK
<1>5. /\ links' \in [LinkKeys -> Details]
      /\ \A k \in LinkKeys : links'[k] # links[k] =>
            req[p].case = k[1] /\ links'[k] # "absent"
  BY <1>3, <1>4 DEF Details
<1>6. PersonTypeOK'
  BY <1>1, <1>5 DEF PersonTypeOK, GraphInv
<1>7. Asked(req'[p]) /\ Buffered(req'[p]) /\ Knows(req[p])'
  BY WaysOut DEF InsertPersonLink, InsertLink
<1> QED
  BY <1>1, <1>2, <1>5, <1>6, <1>7, GraphGrows

-----------------------------------------------------------------------------
\* A relationship is created between two persons that were found linked.
LEMMA RelCreated ==
    ASSUME FlowInv, AccessInv, GraphInv, NEW p \in Slots, Others(p),
           crossed \subseteq crossed', InsertRel(p)
    PROVE  GraphInv'
<1> DEFINE key == <<req[p].case, req[p].arg.from, req[p].arg.to>>
<1>1. req[p].op = "create_rel" /\ req[p].at = "rel_insert"
      /\ links' = links /\ persons' = persons
  BY Standing DEF InsertRel, OnWay, At, Late, Checks
<1>2. Asked(req'[p]) /\ Buffered(req'[p]) /\ Knows(req[p])'
  BY WaysOut DEF InsertRel
<1>3. rels \in [RelKeys -> RelRow] /\ \A k \in RelKeys : RelRowOK(rels[k])
  BY DEF GraphInv, PersonTypeOK, RelRowOK
<1>4. rels' = rels \/ \E id \in RelIds : rels' = [rels EXCEPT ![key] = [status |-> "active", id |-> id]]
  BY DEF InsertRel, FreshRel
<1>5. /\ rels' \in [RelKeys -> RelRow]
      /\ \A k \in RelKeys : RelRowOK(rels'[k]) /\ (rels'[k] # rels[k] => k = key)
  <2>1. ASSUME NEW id \in RelIds PROVE RelRowOK([status |-> "active", id |-> id])
    BY PersonsAssumption DEF RelRowOK, RelRow
  <2> HIDE DEF key
  <2>2. CASE rels' = rels
    BY <1>3, <2>2
  <2>3. ASSUME NEW id \in RelIds, rels' = [rels EXCEPT ![key] = [status |-> "active", id |-> id]]
        PROVE  <1>5!1 /\ <1>5!2
    BY <1>3, <2>1, <2>3 DEF RelRowOK
  <2> QED
    BY <1>4, <2>2, <2>3
<1>6. Alters(p)
  BY <1>1, <1>5 DEF Alters
<1>7. PersonTypeOK'
  BY <1>1, <1>5 DEF PersonTypeOK, GraphInv, RelRowOK
<1>8. ASSUME Apart', NEW k \in RelKeys, rels'[k].status = "active" PROVE Tied(k)'
  <2>1. Ties /\ Apart
    BY <1>8 DEF GraphInv, Apart, MergeOverlaps
  <2>2. Tied(k)
    <3>1. CASE k = key
      BY <1>1, <2>1, <3>1 DEF Ties, Knows, Tied
    <3>2. CASE k # key
      BY <1>5, <1>8, <2>1, <3>2 DEF Ties
    <3> QED
      BY <3>1, <3>2
  <2> QED
    BY <1>1, <2>2 DEF Tied, LinkedIn
<1> QED
  BY <1>2, <1>6, <1>7, <1>8, GraphKept

\* A relationship is deleted.
LEMMA RelDeleted ==
    ASSUME FlowInv, AccessInv, GraphInv, NEW p \in Slots, Others(p),
           crossed \subseteq crossed', DeleteRel(p)
    PROVE  GraphInv'
<1>1. req[p].op = "delete_rel" /\ req[p].at = "rel_delete"
      /\ links' = links /\ persons' = persons
  BY Standing DEF DeleteRel, OnWay, At, Late, Checks
<1>2. Asked(req'[p]) /\ Buffered(req'[p]) /\ Knows(req[p])'
  BY WaysOut DEF DeleteRel
<1>3. rels \in [RelKeys -> RelRow] /\ \A k \in RelKeys : RelRowOK(rels[k])
  BY DEF GraphInv, PersonTypeOK, RelRowOK
<1>4. req[p].arg.id \in RelIds
  BY <1>1 DEF GraphInv, Asked
<1>5. rels' = [k \in RelKeys |-> IF k \in KeysOf(req[p].case, req[p].arg.id)
                                 THEN [rels[k] EXCEPT !.status = "deleted"] ELSE rels[k]]
  BY DEF DeleteRel
<1>6. ASSUME NEW k \in RelKeys
      PROVE  /\ RelRowOK(rels'[k])
             /\ rels'[k] # rels[k] => k[1] = req[p].case /\ rels'[k].status = "deleted"
  <2>1. CASE k \in KeysOf(req[p].case, req[p].arg.id)
    <3>1. k[1] = req[p].case /\ rels[k].id = req[p].arg.id /\ rels[k].id # 0
      BY <1>4, <2>1, PersonsAssumption DEF KeysOf
    <3>2. rels'[k] = [rels[k] EXCEPT !.status = "deleted"]
      BY <1>5, <2>1
    <3> QED
      BY <1>3, <3>1, <3>2 DEF RelRowOK, RelRow
  <2>2. CASE k \notin KeysOf(req[p].case, req[p].arg.id)
    BY <1>3, <1>5, <2>2
  <2> QED
    BY <2>1, <2>2
<1>7. Alters(p)
  BY <1>1, <1>6 DEF Alters
<1>8. PersonTypeOK'
  <2>1. rels' \in [RelKeys -> RelRow]
    BY <1>5, <1>6 DEF RelRowOK
  <2> QED
    BY <1>1, <1>6, <2>1 DEF PersonTypeOK, GraphInv, RelRowOK
<1>9. ASSUME Apart', NEW k \in RelKeys, rels'[k].status = "active" PROVE Tied(k)'
  <2>1. rels[k].status = "active"
    BY <1>6, <1>9
  <2>2. Tied(k)
    BY <1>9, <2>1 DEF GraphInv, Ties, Apart, MergeOverlaps
  <2> QED
    BY <1>1, <2>2 DEF Tied, LinkedIn
<1> QED
  BY <1>2, <1>7, <1>8, <1>9, GraphKept

\* The reads before either.
LEMMA RelReads ==
    ASSUME FlowInv, AccessInv, GraphInv, NEW p \in Slots, Others(p),
           crossed \subseteq crossed', CheckFrom(p) \/ CheckTo(p) \/ ReadRel(p)
    PROVE  GraphInv'
<1>1. UNCHANGED personVars
  BY DEF CheckFrom, CheckTo, ReadRel
<1>2. Asked(req[p])
  BY DEF GraphInv
<1>3. CASE Succeed(p) \/ CarryAndSucceed(p) \/ Refuse(p)
  BY <1>1, <1>3, WaysOut, GraphStill
<1>4. CASE ReadRel(p) /\ Goto(p, "rel_delete")
  <2>1. req[p].op = "delete_rel"
    BY <1>4, Standing DEF ReadRel, OnWay, At, Late, Checks
  <2>2. Keeps(p)
    BY <1>4, GotoMoves DEF Moves
  <2> QED
    BY <1>1, <2>1, <2>2, PlainGraph, GraphStill
<1>5. ASSUME req[p].op = "create_rel", NEW place \in {"rel_to", "rel_insert"},
             On(p, place, req[p].saw, req[p].tx),
             req[p].arg.from # req[p].arg.to,
             Apart => LinkedIn(req[p].case, req[p].arg.from),
             Apart /\ place = "rel_insert" => LinkedIn(req[p].case, req[p].arg.to)
      PROVE  GraphInv'
  <2>1. /\ req'[p].op = "create_rel" /\ req'[p].arg = req[p].arg
        /\ req'[p].case = req[p].case /\ req'[p].at = place
    BY <1>5 DEF On, Keeps
  <2>2. Asked(req'[p]) /\ Buffered(req'[p])
    BY <1>2, <1>5, <2>1 DEF Asked, Checks, Buffered
  <2>3. Apart => Knows(req[p])'
    BY <1>1, <1>5, <2>1 DEF Knows, LinkedIn, personVars
  <2> QED
    BY <1>1, <2>2, <2>3, GraphStill
<1>6. CASE CheckFrom(p) /\ ~Refuse(p)
  <2>1. req[p].op = "create_rel"
    BY <1>6, Standing DEF CheckFrom, OnWay, At, Late, Checks
  <2>2. Goto(p, "rel_to") /\ req[p].arg.from # req[p].arg.to
        /\ LinkedIn(req[p].case, req[p].arg.from)
    BY <1>6 DEF CheckFrom, InCase
  <2> QED
    BY <1>5, <2>1, <2>2, GotoOn
<1>7. CASE CheckTo(p) /\ ~Refuse(p)
  <2>1. req[p].op = "create_rel" /\ req[p].at = "rel_to"
    BY <1>7, Standing DEF CheckTo, OnWay, At, Late, Checks
  <2>2. Goto(p, "rel_insert") /\ LinkedIn(req[p].case, req[p].arg.to)
    BY <1>7 DEF CheckTo, InCase
  <2>3. req[p].arg.from # req[p].arg.to
    BY <1>2, <2>1 DEF Asked
  <2>4. Apart => LinkedIn(req[p].case, req[p].arg.from)
    BY <2>1 DEF GraphInv, Ties, Knows
  <2> QED
    BY <1>5, <2>1, <2>2, <2>3, <2>4, GotoOn
<1> QED
  BY <1>3, <1>4, <1>6, <1>7 DEF ReadRel, CheckFrom, CheckTo

-----------------------------------------------------------------------------
\* A merge in its transaction: the two tables as it sees them.
LEMMA MergeSees ==
    ASSUME GraphInv, NEW p \in Slots, req[p].op = "merge"
    PROVE  /\ Seen(p, links) = Sight(req[p], links)
           /\ Seen(p, rels) = Sight(req[p], rels)
           /\ Sight(req[p], links) \in [LinkKeys -> Details]
           /\ Sight(req[p], rels) \in [RelKeys -> RelRow]
           /\ \A k \in RelKeys : RelRowOK(Sight(req[p], rels)[k])
           /\ Apart => \A k \in RelKeys :
                 Sight(req[p], rels)[k].status = "active" => Tied(k)
<1>1. Buffered(req[p]) /\ PersonTypeOK /\ (Apart => Knows(req[p]))
  BY DEF GraphInv, Ties
<1>2. Seen(p, links) = Sight(req[p], links) /\ Seen(p, rels) = Sight(req[p], rels)
  BY DEF Seen, Sight
<1>3. Sight(req[p], links) \in [LinkKeys -> Details]
  BY <1>1 DEF Sight, Buffered, PersonTypeOK
<1>4. \A k \in RelKeys : RelRowOK(Sight(req[p], rels)[k])
  BY <1>1 DEF Sight, Buffered, PersonTypeOK, RelRowOK
<1>5. Sight(req[p], rels) \in [RelKeys -> RelRow]
  BY <1>1, <1>4 DEF Sight, PersonTypeOK, RelRowOK
<1>6. ASSUME Apart, NEW k \in RelKeys, Sight(req[p], rels)[k].status = "active"
      PROVE  Tied(k)
  BY <1>1, <1>6 DEF Sight, PersonTypeOK, Knows, GraphInv, Ties
<1> QED
  BY <1>2, <1>3, <1>4, <1>5, <1>6

\* What a transaction sees after it has written some rows more.
LEMMA SightAfter ==
    ASSUME NEW p \in Slots, NEW rows, NEW table, req'[p].tx = Writes(p, rows),
           NEW k \in DOMAIN table
    PROVE  Sight(req'[p], table)[k]
              = IF k \in DOMAIN rows THEN rows[k] ELSE Sight(req[p], table)[k]
  BY DEF Writes, Sight

\* The rows it has written then.
LEMMA WritesRows ==
    ASSUME NEW p \in Slots, NEW rows, req'[p].tx = Writes(p, rows),
           NEW k \in DOMAIN req'[p].tx
    PROVE  \/ k \in DOMAIN rows /\ req'[p].tx[k] = rows[k]
           \/ k \in DOMAIN req[p].tx /\ req'[p].tx[k] = req[p].tx[k]
  BY DEF Writes

\* A merge goes on.
LEMMA MergeOn ==
    ASSUME FlowInv, AccessInv, GraphInv, NEW p \in Slots, Others(p),
           crossed \subseteq crossed', UNCHANGED personVars, req[p].op = "merge",
           req'[p].op = "merge", req'[p].case = req[p].case, req'[p].arg = req[p].arg,
           req'[p].at \notin Checks \cup {"lookup"}, req[p].arg.source # req[p].arg.target,
           Buffered(req'[p]), Apart => Knows(req[p])'
    PROVE  GraphInv'
<1>1. Asked(req[p])
  BY DEF GraphInv
<1>2. Asked(req'[p])
  BY <1>1 DEF Asked
<1> QED
  BY <1>2, GraphStill

\* A merge looks its two persons up, and opens its transaction.
LEMMA MergeReads ==
    ASSUME FlowInv, AccessInv, GraphInv, NEW p \in Slots, Others(p),
           crossed \subseteq crossed',
           CheckSource(p) \/ CheckTarget(p) \/ ReadSourceLinks(p) \/ LinksTaken(p)
    PROVE  GraphInv'
<1>1. UNCHANGED personVars
  BY DEF CheckSource, CheckTarget, ReadSourceLinks, LinksTaken
<1>2. req[p].op = "merge"
      /\ req[p].at \in {"merge_source", "merge_target", "merge_links", "merge_link"}
  BY Standing DEF CheckSource, CheckTarget, ReadSourceLinks, LinksTaken, OnWay, At, Late,
     Checks
<1>3. /\ Asked(req[p]) /\ Buffered(req[p]) /\ (Apart => Knows(req[p]))
      /\ links \in [LinkKeys -> Details]
  BY DEF GraphInv, Ties, PersonTypeOK
<1>4. CASE Refuse(p)
  BY <1>1, <1>4, WaysOut, GraphStill
<1>5. CASE CheckSource(p) /\ ~Refuse(p)
  <2>1. On(p, "merge_target", req[p].saw, req[p].tx) /\ req[p].arg.source # req[p].arg.target
        /\ req[p].at = "merge_source"
    BY <1>5, GotoOn DEF CheckSource, At
  <2>2. /\ req'[p].op = "merge" /\ req'[p].case = req[p].case /\ req'[p].arg = req[p].arg
        /\ req'[p].at = "merge_target" /\ DOMAIN req'[p].tx = {}
    BY <1>2, <1>3, <2>1 DEF On, Keeps, Buffered, InTx
  <2>3. Buffered(req'[p]) /\ Knows(req[p])'
    BY <2>2, CalmGraph DEF InTx
  <2> QED
    BY <1>1, <1>2, <2>1, <2>2, <2>3, MergeOn DEF Checks
<1>6. CASE CheckTarget(p) /\ ~Refuse(p)
  <2>1. On(p, "merge_links", req[p].saw, req[p].tx) /\ req[p].at = "merge_target"
        /\ LinkedIn(req[p].case, req[p].arg.target)
    BY <1>6, GotoOn DEF CheckTarget, At, InCase
  <2>2. /\ req'[p].op = "merge" /\ req'[p].case = req[p].case /\ req'[p].arg = req[p].arg
        /\ req'[p].at = "merge_links" /\ DOMAIN req'[p].tx = {}
        /\ req[p].arg.source # req[p].arg.target
    BY <1>2, <1>3, <2>1 DEF On, Keeps, Buffered, InTx, Asked
  <2>3. Buffered(req'[p]) /\ Knows(req[p])'
    BY <1>1, <2>1, <2>2 DEF Buffered, Knows, InTx, Taking, LinkedIn, personVars
  <2> QED
    BY <1>1, <1>2, <2>2, <2>3, MergeOn DEF Checks
<1>7. CASE ReadSourceLinks(p)
  <2> DEFINE rest == {<<role, links[<<req[p].case, req[p].arg.source, role>>]>> :
                        role \in {t \in RoleTypes :
                          links[<<req[p].case, req[p].arg.source, t>>] # "absent"}}
  <2>1. On(p, "merge_link", [link |-> Nothing, rest |-> rest], req[p].tx)
        /\ req[p].at = "merge_links"
    BY <1>7, LearnOn DEF ReadSourceLinks, At
  <2>2. \A link \in rest : LinkOK(link)
    <3>1. TAKE link \in rest
    <3>2. PICK role \in RoleTypes :
             /\ links[<<req[p].case, req[p].arg.source, role>>] # "absent"
             /\ link = <<role, links[<<req[p].case, req[p].arg.source, role>>]>>
      OBVIOUS
    <3>3. links[<<req[p].case, req[p].arg.source, role>>] \in Details
      BY <1>2, <1>3 DEF LinkKeys, Asked
    <3> QED
      BY <3>2, <3>3 DEF LinkOK
  <2> HIDE DEF rest
  <2>3. /\ req'[p].op = "merge" /\ req'[p].case = req[p].case /\ req'[p].arg = req[p].arg
        /\ req'[p].at = "merge_link" /\ DOMAIN req'[p].tx = {}
        /\ DOMAIN req'[p].saw = {"link", "rest"} /\ req'[p].saw.rest = rest
        /\ req[p].arg.source # req[p].arg.target
    BY <1>2, <1>3, <2>1 DEF On, Keeps, Buffered, InTx, Asked
  <2>4. Buffered(req'[p])
    BY <2>2, <2>3 DEF Buffered, InTx, Taking
  <2>5. Apart => Knows(req[p])'
    BY <1>1, <1>2, <1>3, <2>1, <2>3 DEF Knows, InTx, LinkedIn, personVars
  <2> QED
    BY <1>1, <1>2, <2>3, <2>4, <2>5, MergeOn DEF Checks
<1>8. CASE LinksTaken(p)
  <2>1. On(p, "merge_from", req[p].saw, req[p].tx) /\ req[p].at = "merge_link"
    BY <1>8, GotoOn DEF LinksTaken, At
  <2>2. /\ req'[p].op = "merge" /\ req'[p].case = req[p].case /\ req'[p].arg = req[p].arg
        /\ req'[p].at = "merge_from" /\ req'[p].tx = req[p].tx
        /\ req[p].arg.source # req[p].arg.target
    BY <1>2, <1>3, <2>1 DEF On, Keeps, InTx, Asked
  <2>3. Buffered(req'[p])
    BY <1>2, <1>3, <2>1, <2>2 DEF Buffered, InTx, Taking
  <2>4. Apart => Knows(req[p])'
    BY <1>1, <1>2, <1>3, <2>1, <2>2 DEF Knows, InTx, LinkedIn, personVars, Tied
  <2> QED
    BY <1>1, <1>2, <2>2, <2>3, <2>4, MergeOn DEF Checks
<1> QED
  BY <1>4, <1>5, <1>6, <1>7, <1>8

\* It takes the links over.
LEMMA MergeLinks ==
    ASSUME FlowInv, AccessInv, GraphInv, NEW p \in Slots, Others(p),
           crossed \subseteq crossed', TakeLink(p) \/ FillLink(p)
    PROVE  GraphInv'
<1>1. UNCHANGED personVars
  BY DEF TakeLink, FillLink
<1>2. req[p].op = "merge" /\ req[p].at \in Taking
  BY Standing DEF TakeLink, FillLink, OnWay, At, Late, Checks, Taking
<1>3. /\ Asked(req[p]) /\ Buffered(req[p]) /\ (Apart => Knows(req[p]))
      /\ links \in [LinkKeys -> Details] /\ DOMAIN links = LinkKeys
  BY DEF GraphInv, Ties, PersonTypeOK
<1>4. /\ req[p].arg.source # req[p].arg.target /\ req[p].case \in Cases
      /\ req[p].arg.target \in People /\ DOMAIN req[p].saw = {"link", "rest"}
  BY <1>2, <1>3 DEF Asked, Buffered, InTx, Taking
<1>5. ASSUME NEW role \in RoleTypes, NEW detail \in Details \ {"absent"},
             \/ req'[p].tx = req[p].tx
             \/ req'[p].tx = Writes(p, Row(TargetKey(p, role), detail)),
             req'[p].op = "merge", req'[p].case = req[p].case, req'[p].arg = req[p].arg,
             req'[p].at \in Taking, DOMAIN req'[p].saw = {"link", "rest"},
             req'[p].saw.rest \subseteq req[p].saw.rest,
             req'[p].at = "merge_fill" => LinkOK(req'[p].saw.link)
      PROVE  GraphInv'
  <2> DEFINE key == TargetKey(p, role)
  <2>1. key \in LinkKeys /\ key \notin RelKeys /\ key[1] = req[p].case
        /\ key[2] = req[p].arg.target
    BY <1>4, KeysApart DEF TargetKey, LinkKeys
  <2> HIDE DEF key
  <2>2. /\ DOMAIN req'[p].tx \subseteq DOMAIN req[p].tx \cup {key}
        /\ \A k \in DOMAIN req'[p].tx :
              (k = key /\ req'[p].tx[k] = detail)
                 \/ (k \in DOMAIN req[p].tx /\ req'[p].tx[k] = req[p].tx[k])
    <3>1. PICK rows : rows = Row(key, detail)
      OBVIOUS
    <3>2. DOMAIN rows = {key} /\ rows[key] = detail
      BY <3>1 DEF Row
    <3>3. req'[p].tx = req[p].tx \/ req'[p].tx = Writes(p, rows)
      BY <1>5, <3>1 DEF key
    <3>4. \A k \in DOMAIN req'[p].tx :
             \/ k \in DOMAIN rows /\ req'[p].tx[k] = rows[k]
             \/ k \in DOMAIN req[p].tx /\ req'[p].tx[k] = req[p].tx[k]
      BY <3>3, WritesRows
    <3> QED
      BY <3>2, <3>4
  <2>3. \A k \in DOMAIN req'[p].tx \cap RelKeys : FALSE
    BY <1>2, <1>3, <2>1, <2>2 DEF Buffered
  <2>4. \A k \in DOMAIN req'[p].tx \cap LinkKeys :
           /\ k[1] = req[p].case /\ req'[p].tx[k] \in Details
           /\ k[2] = req[p].arg.target /\ req'[p].tx[k] # "absent"
    BY <1>2, <1>3, <2>1, <2>2 DEF Buffered, Taking
  <2>5. \A link \in req'[p].saw.rest : LinkOK(link)
    BY <1>2, <1>3, <1>5 DEF Buffered
  <2>6. Buffered(req'[p])
    BY <1>5, <2>3, <2>4, <2>5 DEF Buffered, InTx, Taking
  <2>7. Apart => Knows(req[p])'
    BY <1>1, <1>2, <1>3, <1>5, <2>3 DEF Knows, InTx, Taking, LinkedIn, personVars
  <2> QED
    BY <1>1, <1>2, <1>4, <1>5, <2>6, <2>7, MergeOn DEF Checks, Taking
<1>6. DOMAIN req = Slots /\ DOMAIN req[p] = Fields
  BY DEF FlowInv
<1>7. CASE TakeLink(p)
  <2>1. PICK link \in req[p].saw.rest :
           req' = IF Seen(p, links)[TargetKey(p, link[1])] = "absent"
                  THEN [req EXCEPT ![p].saw.rest = @ \ {link},
                          ![p].tx = Writes(p, Row(TargetKey(p, link[1]), link[2]))]
                  ELSE [req EXCEPT ![p].at = "merge_fill", ![p].saw.link = link,
                                   ![p].saw.rest = @ \ {link}]
    BY <1>7 DEF TakeLink
  <2>2. LinkOK(link) /\ link[1] \in RoleTypes /\ link[2] \in Details \ {"absent"}
    BY <1>2, <1>3 DEF Buffered, LinkOK
  <2>3. /\ req'[p].op = "merge" /\ req'[p].case = req[p].case /\ req'[p].arg = req[p].arg
        /\ req'[p].at \in {req[p].at, "merge_fill"}
        /\ DOMAIN req'[p].saw = {"link", "rest"}
        /\ req'[p].saw.rest \subseteq req[p].saw.rest
        /\ \/ req'[p].tx = req[p].tx /\ req'[p].saw.link = link
           \/ /\ req'[p].tx = Writes(p, Row(TargetKey(p, link[1]), link[2]))
              /\ req'[p].at = req[p].at
    BY <1>2, <1>4, <1>6, <2>1 DEF Fields
  <2>4. req[p].at = "merge_link"
    BY <1>7 DEF TakeLink, At
  <2> QED
    BY <1>5, <2>2, <2>3, <2>4 DEF Taking
<1>8. CASE FillLink(p)
  <2>1. req[p].at = "merge_fill" /\ LinkOK(req[p].saw.link)
    BY <1>2, <1>3, <1>8 DEF FillLink, At, Buffered
  <2> DEFINE link == req[p].saw.link
             key  == TargetKey(p, link[1])
             row  == Seen(p, links)[key]
  <2>2. link[1] \in RoleTypes /\ link[2] \in Details \ {"absent"} /\ key \in LinkKeys
    BY <1>4, <2>1 DEF LinkOK, TargetKey, LinkKeys
  <2>3. row \in Details
    BY <1>2, <2>2, MergeSees
  <2>4. req' = [req EXCEPT ![p].at = "merge_link", ![p].saw.link = Nothing,
                  ![p].tx = IF row = "absent" THEN @
                            ELSE Writes(p, Row(key, Filled(row, link[2])))]
    BY <1>8 DEF FillLink
  <2> HIDE DEF row
  <2>5. row # "absent" => Filled(row, link[2]) \in Details \ {"absent"}
    BY <2>2, <2>3 DEF Filled
  <2>6. /\ req'[p].op = "merge" /\ req'[p].case = req[p].case /\ req'[p].arg = req[p].arg
        /\ req'[p].at = "merge_link" /\ DOMAIN req'[p].saw = {"link", "rest"}
        /\ req'[p].saw.rest = req[p].saw.rest
        /\ req'[p].tx = IF row = "absent" THEN req[p].tx
                        ELSE Writes(p, Row(key, Filled(row, link[2])))
    BY <1>2, <1>4, <1>6, <2>4 DEF Fields
  <2>7. CASE row = "absent"
    BY <1>5, <2>2, <2>6, <2>7 DEF Taking
  <2>8. CASE row # "absent"
    BY <1>5, <2>2, <2>5, <2>6, <2>8 DEF Taking
  <2> QED
    BY <2>7, <2>8
<1> QED
  BY <1>7, <1>8

-----------------------------------------------------------------------------
\* A relationship with another person at one of its ends.
LEMMA Renaming ==
    ASSUME NEW k \in RelKeys, NEW x
    PROVE  /\ Renamed(k, 2, x) = <<k[1], x, k[3]>>
           /\ Renamed(k, 3, x) = <<k[1], k[2], x>>
           /\ k = <<k[1], k[2], k[3]>>
  BY DEF Renamed, RelKeys

\* What MoveFrom and MoveTo write: a row that goes, or the row that took the
\* place of one that went.
LEMMA Moving ==
    ASSUME GraphInv, NEW p \in Slots, req[p].op = "merge", NEW end \in {2, 3},
           Allowed(p, end)
    PROVE  /\ DOMAIN MovedRows(p, end) = Movable(p, end) \cup Destinations(p, end)
           /\ \A k \in Movable(p, end) :
                 /\ k \in RelKeys /\ k[1] = req[p].case /\ k[end] = req[p].arg.source
                 /\ Sight(req[p], rels)[k].status = "active"
                 /\ Renamed(k, end, req[p].arg.target) \in Destinations(p, end)
                 /\ MovedRows(p, end)[Renamed(k, end, req[p].arg.target)]
                       = Sight(req[p], rels)[k]
           /\ \A k \in Destinations(p, end) :
                 /\ k \in RelKeys /\ Sight(req[p], rels)[k] = NoRel
                 /\ \E j \in Movable(p, end) : k = Renamed(j, end, req[p].arg.target)
           /\ \A k \in Movable(p, end) \ Destinations(p, end) :
                 MovedRows(p, end)[k] = NoRel
<1> DEFINE t     == req[p].arg.target
           s     == req[p].arg.source
           table == Sight(req[p], rels)
           rows  == MovedRows(p, end)
<1>1. Seen(p, rels) = table
  BY MergeSees
<1>2. \A k \in Movable(p, end) :
         k \in RelKeys /\ k[1] = req[p].case /\ k[end] = s /\ table[k].status = "active"
  BY <1>1 DEF Movable
<1>3. \A k \in Destinations(p, end) :
         /\ k \in RelKeys /\ table[k] = NoRel
         /\ \E j \in Movable(p, end) : k = Renamed(j, end, t)
  BY <1>1 DEF Destinations, Allowed
<1>4. rows = [k \in Movable(p, end) \cup Destinations(p, end) |->
                IF k \in Destinations(p, end) THEN table[Renamed(k, end, s)] ELSE NoRel]
  BY <1>1 DEF MovedRows
<1>5. ASSUME NEW k \in Movable(p, end)
      PROVE  /\ Renamed(k, end, t) \in Destinations(p, end)
             /\ rows[Renamed(k, end, t)] = table[k]
  <2>1. Renamed(k, end, t) \in Destinations(p, end)
    BY DEF Destinations
  <2>2. k \in RelKeys /\ k[end] = s /\ Renamed(k, end, t) \in RelKeys
    BY <1>2, <1>3, <2>1
  <2>3. Renamed(Renamed(k, end, t), end, s) = k
    <3>1. PICK key : key = Renamed(k, end, t)
      OBVIOUS
    <3>2. CASE end = 2
      <4>1. key = <<k[1], t, k[3]>> /\ key \in RelKeys /\ k = <<k[1], s, k[3]>>
        BY <2>2, <3>1, <3>2, Renaming
      <4>2. Renamed(key, 2, s) = <<key[1], s, key[3]>> /\ key[1] = k[1] /\ key[3] = k[3]
        BY <4>1, Renaming
      <4> QED
        BY <3>1, <3>2, <4>1, <4>2
    <3>3. CASE end = 3
      <4>1. key = <<k[1], k[2], t>> /\ key \in RelKeys /\ k = <<k[1], k[2], s>>
        BY <2>2, <3>1, <3>3, Renaming
      <4>2. Renamed(key, 3, s) = <<key[1], key[2], s>> /\ key[1] = k[1] /\ key[2] = k[2]
        BY <4>1, Renaming
      <4> QED
        BY <3>1, <3>3, <4>1, <4>2
    <3> QED
      BY <3>2, <3>3
  <2> QED
    BY <1>4, <2>1, <2>3
<1> HIDE DEF t, s, table, rows
<1>6. DOMAIN rows = Movable(p, end) \cup Destinations(p, end)
      /\ \A k \in Movable(p, end) \ Destinations(p, end) : rows[k] = NoRel
  BY <1>4
<1> QED
  BY <1>2, <1>3, <1>5, <1>6 DEF t, s, table, rows

\* A row that moves remains a row, between persons of the case.
LEMMA MovedTied ==
    ASSUME GraphInv, NEW p \in Slots, req[p].op = "merge", NEW end \in {2, 3},
           Allowed(p, end), req[p].at \in InTx, NEW k \in DOMAIN MovedRows(p, end)
    PROVE  /\ k \in RelKeys /\ RelRowOK(MovedRows(p, end)[k]) /\ k[1] = req[p].case
           /\ {k[2], k[3]} \cap {req[p].arg.source, req[p].arg.target} # {}
           /\ Apart /\ MovedRows(p, end)[k].status = "active" => Tied(k)
<1>1. RelRowOK(NoRel) /\ NoRel.status = "absent"
  BY DEF NoRel, RelRowOK, RelRow
<1>2. Asked(req[p]) /\ (Apart => Knows(req[p]))
  BY DEF GraphInv, Ties
<1>3. CASE k \in Destinations(p, end)
  <2>1. PICK j \in Movable(p, end) : k = Renamed(j, end, req[p].arg.target)
    BY <1>3, Moving
  <2>2. /\ j \in RelKeys /\ k \in RelKeys /\ j[1] = req[p].case
        /\ Sight(req[p], rels)[j].status = "active"
        /\ MovedRows(p, end)[k] = Sight(req[p], rels)[j]
    BY <1>3, <2>1, Moving
  <2>3. RelRowOK(MovedRows(p, end)[k])
    BY <2>2, MergeSees
  <2>4. \/ k = <<j[1], req[p].arg.target, j[3]>>
        \/ k = <<j[1], j[2], req[p].arg.target>>
    BY <2>1, <2>2, Renaming
  <2>5. \/ k[1] = j[1] /\ k[2] = req[p].arg.target /\ k[3] = j[3]
        \/ k[1] = j[1] /\ k[2] = j[2] /\ k[3] = req[p].arg.target
    BY <2>4
  <2>6. Apart => Tied(j) /\ LinkedIn(req[p].case, req[p].arg.target)
    BY <1>2, <2>2, MergeSees DEF Knows
  <2>7. Apart => Tied(k)
    BY <2>2, <2>5, <2>6 DEF Tied
  <2> QED
    BY <2>2, <2>3, <2>5, <2>7
<1>4. CASE k \notin Destinations(p, end)
  <2>1. k \in Movable(p, end)
    BY <1>4, Moving
  <2>3. MovedRows(p, end)[k] = NoRel
    BY <1>4, <2>1 DEF MovedRows
  <2>2. k \in RelKeys /\ k[1] = req[p].case /\ k[end] = req[p].arg.source
    BY <2>1, Moving
  <2> QED
    BY <1>1, <2>2, <2>3
<1> QED
  BY <1>3, <1>4

\* A merge writes rows of relationships of its own persons.
LEMMA RowsWritten ==
    ASSUME FlowInv, AccessInv, GraphInv, NEW p \in Slots, Others(p),
           crossed \subseteq crossed', UNCHANGED personVars, req[p].op = "merge",
           req[p].at \in {"merge_from", "merge_to", "merge_drop"},
           NEW place \in {"merge_to", "merge_drop", "merge_unlink"}, NEW rows,
           Buffer(p, place, rows),
           \A k \in DOMAIN rows :
              /\ k \in RelKeys /\ RelRowOK(rows[k]) /\ k[1] = req[p].case
              /\ {k[2], k[3]} \cap {req[p].arg.source, req[p].arg.target} # {}
              /\ Apart /\ rows[k].status = "active" => Tied(k),
           Apart /\ place = "merge_unlink" => \A k \in RelKeys :
              k[1] = req[p].case /\ req[p].arg.source \in {k[2], k[3]}
                 => Sight(req'[p], rels)[k].status # "active"
    PROVE  GraphInv'
<1>1. /\ Asked(req[p]) /\ Buffered(req[p]) /\ (Apart => Knows(req[p]))
      /\ req[p].at \in InTx
  BY DEF GraphInv, Ties, InTx
<1>2. /\ req'[p].op = "merge" /\ req'[p].case = req[p].case /\ req'[p].arg = req[p].arg
      /\ req'[p].at = place /\ req'[p].tx = Writes(p, rows)
      /\ req[p].arg.source # req[p].arg.target
  BY <1>1, BufferOn DEF On, Keeps, Asked
<1>3. \A k \in DOMAIN req'[p].tx :
         \/ k \in DOMAIN rows /\ req'[p].tx[k] = rows[k]
         \/ k \in DOMAIN req[p].tx /\ req'[p].tx[k] = req[p].tx[k]
  BY <1>2, WritesRows
<1>4. \A k \in DOMAIN req'[p].tx \cap LinkKeys :
         k \in DOMAIN req[p].tx /\ req'[p].tx[k] = req[p].tx[k]
  BY <1>3, KeysApart
<1>5. Buffered(req'[p])
  <2>1. \A k \in DOMAIN req'[p].tx \cap LinkKeys :
           /\ k[1] = req[p].case /\ req'[p].tx[k] \in Details
           /\ k[2] = req[p].arg.target /\ req'[p].tx[k] # "absent"
    BY <1>1, <1>4 DEF Buffered
  <2>2. \A k \in DOMAIN req'[p].tx \cap RelKeys :
           /\ k[1] = req[p].case /\ RelRowOK(req'[p].tx[k])
           /\ {k[2], k[3]} \cap {req[p].arg.source, req[p].arg.target} # {}
    BY <1>1, <1>3 DEF Buffered
  <2> QED
    BY <1>2, <2>1, <2>2 DEF Buffered, InTx, Taking
<1>6. ASSUME Apart PROVE Knows(req[p])'
  <2>1. UNCHANGED <<links, rels>>
    BY DEF personVars
  <2>2. \A k \in DOMAIN req'[p].tx \cap RelKeys : req'[p].tx[k].status = "active" => Tied(k)'
    BY <1>1, <1>3, <1>6, <2>1 DEF Knows, Tied, LinkedIn
  <2>3. LinkedIn(req[p].case, req[p].arg.target)'
    BY <1>1, <1>2, <1>6, <2>1 DEF Knows, LinkedIn
  <2>4. place = "merge_unlink" => \A k \in RelKeys :
           k[1] = req[p].case /\ req[p].arg.source \in {k[2], k[3]}
              => Sight(req'[p], rels')[k].status # "active"
    BY <1>6, <2>1
  <2> QED
    BY <1>2, <2>2, <2>3, <2>4 DEF Knows, LinkedIn
<1> QED
  BY <1>1, <1>2, <1>5, <1>6, MergeOn DEF Checks

\* It takes the relationships over, and drops what it cannot take.
LEMMA MergeRels ==
    ASSUME FlowInv, AccessInv, GraphInv, NEW p \in Slots, Others(p),
           crossed \subseteq crossed', MoveFrom(p) \/ MoveTo(p) \/ DropDuplicates(p)
    PROVE  GraphInv'
<1>1. UNCHANGED personVars
  BY DEF MoveFrom, MoveTo, Repoint, DropDuplicates
<1>2. req[p].op = "merge" /\ req[p].at \in {"merge_from", "merge_to", "merge_drop"}
  BY Standing DEF MoveFrom, MoveTo, Repoint, DropDuplicates, OnWay, At, Late, Checks
<1>3. CASE Refuse(p)
  BY <1>1, <1>3, WaysOut, GraphStill
<1>4. ASSUME NEW end \in {2, 3}, NEW place \in {"merge_to", "merge_drop"},
             Allowed(p, end), Buffer(p, place, MovedRows(p, end))
      PROVE  GraphInv'
  <2>1. req[p].at \in InTx
    BY <1>2 DEF InTx
  <2>2. PICK rows : rows = MovedRows(p, end)
    OBVIOUS
  <2>3. \A k \in DOMAIN rows :
              /\ k \in RelKeys /\ RelRowOK(rows[k]) /\ k[1] = req[p].case
              /\ {k[2], k[3]} \cap {req[p].arg.source, req[p].arg.target} # {}
              /\ Apart /\ rows[k].status = "active" => Tied(k)
    BY <1>2, <1>4, <2>1, <2>2, MovedTied
  <2> QED
    BY <1>1, <1>2, <1>4, <2>2, <2>3, RowsWritten
<1>5. CASE DropDuplicates(p)
  <2> DEFINE rows == [k \in OfSource(p) |-> [Seen(p, rels)[k] EXCEPT !.status = "deleted"]]
  <2>1. Buffer(p, "merge_unlink", rows) /\ req'[p].tx = Writes(p, rows)
    BY <1>5, BufferOn DEF DropDuplicates, On
  <2>2. OfSource(p) = {k \in RelKeys : /\ k[1] = req[p].case
                                       /\ req[p].arg.source \in {k[2], k[3]}
                                       /\ Sight(req[p], rels)[k].status = "active"}
    BY <1>2, MergeSees DEF OfSource
  <2>3. ASSUME NEW k \in OfSource(p)
        PROVE  RelRowOK(rows[k]) /\ rows[k].status = "deleted"
    <3>1. RelRowOK(Seen(p, rels)[k]) /\ Seen(p, rels)[k].status = "active"
      BY <1>2, <2>2, MergeSees
    <3> QED
      BY <3>1 DEF RelRowOK, RelRow
  <2>4. DOMAIN rows = OfSource(p)
    OBVIOUS
  <2> HIDE DEF rows
  <2>5. ASSUME NEW k \in RelKeys, k[1] = req[p].case, req[p].arg.source \in {k[2], k[3]}
        PROVE  Sight(req'[p], rels)[k].status # "active"
    <3>1. k \in DOMAIN rels
      BY DEF GraphInv, PersonTypeOK
    <3>2. Sight(req'[p], rels)[k]
             = IF k \in DOMAIN rows THEN rows[k] ELSE Sight(req[p], rels)[k]
      BY <2>1, <3>1, SightAfter
    <3> QED
      BY <2>2, <2>3, <2>4, <2>5, <3>2
  <2>6. \A k \in DOMAIN rows :
              /\ k \in RelKeys /\ RelRowOK(rows[k]) /\ k[1] = req[p].case
              /\ {k[2], k[3]} \cap {req[p].arg.source, req[p].arg.target} # {}
              /\ Apart /\ rows[k].status = "active" => Tied(k)
    BY <2>2, <2>3, <2>4
  <2> QED
    BY <1>1, <1>2, <2>1, <2>5, <2>6, RowsWritten
<1> QED
  BY <1>3, <1>4, <1>5 DEF MoveFrom, MoveTo, Repoint

\* It unlinks the source.
LEMMA MergeUnlinks ==
    ASSUME FlowInv, AccessInv, GraphInv, NEW p \in Slots, Others(p),
           crossed \subseteq crossed', UnlinkSource(p)
    PROVE  GraphInv'
<1>1. UNCHANGED personVars
  BY DEF UnlinkSource
<1>2. req[p].op = "merge" /\ req[p].at = "merge_unlink"
  BY Standing DEF UnlinkSource, OnWay, At, Late, Checks
<1>3. Asked(req[p]) /\ Buffered(req[p]) /\ (Apart => Knows(req[p]))
  BY DEF GraphInv, Ties
<1> DEFINE rows == [k \in SourceLinks(p) |-> "absent"]
<1>4. Buffer(p, "merge_commit", rows)
  BY DEF UnlinkSource
<1>5. /\ DOMAIN rows = SourceLinks(p) /\ \A k \in SourceLinks(p) : rows[k] = "absent"
      /\ \A k \in SourceLinks(p) : /\ k \in LinkKeys /\ k[1] = req[p].case
                                   /\ k[2] = req[p].arg.source
  BY DEF SourceLinks
<1> HIDE DEF rows
<1>6. /\ req'[p].op = "merge" /\ req'[p].case = req[p].case /\ req'[p].arg = req[p].arg
      /\ req'[p].at = "merge_commit" /\ req'[p].tx = Writes(p, rows)
      /\ req[p].arg.source # req[p].arg.target
  BY <1>2, <1>3, <1>4, BufferOn DEF On, Keeps, Asked, InTx
<1>7. \A k \in DOMAIN req'[p].tx :
         \/ k \in SourceLinks(p) /\ req'[p].tx[k] = "absent"
         \/ k \in DOMAIN req[p].tx /\ req'[p].tx[k] = req[p].tx[k]
  BY <1>5, <1>6, WritesRows
<1>8. \A k \in DOMAIN req'[p].tx \cap RelKeys :
         k \in DOMAIN req[p].tx /\ req'[p].tx[k] = req[p].tx[k]
  BY <1>5, <1>7, KeysApart
<1>9. Buffered(req'[p])
  <2>1. \A k \in DOMAIN req'[p].tx \cap LinkKeys :
           /\ k[1] = req[p].case /\ req'[p].tx[k] \in Details
           /\ \/ k[2] = req[p].arg.target /\ req'[p].tx[k] # "absent"
              \/ k[2] = req[p].arg.source
    BY <1>2, <1>3, <1>5, <1>7 DEF Buffered, Details
  <2>2. \A k \in DOMAIN req'[p].tx \cap RelKeys :
           /\ k[1] = req[p].case /\ RelRowOK(req'[p].tx[k])
           /\ {k[2], k[3]} \cap {req[p].arg.source, req[p].arg.target} # {}
    BY <1>2, <1>3, <1>8 DEF Buffered
  <2> QED
    BY <1>6, <2>1, <2>2 DEF Buffered, InTx, Taking
<1>10. ASSUME Apart PROVE Knows(req[p])'
  <2>1. UNCHANGED <<links, rels>> /\ DOMAIN rels = RelKeys
    BY <1>1 DEF personVars, GraphInv, PersonTypeOK
  <2>2. \A k \in DOMAIN req'[p].tx \cap RelKeys : req'[p].tx[k].status = "active" => Tied(k)'
    BY <1>2, <1>3, <1>8, <1>10, <2>1 DEF Knows, Tied, LinkedIn
  <2>3. LinkedIn(req[p].case, req[p].arg.target)'
    BY <1>2, <1>3, <1>6, <1>10, <2>1 DEF Knows, LinkedIn, InTx
  <2>4. ASSUME NEW k \in RelKeys
        PROVE  Sight(req'[p], rels')[k] = Sight(req[p], rels)[k]
    <3>1. k \notin DOMAIN rows
      BY <1>5, KeysApart
    <3> QED
      BY <1>6, <2>1, <3>1, SightAfter
  <2> QED
    BY <1>2, <1>3, <1>6, <1>10, <2>2, <2>3, <2>4 DEF Knows, LinkedIn
<1> QED
  BY <1>1, <1>2, <1>6, <1>9, <1>10, MergeOn DEF Checks

\* Its writes take effect together.
LEMMA MergeCommits ==
    ASSUME FlowInv, AccessInv, GraphInv, NEW p \in Slots, Others(p),
           crossed \subseteq crossed', MergeCommit(p)
    PROVE  GraphInv'
<1>1. req[p].op = "merge" /\ req[p].at = "merge_commit" /\ persons' = persons
  BY Standing DEF MergeCommit, OnWay, At, Late, Checks
<1>2. Asked(req[p]) /\ Buffered(req[p]) /\ (Apart => Knows(req[p])) /\ PersonTypeOK
  BY DEF GraphInv, Ties
<1>3. links' = Sight(req[p], links) /\ rels' = Sight(req[p], rels)
  BY <1>1, MergeSees DEF MergeCommit
<1>4. PersonTypeOK'
  BY <1>1, <1>2, <1>3, MergeSees DEF PersonTypeOK, RelRowOK
<1>5. /\ \A k \in LinkKeys : links'[k] # links[k] => k \in DOMAIN req[p].tx
      /\ \A k \in RelKeys : rels'[k] # rels[k] => k \in DOMAIN req[p].tx
  BY <1>2, <1>3 DEF Sight, PersonTypeOK
<1>6. Alters(p)
  BY <1>1, <1>2, <1>5 DEF Alters, Buffered
<1>7. Asked(req'[p]) /\ Buffered(req'[p]) /\ Knows(req[p])'
  BY WaysOut DEF MergeCommit
<1>8. ASSUME Apart', NEW k \in RelKeys, rels'[k].status = "active" PROVE Tied(k)'
  <2>1. Apart
    BY <1>8 DEF Apart, MergeOverlaps
  <2>2. Tied(k)
    BY <1>1, <1>3, <1>8, <2>1, MergeSees
  <2>3. k[1] = req[p].case => req[p].arg.source \notin {k[2], k[3]}
    BY <1>1, <1>2, <1>3, <1>8, <2>1 DEF Knows
  <2>4. ASSUME NEW x \in People, k[1] = req[p].case => x # req[p].arg.source,
               LinkedIn(k[1], x)
        PROVE  LinkedIn(k[1], x)'
    <3>1. k[1] \in Cases
      BY DEF RelKeys
    <3>2. ASSUME NEW role \in RoleTypes, links[<<k[1], x, role>>] # "absent"
          PROVE  links'[<<k[1], x, role>>] # "absent"
      <4>1. <<k[1], x, role>> \in LinkKeys
        BY <3>1 DEF LinkKeys
      <4> DEFINE key == <<k[1], x, role>>
      <4>2. key[1] = k[1] /\ key[2] = x
        OBVIOUS
      <4>3. CASE key \in DOMAIN req[p].tx
        <5>1. key[2] = req[p].arg.target /\ req[p].tx[key] # "absent"
          BY <1>1, <1>2, <2>4, <4>1, <4>2, <4>3 DEF Buffered
        <5> QED
          BY <1>2, <1>3, <4>1, <4>3, <5>1 DEF Sight, PersonTypeOK
      <4>4. CASE key \notin DOMAIN req[p].tx
        BY <1>5, <3>2, <4>1, <4>4
      <4> QED
        BY <4>3, <4>4
    <3>3. PICK c \in Cases : c = k[1]
      BY <3>1
    <3> QED
      BY <2>4, <3>2, <3>3, LinkedStays
  <2>5. k[2] \in People /\ k[3] \in People
    BY DEF RelKeys
  <2> QED
    BY <2>2, <2>3, <2>4, <2>5 DEF Tied
<1> QED
  BY <1>4, <1>6, <1>7, <1>8, GraphKept

-----------------------------------------------------------------------------
\* The handlers of the persons keep the graph.
LEMMA PersonsGraph ==
    ASSUME FlowInv, AccessInv, GraphInv, NEW p \in Slots, PersonStep(p)
    PROVE  GraphInv'
<1>1. Others(p) /\ crossed \subseteq crossed'
  BY PersonTurn DEF Turn
<1>2. CASE \/ SendCreatePerson(p) \/ SendUpdatePerson(p) \/ SendDeletePerson(p)
           \/ SendLinkCase(p) \/ SendCreateRel(p) \/ SendDeleteRel(p) \/ SendMerge(p)
  BY <1>1, <1>2, PersonSends
<1>3. CASE \/ InsertPerson(p) \/ FetchPerson(p) \/ PrimaryWritable(p)
           \/ WritePerson(p) \/ RefetchPerson(p) \/ DeletePerson(p)
  BY <1>1, <1>3, PersonRows
<1>4. CASE InsertPersonLink(p) \/ InsertLink(p)
  BY <1>1, <1>4, PersonLinks
<1>5. CASE CheckFrom(p) \/ CheckTo(p) \/ ReadRel(p)
  BY <1>1, <1>5, RelReads
<1>6. CASE InsertRel(p) \/ DeleteRel(p)
  BY <1>1, <1>6, RelCreated, RelDeleted
<1>7. CASE CheckSource(p) \/ CheckTarget(p) \/ ReadSourceLinks(p) \/ LinksTaken(p)
  BY <1>1, <1>7, MergeReads
<1>8. CASE TakeLink(p) \/ FillLink(p)
  BY <1>1, <1>8, MergeLinks
<1>9. CASE MoveFrom(p) \/ MoveTo(p) \/ DropDuplicates(p)
  BY <1>1, <1>9, MergeRels
<1>10. CASE UnlinkSource(p) \/ MergeCommit(p)
  BY <1>1, <1>10, MergeUnlinks, MergeCommits
<1>11. CASE MergeDeadlock(p)
  BY <1>1, <1>11, WaysOut, GraphStill DEF MergeDeadlock
<1> QED
  BY <1>2, <1>3, <1>4, <1>5, <1>6, <1>7, <1>8, <1>9, <1>10, <1>11 DEF PersonStep

\* The middleware and the checks.
LEMMA RequestGraph ==
    ASSUME FlowInv, AccessInv, GraphInv, NEW p \in Slots, RequestStep(p),
           UNCHANGED personVars
    PROVE  GraphInv'
<1>1. CASE LookupMiss(p) \/ LookupFails(p)
  BY <1>1, EntryGraph
<1>2. CASE CheckCase(p) \/ CheckMember(p)
  BY <1>2, ChecksGraph
<1>3. CASE Replay(p) \/ Record(p) \/ RecordFails(p) \/ CutShort(p)
  <2>1. req'[p] = Idle /\ Others(p) /\ crossed \subseteq crossed'
    BY <1>3 DEF Replay, Record, RecordFails, CutShort, bounds, FlowInv, Fields, Others
  <2> QED
    BY <2>1, LeavesGraph, GraphStill
<1> QED
  BY <1>1, <1>2, <1>3 DEF RequestStep

\* What a step that no request takes leaves as it is.
LEMMA CalmStep ==
    ASSUME UNCHANGED <<req, crossed, personVars>>, GraphInv
    PROVE  GraphInv'
<1>1. UNCHANGED <<req, crossed, links, rels, persons>>
  BY DEF personVars
<1>2. PersonTypeOK' /\ \A p \in Slots : Asked(req'[p]) /\ Buffered(req'[p])
  BY <1>1 DEF GraphInv, PersonTypeOK
<1>3. Ties'
  <2>1. Apart' <=> Apart
    BY <1>1 DEF Apart, MergeOverlaps
  <2>2. \A k \in RelKeys : Tied(k)' <=> Tied(k)
    BY <1>1 DEF Tied, LinkedIn
  <2>3. \A p \in Slots : Knows(req[p]) => Knows(req[p])'
    BY <1>1 DEF Tied, LinkedIn, Knows, Sight
  <2> QED
    BY <1>1, <2>1, <2>2, <2>3 DEF GraphInv, Ties
<1> QED
  BY <1>2, <1>3 DEF GraphInv

\* The graph is in order at the beginning,
LEMMA GraphInit == WorkInit => GraphInv
<1> SUFFICES ASSUME WorkInit PROVE GraphInv
  OBVIOUS
<1>1. \A p \in Slots : req[p] = Idle
  BY DEF WorkInit, RequestInit
<1>2. menu \in Menus
  BY DEF WorkInit, RequestInit
<1>3. PICK seed \in PersonSeeds[menu.about] :
         persons = seed.persons /\ links = seed.links /\ rels = seed.rels
  BY DEF WorkInit, PersonInit
<1>4. /\ seed.persons \in [People -> PersonRow]
      /\ seed.links \in [LinkKeys -> Details]
      /\ seed.rels \in [RelKeys -> RelRow]
      /\ \A k \in RelKeys :
            /\ (seed.rels[k].id = 0) = (seed.rels[k].status = "absent")
            /\ seed.rels[k].status = "active" => \A i \in {2, 3} :
                  \E role \in RoleTypes : seed.links[<<k[1], k[i], role>>] # "absent"
  BY <1>2, <1>3, PersonsAssumption
<1>5. PersonTypeOK
  BY <1>3, <1>4 DEF PersonTypeOK
<1>6. \A k \in RelKeys : rels[k].status = "active" => Tied(k)
  BY <1>3, <1>4 DEF Tied, LinkedIn
<1>7. ASSUME NEW p \in Slots PROVE Asked(req[p]) /\ Buffered(req[p]) /\ Knows(req[p])
  BY <1>1 DEF Idle, Asked, Buffered, Knows
<1> QED
  BY <1>5, <1>6, <1>7 DEF GraphInv, Ties

\* and every step keeps it so.
LEMMA GraphNext ==
    FlowInv /\ AccessInv /\ GraphInv /\ [Next]_vars => GraphInv'
<1> SUFFICES ASSUME FlowInv, AccessInv, GraphInv, [Next]_vars
             PROVE  GraphInv'
  OBVIOUS
<1>1. ASSUME NEW p \in Slots, RequestStep(p) \/ CaseStep(p), UNCHANGED personVars
      PROVE  GraphInv'
  BY <1>1, RequestGraph, CaseTurn, ForeignGraph DEF CaseOps, PersonOps
<1>2. ASSUME NEW p \in Slots, PersonStep(p)
      PROVE  GraphInv'
  BY <1>2, PersonsGraph
<1>3. ASSUME NEW p \in Slots, TimelineStep(p)
      PROVE  GraphInv'
  <2>1. UNCHANGED personVars
    BY <1>3 DEF TimelineStep
  <2> QED
    BY <1>3, <2>1, TimelineTurn, ForeignGraph DEF TimelineOps, PersonOps
<1>4. ASSUME NEW p \in Slots, AgentStep(p)
      PROVE  GraphInv'
  <2>1. UNCHANGED personVars
    BY <1>4 DEF AgentStep
  <2> QED
    BY <1>4, <2>1, AgentTurn, ForeignGraph DEF AgentOps, PersonOps
<1>5. ASSUME NEW p \in Slots, AccountStep(p), UNCHANGED personVars
      PROVE  GraphInv'
  BY <1>5, AccountTurn, ForeignGraph DEF AccountOps, PersonOps
<1>6. ASSUME UNCHANGED <<req, crossed, personVars>>
      PROVE  GraphInv'
  BY <1>6, CalmStep
<1>7. WindowStep /\ UNCHANGED personVars => UNCHANGED <<req, crossed, personVars>>
  BY DEF WindowStep, WindowEnds, requestVars
<1>8. AllServed \/ UNCHANGED vars => UNCHANGED <<req, crossed, personVars>>
  BY DEF AllServed, vars, requestVars
<1> QED
  BY <1>1, <1>2, <1>3, <1>4, <1>5, <1>6, <1>7, <1>8 DEF Next

(***************************************************************************)
(* Both ends of a relationship that list_relationships shows are persons   *)
(* that the case shows, unless a merge overlapped another merge or the     *)
(* creation of a relationship.                                             *)
(***************************************************************************)
THEOREM GraphsAreClosed == Spec => []GraphClosed
<1>1. WorkInit => FlowInv /\ AccessInv /\ GraphInv
  BY FlowInit, AccessInit, GraphInit
<1>2. FlowInv /\ AccessInv /\ GraphInv /\ [Next]_vars
         => FlowInv' /\ AccessInv' /\ GraphInv'
  BY FlowStep, AccessNext, GraphNext
<1>3. GraphInv => GraphClosed
  <2>1. SUFFICES ASSUME GraphInv, Apart, NEW c \in Cases, NEW k \in ListRelationships(c)
                 PROVE  {k[2], k[3]} \subseteq ListPersons(c)
    BY DEF GraphClosed, Apart
  <2>2. /\ k \in RelKeys /\ k[1] = c /\ rels[k].status = "active"
        /\ persons[k[2]].status = "active" /\ persons[k[3]].status = "active"
    BY DEF ListRelationships, GraphEdges
  <2>3. k[2] \in People /\ k[3] \in People /\ Tied(k)
    BY <2>1, <2>2 DEF RelKeys, GraphInv, Ties
  <2> QED
    BY <2>2, <2>3 DEF ListPersons, InCase, Tied
<1> QED
  BY <1>1, <1>2, <1>3, PTL DEF Spec

-----------------------------------------------------------------------------
\* What the handlers of the persons do to the links and the relationships.
LEMMA PersonAlters ==
    ASSUME FlowInv, GraphInv, NEW p \in Slots, PersonStep(p)
    PROVE  Alters(p)
<1>1. CASE UNCHANGED <<links, rels>>
  BY <1>1 DEF Alters
<1>2. CASE InsertPersonLink(p) \/ InsertLink(p)
  <2>1. req[p].op \in {"create_person", "link_case"} /\ rels' = rels
    BY <1>2, Standing DEF InsertPersonLink, InsertLink, OnWay, At, Late, Checks
  <2>2. PICK key : /\ links' \in {links, [links EXCEPT ![key] = "full"]}
                   /\ key[1] = req[p].case
    BY <1>2 DEF InsertPersonLink, InsertLink
  <2>3. \A k \in LinkKeys : links'[k] # links[k] =>
           k[1] = req[p].case /\ links'[k] # "absent"
    BY <2>2 DEF GraphInv, PersonTypeOK
  <2> QED
    BY <2>1, <2>3 DEF Alters
<1>3. CASE InsertRel(p)
  <2> DEFINE key == <<req[p].case, req[p].arg.from, req[p].arg.to>>
  <2>1. req[p].op = "create_rel" /\ links' = links
    BY <1>3, Standing DEF InsertRel, OnWay, At, Late, Checks
  <2>2. rels' = rels \/ \E row : rels' = [rels EXCEPT ![key] = row]
    BY <1>3 DEF InsertRel
  <2>3. key[1] = req[p].case
    OBVIOUS
  <2> HIDE DEF key
  <2>4. \A k \in RelKeys : rels'[k] # rels[k] => k[1] = req[p].case
    BY <2>2, <2>3 DEF GraphInv, PersonTypeOK
  <2> QED
    BY <2>1, <2>4 DEF Alters
<1>4. CASE DeleteRel(p)
  <2>1. req[p].op = "delete_rel" /\ links' = links
    BY <1>4, Standing DEF DeleteRel, OnWay, At, Late, Checks
  <2>2. rels' = [k \in RelKeys |-> IF k \in KeysOf(req[p].case, req[p].arg.id)
                                   THEN [rels[k] EXCEPT !.status = "deleted"] ELSE rels[k]]
    BY <1>4 DEF DeleteRel
  <2>3. \A k \in RelKeys : rels[k] \in RelRow
    BY DEF GraphInv, PersonTypeOK
  <2>4. \A k \in RelKeys : rels'[k] # rels[k]
           => k[1] = req[p].case /\ rels'[k].status = "deleted"
    BY <2>2, <2>3 DEF KeysOf, RelRow
  <2> QED
    BY <2>1, <2>4 DEF Alters
<1>5. CASE MergeCommit(p)
  <2>1. req[p].op = "merge" /\ Buffered(req[p])
    BY <1>5, Standing DEF MergeCommit, OnWay, At, Late, Checks, GraphInv
  <2>2. links' = Sight(req[p], links) /\ rels' = Sight(req[p], rels)
    BY <1>5, <2>1, MergeSees DEF MergeCommit
  <2>3. /\ \A k \in LinkKeys : links'[k] # links[k] => k \in DOMAIN req[p].tx
        /\ \A k \in RelKeys : rels'[k] # rels[k] => k \in DOMAIN req[p].tx
    BY <2>2 DEF Sight, GraphInv, PersonTypeOK
  <2> QED
    BY <2>1, <2>3 DEF Alters, Buffered
<1> QED
  BY <1>1, <1>2, <1>3, <1>4, <1>5 DEF PersonStep, SendCreatePerson, InsertPerson,
     SendUpdatePerson, SendDeletePerson, FetchPerson, PrimaryWritable, WritePerson,
     RefetchPerson, DeletePerson, SendLinkCase, SendCreateRel, CheckFrom, CheckTo,
     SendDeleteRel, ReadRel, SendMerge, CheckSource, CheckTarget, ReadSourceLinks,
     TakeLink, FillLink, LinksTaken, MoveFrom, MoveTo, Repoint, DropDuplicates,
     UnlinkSource, MergeDeadlock, personVars

\* A merge in its transaction, and what is so of it while it is alone.
Within(p) == req[p].op = "merge" /\ req[p].at \in InTx
Merged(p) == LinksMerged(req[p]) /\ RelsMerged(req[p])

\* What other requests do leaves a merge that is alone its case.
LEMMA OtherMerge ==
    ASSUME FlowInv, AccessInv, GraphInv, MergeInv, NEW p \in Slots, Others(p),
           crossed \subseteq crossed', Alters(p), PersonTypeOK',
           NEW q \in Slots \ {p}, Single', Within(q)'
    PROVE  Merged(q)'
<1>1. /\ req'[q].op = req[q].op /\ req'[q].at = req[q].at
      /\ req'[q].case = req[q].case /\ req'[q].arg = req[q].arg
      /\ req'[q].saw = req[q].saw /\ req'[q].tx = req[q].tx
  BY DEF Others, Fields
<1>2. Single /\ Within(q) /\ Merged(q)
  BY <1>1 DEF Single, Within, MergeInv, Merged
<1>3. /\ req[q].case \in Cases /\ req[q].arg.source \in People
      /\ req[q].arg.target \in People
  BY <1>2 DEF Within, GraphInv, Asked
<1>4. req[p].op \notin {"none", "create_case"} => req[p].case # req[q].case
  <2>1. SUFFICES ASSUME req[p].op \notin {"none", "create_case"},
                        req[p].case = req[q].case
                 PROVE  FALSE
    OBVIOUS
  <2>2. {req[q].op, req[p].op} \in crossed
    BY <1>2, <2>1 DEF Within, AccessInv, CrossPairs
  <2> QED
    BY <1>2, <2>2 DEF Within, Single
<1> DEFINE c == req[q].case
<1>5. \A x \in People, role \in RoleTypes : links'[<<c, x, role>>] = links[<<c, x, role>>]
  <2>1. TAKE x \in People, role \in RoleTypes
  <2>2. PICK k \in LinkKeys : k = <<c, x, role>>
    BY <1>3 DEF LinkKeys
  <2> QED
    BY <1>4, <2>2 DEF Alters
<1>6. \A k \in RelKeys : k[1] = c => rels'[k] = rels[k]
  BY <1>4 DEF Alters
<1>7. DOMAIN links' = DOMAIN links /\ DOMAIN rels' = DOMAIN rels
      /\ DOMAIN links = LinkKeys /\ DOMAIN rels = RelKeys
  BY DEF GraphInv, PersonTypeOK
<1>8. \A x \in People, role \in RoleTypes :
         Sight(req[q], links)'[<<c, x, role>>] = Sight(req[q], links)[<<c, x, role>>]
  <2>1. TAKE x \in People, role \in RoleTypes
  <2>2. <<c, x, role>> \in LinkKeys
    BY <1>3 DEF LinkKeys
  <2> QED
    BY <1>1, <1>5, <1>7, <2>2 DEF Sight
<1>9. \A x, y \in People : /\ Joint(rels, c, x, y)' <=> Joint(rels, c, x, y)
                           /\ Joint(Sight(req[q], rels), c, x, y)'
                                 <=> Joint(Sight(req[q], rels), c, x, y)
  <2>1. TAKE x \in People, y \in People
  <2>2. CASE <<c, x, y>> \in RelKeys
    <3>1. PICK k \in RelKeys : k = <<c, x, y>> /\ k[1] = c
      BY <2>2
    <3>2. rels'[k] = rels[k] /\ Sight(req[q], rels)'[k] = Sight(req[q], rels)[k]
      BY <1>1, <1>6, <1>7, <3>1 DEF Sight
    <3> QED
      BY <1>1, <3>1, <3>2 DEF Joint
  <2>3. CASE <<c, x, y>> \notin RelKeys
    BY <1>1, <2>3 DEF Joint
  <2> QED
    BY <2>2, <2>3
<1>10. \A link \in Pending(req[q]) : link[1] \in RoleTypes
  BY <1>2 DEF Within, GraphInv, Buffered, Pending, InHand, LinkOK
<1>11. Pending(req[q])' = Pending(req[q])
  BY <1>1 DEF Pending, InHand
<1>12. LinksMerged(req[q])'
  <2>1. req[q].at = "merge_fill" => req[q].saw.link \in Pending(req[q])
    BY DEF Pending, InHand, Taking
  <2> QED
    BY <1>1, <1>2, <1>3, <1>5, <1>8, <1>10, <1>11, <2>1 DEF Merged, LinksMerged
<1>13. RelsMerged(req[q])'
  BY <1>1, <1>2, <1>3, <1>9 DEF Merged, RelsMerged
<1> QED
  BY <1>12, <1>13 DEF Merged

\* A merge that is alone stays on its course.
LEMMA MergeKept ==
    ASSUME FlowInv, AccessInv, GraphInv, MergeInv, NEW p \in Slots, Others(p),
           crossed \subseteq crossed', Alters(p), PersonTypeOK',
           Single' /\ Within(p)' => Merged(p)'
    PROVE  MergeInv'
<1>1. \A q \in Slots : Single' /\ Within(q)' => Merged(q)'
  BY OtherMerge
<1> QED
  BY <1>1 DEF MergeInv, Within, Merged

-----------------------------------------------------------------------------
\* What a merge has at hand.
LEMMA AtHand ==
    ASSUME FlowInv, GraphInv, NEW p \in Slots, req[p].op = "merge"
    PROVE  /\ req[p].case \in Cases /\ req[p].arg.source \in People
           /\ req[p].arg.target \in People
           /\ req[p].at \in InTx \cup {"merge_links"} => req[p].arg.source # req[p].arg.target
           /\ \A role \in RoleTypes, x \in People :
                 <<req[p].case, x, role>> \in LinkKeys
           /\ \A x, y \in People : x # y => <<req[p].case, x, y>> \in RelKeys
           /\ links \in [LinkKeys -> Details] /\ DOMAIN links = LinkKeys
           /\ DOMAIN rels = RelKeys
<1>1. Asked(req[p]) /\ PersonTypeOK
  BY DEF GraphInv
<1> QED
  BY <1>1 DEF Asked, InTx, LinkKeys, RelKeys, PersonTypeOK

\* It has read the links of its source.
LEMMA UnitesFirst ==
    ASSUME FlowInv, GraphInv, NEW p \in Slots, ReadSourceLinks(p)
    PROVE  Merged(p)'
<1> DEFINE s == req[p].arg.source
           t == req[p].arg.target
           c == req[p].case
           rest == {<<role, links[<<c, s, role>>]>> :
                      role \in {x \in RoleTypes : links[<<c, s, x>>] # "absent"}}
<1>1. /\ req[p].op = "merge" /\ req[p].at = "merge_links" /\ links' = links /\ rels' = rels
      /\ On(p, "merge_link", [link |-> Nothing, rest |-> rest], req[p].tx)
  BY Standing, LearnOn DEF ReadSourceLinks, OnWay, At, Late, Checks, personVars
<1>2. DOMAIN req[p].tx = {}
  BY <1>1 DEF GraphInv, Buffered, InTx
<1>3. /\ req'[p].case = c /\ req'[p].arg = req[p].arg /\ req'[p].at = "merge_link"
      /\ DOMAIN req'[p].tx = {} /\ req'[p].saw.rest = rest
  BY <1>1, <1>2 DEF On, Keeps
<1>4. Pending(req[p])' = rest
  BY <1>3 DEF Pending, InHand, Taking
<1>5. Sight(req[p], links)' = links
  BY <1>1, <1>3, AtHand DEF Sight
<1>6. \A link \in rest : \E role \in RoleTypes :
         /\ link[1] = role /\ link[2] = links[<<c, s, role>>]
         /\ links[<<c, s, role>>] # "absent"
  <2>1. TAKE link \in rest
  <2>2. PICK role \in RoleTypes : /\ links[<<c, s, role>>] # "absent"
                                 /\ link = <<role, links[<<c, s, role>>]>>
    OBVIOUS
  <2> QED
    BY <2>2
<1>7. \A role \in RoleTypes : links[<<c, s, role>>] # "absent" =>
         \E link \in rest : link[1] = role
  <2>1. TAKE role \in RoleTypes
  <2>2. HAVE links[<<c, s, role>>] # "absent"
  <2>3. <<role, links[<<c, s, role>>]>> \in rest /\ <<role, links[<<c, s, role>>]>>[1] = role
    BY <2>2
  <2> QED
    BY <2>3
<1> HIDE DEF rest
<1>8. \A role \in RoleTypes :
        \/ \E link \in rest : link[1] = role
        \/ links[<<c, t, role>>] = United(links[<<c, t, role>>], links[<<c, s, role>>])
  BY <1>7 DEF United
<1>9. LinksMerged(req[p])'
  BY <1>1, <1>3, <1>4, <1>5, <1>6, <1>8 DEF LinksMerged
<1>10. RelsMerged(req[p])'
  BY <1>3 DEF RelsMerged
<1> QED
  BY <1>9, <1>10 DEF Merged

\* It takes a link over, or finds that the target has one for the role.
LEMMA UnitesTaking ==
    ASSUME FlowInv, GraphInv, NEW p \in Slots, Merged(p), TakeLink(p)
    PROVE  Merged(p)'
<1> DEFINE s == req[p].arg.source
           t == req[p].arg.target
           c == req[p].case
<1>1. /\ req[p].op = "merge" /\ req[p].at = "merge_link" /\ links' = links /\ rels' = rels
      /\ DOMAIN req = Slots /\ DOMAIN req[p] = Fields
  BY Standing DEF TakeLink, OnWay, At, Late, Checks, personVars, FlowInv
<1>2. /\ DOMAIN req[p].saw = {"link", "rest"}
      /\ \A link \in req[p].saw.rest : LinkOK(link)
      /\ Pending(req[p]) = req[p].saw.rest
  BY <1>1 DEF GraphInv, Buffered, Taking, Pending, InHand
<1>3. PICK link \in req[p].saw.rest :
         req' = IF Seen(p, links)[TargetKey(p, link[1])] = "absent"
                THEN [req EXCEPT ![p].saw.rest = @ \ {link},
                        ![p].tx = Writes(p, Row(TargetKey(p, link[1]), link[2]))]
                ELSE [req EXCEPT ![p].at = "merge_fill", ![p].saw.link = link,
                                 ![p].saw.rest = @ \ {link}]
  BY DEF TakeLink
<1>4. link = <<link[1], link[2]>> /\ link[1] \in RoleTypes /\ link[2] \in Details \ {"absent"}
      /\ \A other \in req[p].saw.rest : other = <<other[1], other[2]>>
  BY <1>2 DEF LinkOK
<1>5. /\ \A other \in req[p].saw.rest :
            /\ other[2] = links[<<c, s, other[1]>>]
            /\ <<c, t, other[1]>> \notin DOMAIN req[p].tx
      /\ \A role \in RoleTypes :
            \/ \E other \in req[p].saw.rest : other[1] = role
            \/ Sight(req[p], links)[<<c, t, role>>]
                  = United(links[<<c, t, role>>], links[<<c, s, role>>])
  BY <1>2 DEF Merged, LinksMerged
<1>6. \A other \in req[p].saw.rest \ {link} : other[1] # link[1]
  BY <1>4, <1>5
<1>7. PICK key : key = TargetKey(p, link[1])
  OBVIOUS
<1>8. key = <<c, t, link[1]>> /\ key \in LinkKeys /\ key \notin DOMAIN req[p].tx
      /\ \A role \in RoleTypes : <<c, t, role>> = key => role = link[1]
  BY <1>1, <1>4, <1>5, <1>7, AtHand DEF TargetKey
<1>9. Seen(p, links)[key] = links[key]
  BY <1>1, <1>8, AtHand DEF Seen
<1>10. /\ req'[p].case = c /\ req'[p].arg = req[p].arg
       /\ req'[p].saw.rest = req[p].saw.rest \ {link}
       /\ IF links[key] = "absent"
          THEN req'[p].at = "merge_link" /\ req'[p].tx = Writes(p, Row(key, link[2]))
          ELSE /\ req'[p].at = "merge_fill" /\ req'[p].saw.link = link
               /\ req'[p].tx = req[p].tx
  BY <1>1, <1>2, <1>3, <1>7, <1>9 DEF Fields
<1>11. CASE links[key] = "absent"
  <2>1. PICK rows : rows = Row(key, link[2])
    OBVIOUS
  <2>2. DOMAIN rows = {key} /\ rows[key] = link[2] /\ req'[p].tx = Writes(p, rows)
    BY <1>10, <1>11, <2>1 DEF Row
  <2>3. Pending(req[p])' = req[p].saw.rest \ {link}
    BY <1>10, <1>11 DEF Pending, InHand, Taking
  <2>4. ASSUME NEW other \in req[p].saw.rest \ {link}
        PROVE  /\ other[2] = links'[<<c, s, other[1]>>]
               /\ <<c, t, other[1]>> \notin DOMAIN req'[p].tx
    <3>1. other[1] \in RoleTypes
      BY <1>2 DEF LinkOK
    <3> QED
      BY <1>1, <1>5, <1>6, <1>8, <2>2, <3>1, WritesRows
  <2>5. ASSUME NEW role \in RoleTypes
        PROVE  \/ \E other \in req[p].saw.rest \ {link} : other[1] = role
               \/ Sight(req'[p], links)[<<c, t, role>>]
                     = United(links[<<c, t, role>>], links[<<c, s, role>>])
    <3>1. <<c, t, role>> \in DOMAIN links
      BY <1>1, AtHand
    <3>2. Sight(req'[p], links)[<<c, t, role>>]
             = IF <<c, t, role>> \in DOMAIN rows THEN rows[<<c, t, role>>]
               ELSE Sight(req[p], links)[<<c, t, role>>]
      BY <2>2, <3>1, SightAfter
    <3>3. CASE role = link[1]
      <4>1. Sight(req'[p], links)[<<c, t, role>>] = link[2]
        BY <1>8, <2>2, <3>2, <3>3
      <4>2. links[<<c, t, role>>] = "absent" /\ links[<<c, s, role>>] = link[2]
            /\ link[2] # "absent"
        BY <1>4, <1>5, <1>8, <1>11, <3>3
      <4> QED
        BY <4>1, <4>2 DEF United
    <3>4. CASE role # link[1]
      BY <1>5, <1>8, <2>2, <3>2, <3>4
    <3> QED
      BY <3>3, <3>4
  <2>6. LinksMerged(req[p])'
    BY <1>1, <1>10, <1>11, <2>3, <2>4, <2>5 DEF LinksMerged
  <2>7. RelsMerged(req[p])'
    BY <1>10, <1>11 DEF RelsMerged
  <2> QED
    BY <2>6, <2>7 DEF Merged
<1>12. CASE links[key] # "absent"
  <2>1. Pending(req[p])' = req[p].saw.rest
    BY <1>10, <1>12 DEF Pending, InHand, Taking
  <2>2. Sight(req[p], links)' = Sight(req[p], links)
    BY <1>1, <1>10, <1>12 DEF Sight
  <2>3. LinksMerged(req[p])'
    BY <1>1, <1>5, <1>8, <1>10, <1>12, <2>1, <2>2 DEF LinksMerged
  <2>4. RelsMerged(req[p])'
    BY <1>10, <1>12 DEF RelsMerged
  <2> QED
    BY <2>3, <2>4 DEF Merged
<1> QED
  BY <1>11, <1>12

\* It fills the blanks of the link in hand.
LEMMA UnitesFilling ==
    ASSUME FlowInv, GraphInv, NEW p \in Slots, Merged(p), FillLink(p)
    PROVE  Merged(p)'
<1> DEFINE s == req[p].arg.source
           t == req[p].arg.target
           c == req[p].case
<1>1. /\ req[p].op = "merge" /\ req[p].at = "merge_fill" /\ links' = links /\ rels' = rels
      /\ DOMAIN req = Slots /\ DOMAIN req[p] = Fields
  BY Standing DEF FillLink, OnWay, At, Late, Checks, personVars, FlowInv
<1>2. PICK link : link = req[p].saw.link
  OBVIOUS
<1>3. /\ DOMAIN req[p].saw = {"link", "rest"}
      /\ LinkOK(link) /\ link = <<link[1], link[2]>>
      /\ \A other \in req[p].saw.rest : LinkOK(other) /\ other = <<other[1], other[2]>>
      /\ link[1] \in RoleTypes /\ link[2] \in Details \ {"absent"}
      /\ Pending(req[p]) = req[p].saw.rest \cup {link}
  BY <1>1, <1>2 DEF GraphInv, Buffered, Taking, Pending, InHand, LinkOK
<1>4. /\ link \notin req[p].saw.rest /\ links[<<c, t, link[1]>>] # "absent"
      /\ \A other \in req[p].saw.rest \cup {link} :
            /\ other[2] = links[<<c, s, other[1]>>]
            /\ <<c, t, other[1]>> \notin DOMAIN req[p].tx
      /\ \A role \in RoleTypes :
            \/ \E other \in req[p].saw.rest \cup {link} : other[1] = role
            \/ Sight(req[p], links)[<<c, t, role>>]
                  = United(links[<<c, t, role>>], links[<<c, s, role>>])
  BY <1>1, <1>2, <1>3 DEF Merged, LinksMerged
<1>5. \A other \in req[p].saw.rest : other[1] # link[1]
  <2>1. SUFFICES ASSUME NEW other \in req[p].saw.rest, other[1] = link[1] PROVE FALSE
    OBVIOUS
  <2>2. other[2] = link[2]
    BY <1>4, <2>1
  <2>3. other = <<other[1], other[2]>> /\ link = <<link[1], link[2]>>
    BY <1>3
  <2>4. other = link
    BY <2>1, <2>2, <2>3
  <2> QED
    BY <1>4, <2>4
<1>6. PICK key : key = TargetKey(p, link[1])
  OBVIOUS
<1>7. key = <<c, t, link[1]>> /\ key \in LinkKeys /\ key \notin DOMAIN req[p].tx
      /\ \A role \in RoleTypes : <<c, t, role>> = key => role = link[1]
  BY <1>1, <1>3, <1>4, <1>6, AtHand DEF TargetKey
<1>8. Seen(p, links)[key] = links[key]
  BY <1>1, <1>7, AtHand DEF Seen
<1>9. PICK rows : rows = Row(key, Filled(links[key], link[2]))
  OBVIOUS
<1>10. /\ req'[p].case = c /\ req'[p].arg = req[p].arg /\ req'[p].at = "merge_link"
       /\ req'[p].saw.rest = req[p].saw.rest /\ req'[p].tx = Writes(p, rows)
  <2>1. req' = [req EXCEPT ![p].at = "merge_link", ![p].saw.link = Nothing,
                  ![p].tx = IF Seen(p, links)[key] = "absent" THEN @
                            ELSE Writes(p, Row(key, Filled(Seen(p, links)[key], link[2])))]
    BY <1>2, <1>6 DEF FillLink
  <2>2. req' = [req EXCEPT ![p].at = "merge_link", ![p].saw.link = Nothing,
                           ![p].tx = Writes(p, rows)]
    BY <1>4, <1>7, <1>8, <1>9, <2>1
  <2> QED
    BY <1>1, <1>3, <2>2 DEF Fields
<1>11. DOMAIN rows = {key} /\ rows[key] = Filled(links[key], link[2])
  BY <1>9 DEF Row
<1>12. Pending(req[p])' = req[p].saw.rest
  BY <1>10 DEF Pending, InHand, Taking
<1>13. ASSUME NEW other \in req[p].saw.rest
       PROVE  /\ other[2] = links'[<<c, s, other[1]>>]
              /\ <<c, t, other[1]>> \notin DOMAIN req'[p].tx
  <2>1. other[1] \in RoleTypes
    BY <1>3 DEF LinkOK
  <2> QED
    BY <1>1, <1>4, <1>5, <1>7, <1>10, <1>11, <2>1, WritesRows
<1>14. ASSUME NEW role \in RoleTypes
       PROVE  \/ \E other \in req[p].saw.rest : other[1] = role
              \/ Sight(req'[p], links)[<<c, t, role>>]
                    = United(links[<<c, t, role>>], links[<<c, s, role>>])
  <2>1. <<c, t, role>> \in DOMAIN links
    BY <1>1, AtHand
  <2>2. Sight(req'[p], links)[<<c, t, role>>]
           = IF <<c, t, role>> \in DOMAIN rows THEN rows[<<c, t, role>>]
             ELSE Sight(req[p], links)[<<c, t, role>>]
    BY <1>10, <2>1, SightAfter
  <2>3. CASE role = link[1]
    <3>1. Sight(req'[p], links)[<<c, t, role>>] = Filled(links[key], link[2])
      BY <1>7, <1>11, <2>2, <2>3
    <3>2. links[<<c, t, role>>] = links[key] /\ links[key] # "absent"
          /\ links[<<c, s, role>>] = link[2] /\ link[2] # "absent"
      BY <1>3, <1>4, <1>7, <2>3
    <3> QED
      BY <3>1, <3>2 DEF United
  <2>4. CASE role # link[1]
    BY <1>4, <1>7, <1>11, <2>2, <2>4
  <2> QED
    BY <2>3, <2>4
<1>15. LinksMerged(req[p])'
  BY <1>1, <1>10, <1>12, <1>13, <1>14 DEF LinksMerged
<1>16. RelsMerged(req[p])'
  BY <1>10 DEF RelsMerged
<1> QED
  BY <1>15, <1>16 DEF Merged

-----------------------------------------------------------------------------
\* A transaction that writes no links sees the links as before, and keeps
\* what it has united.
LEMMA LinksUnited ==
    ASSUME FlowInv, GraphInv, NEW p \in Slots, Within(p), LinksMerged(req[p]),
           Pending(req[p]) = {}, req[p].at # "merge_commit", links' = links,
           NEW place \in InTx \ (Taking \cup {"merge_commit"}), NEW rows,
           DOMAIN rows \cap LinkKeys = {},
           req'[p].at = place, req'[p].case = req[p].case, req'[p].arg = req[p].arg,
           req'[p].tx = req[p].tx \/ req'[p].tx = Writes(p, rows)
    PROVE  LinksMerged(req[p])'
<1>1. DOMAIN links = LinkKeys /\ \A role \in RoleTypes :
         <<req[p].case, req[p].arg.target, role>> \in LinkKeys
  BY AtHand DEF Within
<1>2. \A k \in LinkKeys : Sight(req'[p], links)[k] = Sight(req[p], links)[k]
  <2>1. CASE req'[p].tx = req[p].tx
    BY <2>1 DEF Sight
  <2>2. CASE req'[p].tx = Writes(p, rows)
    <3>1. TAKE k \in LinkKeys
    <3>2. k \notin DOMAIN rows
      OBVIOUS
    <3> QED
      BY <1>1, <2>2, <3>2, SightAfter
  <2> QED
    BY <2>1, <2>2
<1>3. Pending(req[p])' = {}
  BY DEF Pending
<1> QED
  BY <1>1, <1>2, <1>3 DEF LinksMerged, Taking

\* What a merge has moved, at one end, is what both persons had.
LEMMA EndsJoin ==
    ASSUME FlowInv, GraphInv, NEW p \in Slots, req[p].op = "merge", req[p].at \in InTx,
           NEW end \in {2, 3}, Allowed(p, end),
           req'[p].tx = Writes(p, MovedRows(p, end)),
           NEW y \in People \ {req[p].arg.source, req[p].arg.target}
    PROVE  LET c     == req[p].case
               s     == req[p].arg.source
               t     == req[p].arg.target
               pair(x) == IF end = 2 THEN <<c, x, y>> ELSE <<c, y, x>>
               live(r, k) == Sight(r, rels)[k].status = "active"
           IN  live(req'[p], pair(t)) <=> live(req[p], pair(t)) \/ live(req[p], pair(s))
<1> DEFINE c == req[p].case
           s == req[p].arg.source
           t == req[p].arg.target
           pair(x) == IF end = 2 THEN <<c, x, y>> ELSE <<c, y, x>>
<1>1. c \in Cases /\ s \in People /\ t \in People /\ s # t /\ DOMAIN rels = RelKeys
  BY AtHand
<1>2. PICK from, to : from = pair(s) /\ to = pair(t)
  OBVIOUS
<1>3. /\ from \in RelKeys /\ to \in RelKeys /\ from[1] = c /\ from[end] = s /\ to[end] = t
      /\ from # to
  BY <1>1, <1>2 DEF RelKeys
<1>4. Renamed(from, end, t) = to /\ \A j \in RelKeys :
         Renamed(j, end, t) = to /\ j[end] = s => j = from
  <2>1. CASE end = 2
    <3>1. from = <<c, s, y>> /\ to = <<c, t, y>>
      BY <1>2, <2>1
    <3>2. Renamed(from, 2, t) = <<c, t, y>>
      BY <1>3, <3>1, Renaming
    <3>3. ASSUME NEW j \in RelKeys, Renamed(j, 2, t) = to, j[2] = s
          PROVE  j = from
      <4>1. j = <<j[1], s, j[3]>> /\ <<j[1], t, j[3]>> = <<c, t, y>>
        BY <3>1, <3>3, Renaming
      <4> QED
        BY <3>1, <4>1
    <3> QED
      BY <2>1, <3>1, <3>2, <3>3
  <2>2. CASE end = 3
    <3>1. from = <<c, y, s>> /\ to = <<c, y, t>>
      BY <1>2, <2>2
    <3>2. Renamed(from, 3, t) = <<c, y, t>>
      BY <1>3, <3>1, Renaming
    <3>3. ASSUME NEW j \in RelKeys, Renamed(j, 3, t) = to, j[3] = s
          PROVE  j = from
      <4>1. j = <<j[1], j[2], s>> /\ <<j[1], j[2], t>> = <<c, y, t>>
        BY <3>1, <3>3, Renaming
      <4> QED
        BY <3>1, <4>1
    <3> QED
      BY <2>2, <3>1, <3>2, <3>3
  <2> QED
    BY <2>1, <2>2
<1> HIDE DEF pair
<1>5. Seen(p, rels) = Sight(req[p], rels)
  BY MergeSees
<1>6. PICK rows : rows = MovedRows(p, end)
  OBVIOUS
<1>7. Sight(req'[p], rels)[to]
         = IF to \in DOMAIN rows THEN rows[to] ELSE Sight(req[p], rels)[to]
  BY <1>1, <1>3, <1>6, SightAfter
<1>8. DOMAIN rows = Movable(p, end) \cup Destinations(p, end) /\ to \notin Movable(p, end)
  <2>1. DOMAIN rows = Movable(p, end) \cup Destinations(p, end)
    BY <1>6, Moving
  <2> QED
    BY <1>1, <1>3, <2>1 DEF Movable
<1>9. to \in Destinations(p, end) <=> from \in Movable(p, end)
  <2>1. ASSUME to \in Destinations(p, end) PROVE from \in Movable(p, end)
    <3>1. PICK j \in Movable(p, end) : to = Renamed(j, end, t)
      BY <2>1 DEF Destinations
    <3>2. j \in RelKeys /\ j[end] = s
      BY <3>1 DEF Movable
    <3> QED
      BY <1>4, <3>1, <3>2
  <2>2. ASSUME from \in Movable(p, end) PROVE to \in Destinations(p, end)
    BY <1>4, <2>2 DEF Destinations
  <2> QED
    BY <2>1, <2>2
<1>10. from \in Movable(p, end) <=> /\ Sight(req[p], rels)[from].status = "active"
                                   /\ Sight(req[p], rels)[to].status # "active"
  BY <1>3, <1>4, <1>5 DEF Movable
<1>11. from \in Movable(p, end) => rows[to] = Sight(req[p], rels)[from]
  <2>1. SUFFICES ASSUME from \in Movable(p, end) PROVE rows[to] = Sight(req[p], rels)[from]
    OBVIOUS
  <2>2. MovedRows(p, end)[Renamed(from, end, t)] = Sight(req[p], rels)[from]
    BY <2>1, Moving
  <2> QED
    BY <1>4, <1>6, <2>2
<1>12. Sight(req'[p], rels)[to].status = "active"
         <=> \/ Sight(req[p], rels)[to].status = "active"
             \/ Sight(req[p], rels)[from].status = "active"
  BY <1>7, <1>8, <1>9, <1>10, <1>11
<1> QED
  BY <1>2, <1>12 DEF pair

\* What MoveFrom and MoveTo leave as it was: what has other persons at that end.
LEMMA OtherEnd ==
    ASSUME FlowInv, GraphInv, NEW p \in Slots, req[p].op = "merge", NEW end \in {2, 3},
           Allowed(p, end), req'[p].tx = Writes(p, MovedRows(p, end)), NEW k \in RelKeys,
           k[end] \notin {req[p].arg.source, req[p].arg.target}
    PROVE  k \notin DOMAIN MovedRows(p, end) /\ Sight(req'[p], rels)[k] = Sight(req[p], rels)[k]
<1>1. k \notin Movable(p, end)
  BY DEF Movable
<1>2. k \notin Destinations(p, end)
  <2>1. SUFFICES ASSUME k \in Destinations(p, end) PROVE FALSE
    OBVIOUS
  <2>2. PICK j \in Movable(p, end) : k = Renamed(j, end, req[p].arg.target)
    BY <2>1 DEF Destinations
  <2>3. j \in RelKeys
    BY DEF Movable
  <2>4. \/ end = 2 /\ k = <<j[1], req[p].arg.target, j[3]>>
        \/ end = 3 /\ k = <<j[1], j[2], req[p].arg.target>>
    BY <2>2, <2>3, Renaming
  <2> QED
    BY <2>4
<1>3. PICK rows : rows = MovedRows(p, end)
  OBVIOUS
<1>4. k \notin DOMAIN rows
  <2>1. DOMAIN rows = Movable(p, end) \cup Destinations(p, end)
    BY <1>3, Moving
  <2> QED
    BY <1>1, <1>2, <2>1
<1>5. DOMAIN rels = RelKeys
  BY AtHand
<1> QED
  BY <1>3, <1>4, <1>5, SightAfter

\* Where the persons of a merge are joined, in terms of rows.
LEMMA JointRow ==
    ASSUME FlowInv, GraphInv, NEW p \in Slots, req[p].op = "merge", NEW table,
           NEW x \in People, NEW y \in People \ {x}
    PROVE  /\ <<req[p].case, x, y>> \in RelKeys
           /\ Joint(table, req[p].case, x, y)
                 <=> table[<<req[p].case, x, y>>].status = "active"
  BY AtHand DEF Joint

\* It moves the relationships that start at the source,
LEMMA UnitesFrom ==
    ASSUME FlowInv, GraphInv, NEW p \in Slots, Merged(p), MoveFrom(p), ~Refuse(p)
    PROVE  Merged(p)'
<1> DEFINE s == req[p].arg.source
           t == req[p].arg.target
           c == req[p].case
<1>1. /\ req[p].op = "merge" /\ req[p].at = "merge_from" /\ links' = links /\ rels' = rels
      /\ Allowed(p, 2) /\ Buffer(p, "merge_to", MovedRows(p, 2))
  BY Standing DEF MoveFrom, Repoint, OnWay, At, Late, Checks, personVars
<1>2. /\ c \in Cases /\ s \in People /\ t \in People /\ s # t /\ DOMAIN rels = RelKeys
  BY <1>1, AtHand DEF InTx
<1>3. PICK rows : rows = MovedRows(p, 2)
  OBVIOUS
<1>4. /\ req'[p].at = "merge_to" /\ req'[p].case = c /\ req'[p].arg = req[p].arg
      /\ req'[p].tx = Writes(p, rows)
  BY <1>1, <1>3, BufferOn DEF On, Keeps
<1>5. \A k \in DOMAIN rows : k \in RelKeys
  BY <1>1, <1>3, MovedTied DEF InTx
<1>6. LinksMerged(req[p])'
  <2>1. DOMAIN rows \cap LinkKeys = {}
    BY <1>5, KeysApart
  <2> QED
    BY <1>1, <1>4, <2>1, LinksUnited DEF Within, Merged, InTx, Taking, Pending
<1>7. DOMAIN req[p].tx \cap RelKeys = {}
  BY <1>1 DEF GraphInv, Buffered
<1>8. \A k \in RelKeys : Sight(req[p], rels)[k] = rels[k]
  BY <1>2, <1>7 DEF Sight
<1>9. \A k \in DOMAIN req'[p].tx \cap RelKeys : k[2] \in {s, t}
  <2>1. TAKE k \in DOMAIN req'[p].tx \cap RelKeys
  <2>2. k \in DOMAIN rows
    BY <1>4, <1>7, WritesRows
  <2> QED
    BY <1>1, <1>3, <1>4, <2>2, OtherEnd
<1>10. ASSUME NEW y \in People \ {s, t}
       PROVE  Joint(Sight(req'[p], rels), c, t, y)
                 <=> Joint(rels, c, t, y) \/ Joint(rels, c, s, y)
  <2>1. Sight(req'[p], rels)[<<c, t, y>>].status = "active"
           <=> \/ Sight(req[p], rels)[<<c, t, y>>].status = "active"
               \/ Sight(req[p], rels)[<<c, s, y>>].status = "active"
    BY <1>1, <1>3, <1>4, EndsJoin DEF InTx
  <2>2. y # s /\ y # t
    OBVIOUS
  <2> QED
    BY <1>1, <1>2, <1>8, <2>1, <2>2, JointRow
<1>11. RelsMerged(req[p])'
  BY <1>1, <1>4, <1>9, <1>10 DEF RelsMerged
<1> QED
  BY <1>6, <1>11 DEF Merged

\* and those that end there.
LEMMA UnitesTo ==
    ASSUME FlowInv, GraphInv, NEW p \in Slots, Merged(p), MoveTo(p), ~Refuse(p)
    PROVE  Merged(p)'
<1> DEFINE s == req[p].arg.source
           t == req[p].arg.target
           c == req[p].case
<1>1. /\ req[p].op = "merge" /\ req[p].at = "merge_to" /\ links' = links /\ rels' = rels
      /\ Allowed(p, 3) /\ Buffer(p, "merge_drop", MovedRows(p, 3))
  BY Standing DEF MoveTo, Repoint, OnWay, At, Late, Checks, personVars
<1>2. /\ c \in Cases /\ s \in People /\ t \in People /\ s # t /\ DOMAIN rels = RelKeys
  BY <1>1, AtHand DEF InTx
<1>3. PICK rows : rows = MovedRows(p, 3)
  OBVIOUS
<1>4. /\ req'[p].at = "merge_drop" /\ req'[p].case = c /\ req'[p].arg = req[p].arg
      /\ req'[p].tx = Writes(p, rows)
  BY <1>1, <1>3, BufferOn DEF On, Keeps
<1>5. \A k \in DOMAIN rows : k \in RelKeys
  BY <1>1, <1>3, MovedTied DEF InTx
<1>6. LinksMerged(req[p])'
  <2>1. DOMAIN rows \cap LinkKeys = {}
    BY <1>5, KeysApart
  <2> QED
    BY <1>1, <1>4, <2>1, LinksUnited DEF Within, Merged, InTx, Taking, Pending
<1>7. /\ \A k \in DOMAIN req[p].tx \cap RelKeys : k[2] \in {s, t}
      /\ \A y \in People \ {s, t} : Joint(Sight(req[p], rels), c, t, y)
            <=> Joint(rels, c, t, y) \/ Joint(rels, c, s, y)
  BY <1>1 DEF Merged, RelsMerged
<1>8. \A k \in RelKeys : k[2] \notin {s, t} => Sight(req[p], rels)[k] = rels[k]
  BY <1>2, <1>7 DEF Sight
<1>9. ASSUME NEW y \in People \ {s, t}
      PROVE  Joint(Sight(req'[p], rels), c, t, y)
                <=> Joint(rels, c, t, y) \/ Joint(rels, c, s, y)
  <2>1. PICK k : k = <<c, t, y>>
    OBVIOUS
  <2>2. k \in RelKeys /\ k[3] = y
    BY <1>1, <1>2, <2>1, JointRow
  <2>3. Sight(req'[p], rels)[k] = Sight(req[p], rels)[k]
    BY <1>1, <1>3, <1>4, <2>2, OtherEnd
  <2> QED
    BY <1>7, <2>1, <2>3 DEF Joint
<1>10. ASSUME NEW x \in People \ {s, t}
       PROVE  Joint(Sight(req'[p], rels), c, x, t)
                 <=> Joint(rels, c, x, t) \/ Joint(rels, c, x, s)
  <2>1. Sight(req'[p], rels)[<<c, x, t>>].status = "active"
           <=> \/ Sight(req[p], rels)[<<c, x, t>>].status = "active"
               \/ Sight(req[p], rels)[<<c, x, s>>].status = "active"
    BY <1>1, <1>3, <1>4, EndsJoin DEF InTx
  <2>2. /\ Sight(req[p], rels)[<<c, x, t>>] = rels[<<c, x, t>>]
        /\ Sight(req[p], rels)[<<c, x, s>>] = rels[<<c, x, s>>]
    <3>1. PICK k, j : k = <<c, x, t>> /\ j = <<c, x, s>>
      OBVIOUS
    <3>2. k \in RelKeys /\ j \in RelKeys /\ k[2] = x /\ j[2] = x
      BY <1>1, <1>2, <3>1, JointRow
    <3> QED
      BY <1>8, <3>1, <3>2
  <2> QED
    BY <1>1, <1>2, <2>1, <2>2, JointRow
<1>11. RelsMerged(req[p])'
  BY <1>1, <1>4, <1>9, <1>10 DEF RelsMerged
<1> QED
  BY <1>6, <1>11 DEF Merged

\* What it drops or unlinks is the source's.
LEMMA UnitesOnly ==
    ASSUME FlowInv, GraphInv, NEW p \in Slots, Merged(p), req[p].op = "merge",
           req[p].at \in {"merge_drop", "merge_unlink"}, rels' = rels,
           NEW place \in {"merge_unlink", "merge_commit"}, NEW rows,
           req'[p].at = place, req'[p].case = req[p].case, req'[p].arg = req[p].arg,
           req'[p].tx = Writes(p, rows),
           \A k \in DOMAIN rows \cap RelKeys : req[p].arg.source \in {k[2], k[3]}
    PROVE  RelsMerged(req[p])'
<1> DEFINE s == req[p].arg.source
           t == req[p].arg.target
           c == req[p].case
<1>1. /\ c \in Cases /\ s \in People /\ t \in People /\ s # t /\ DOMAIN rels = RelKeys
  BY AtHand DEF InTx
<1>2. /\ \A y \in People \ {s, t} : Joint(Sight(req[p], rels), c, t, y)
            <=> Joint(rels, c, t, y) \/ Joint(rels, c, s, y)
      /\ \A x \in People \ {s, t} : Joint(Sight(req[p], rels), c, x, t)
            <=> Joint(rels, c, x, t) \/ Joint(rels, c, x, s)
  BY DEF Merged, RelsMerged
<1>3. ASSUME NEW x \in People \ {s}, NEW y \in People \ {s}
      PROVE  Joint(Sight(req'[p], rels), c, x, y) <=> Joint(Sight(req[p], rels), c, x, y)
  <2>1. CASE <<c, x, y>> \in RelKeys
    <3>1. PICK k \in RelKeys : k = <<c, x, y>> /\ k[2] = x /\ k[3] = y
      BY <2>1
    <3>2. k \notin DOMAIN rows
      BY <3>1
    <3>3. Sight(req'[p], rels)[k] = Sight(req[p], rels)[k]
      BY <1>1, <3>2, SightAfter
    <3> QED
      BY <3>1, <3>3 DEF Joint
  <2>2. CASE <<c, x, y>> \notin RelKeys
    BY <2>2 DEF Joint
  <2> QED
    BY <2>1, <2>2
<1>4. /\ \A y \in People \ {s, t} : Joint(Sight(req'[p], rels), c, t, y)
            <=> Joint(rels, c, t, y) \/ Joint(rels, c, s, y)
      /\ \A x \in People \ {s, t} : Joint(Sight(req'[p], rels), c, x, t)
            <=> Joint(rels, c, x, t) \/ Joint(rels, c, x, s)
  BY <1>1, <1>2, <1>3
<1> QED
  BY <1>4 DEF RelsMerged

\* It drops the duplicates,
LEMMA UnitesDropping ==
    ASSUME FlowInv, GraphInv, NEW p \in Slots, Merged(p), DropDuplicates(p)
    PROVE  Merged(p)'
<1>1. /\ req[p].op = "merge" /\ req[p].at = "merge_drop" /\ links' = links /\ rels' = rels
  BY Standing DEF DropDuplicates, OnWay, At, Late, Checks, personVars
<1>2. PICK rows : rows = [k \in OfSource(p) |->
                            [Seen(p, rels)[k] EXCEPT !.status = "deleted"]]
  OBVIOUS
<1>3. /\ req'[p].at = "merge_unlink" /\ req'[p].case = req[p].case
      /\ req'[p].arg = req[p].arg /\ req'[p].tx = Writes(p, rows)
  BY <1>2, BufferOn DEF DropDuplicates, On, Keeps
<1>4. \A k \in DOMAIN rows : k \in RelKeys /\ req[p].arg.source \in {k[2], k[3]}
  BY <1>2 DEF OfSource
<1>5. DOMAIN rows \cap LinkKeys = {}
  BY <1>4, KeysApart
<1>6. LinksMerged(req[p])'
  BY <1>1, <1>3, <1>5, LinksUnited DEF Within, Merged, InTx, Taking, Pending
<1>7. RelsMerged(req[p])'
  BY <1>1, <1>3, <1>4, UnitesOnly
<1> QED
  BY <1>6, <1>7 DEF Merged

\* and unlinks the source.
LEMMA UnitesUnlinking ==
    ASSUME FlowInv, GraphInv, NEW p \in Slots, Merged(p), UnlinkSource(p)
    PROVE  Merged(p)'
<1> DEFINE s == req[p].arg.source
           t == req[p].arg.target
           c == req[p].case
<1>1. /\ req[p].op = "merge" /\ req[p].at = "merge_unlink" /\ links' = links /\ rels' = rels
  BY Standing DEF UnlinkSource, OnWay, At, Late, Checks, personVars
<1>2. PICK rows : rows = [k \in SourceLinks(p) |-> "absent"]
  OBVIOUS
<1>3. /\ req'[p].at = "merge_commit" /\ req'[p].case = c
      /\ req'[p].arg = req[p].arg /\ req'[p].tx = Writes(p, rows)
  BY <1>2, BufferOn DEF UnlinkSource, On, Keeps
<1>4. Seen(p, links) = Sight(req[p], links) /\ s # t /\ s \in People /\ t \in People
      /\ DOMAIN links = LinkKeys
      /\ \A role \in RoleTypes : <<c, s, role>> \in LinkKeys /\ <<c, t, role>> \in LinkKeys
  BY <1>1, MergeSees, AtHand DEF InTx
<1>5. /\ DOMAIN rows = SourceLinks(p) /\ \A k \in DOMAIN rows : rows[k] = "absent"
      /\ SourceLinks(p) = {k \in LinkKeys : /\ k[1] = c /\ k[2] = s
                                            /\ Sight(req[p], links)[k] # "absent"}
  BY <1>2, <1>4 DEF SourceLinks
<1>6. RelsMerged(req[p])'
  BY <1>1, <1>3, <1>5, KeysApart, UnitesOnly
<1>7. \A role \in RoleTypes :
         Sight(req[p], links)[<<c, t, role>>]
            = United(links[<<c, t, role>>], links[<<c, s, role>>])
  BY <1>1 DEF Merged, LinksMerged, Pending, Taking
<1>8. ASSUME NEW role \in RoleTypes
      PROVE  /\ Sight(req'[p], links)[<<c, s, role>>] = "absent"
             /\ Sight(req'[p], links)[<<c, t, role>>]
                   = United(links[<<c, t, role>>], links[<<c, s, role>>])
  <2>1. PICK k, j : k = <<c, s, role>> /\ j = <<c, t, role>>
    OBVIOUS
  <2>2. /\ Sight(req'[p], links)[k]
              = IF k \in DOMAIN rows THEN rows[k] ELSE Sight(req[p], links)[k]
        /\ Sight(req'[p], links)[j]
              = IF j \in DOMAIN rows THEN rows[j] ELSE Sight(req[p], links)[j]
    BY <1>3, <1>4, <2>1, SightAfter
  <2>3. k \in LinkKeys /\ j \in LinkKeys /\ k[1] = c /\ k[2] = s /\ j[2] = t
    BY <1>4, <2>1
  <2>4. j \notin DOMAIN rows
    BY <1>4, <1>5, <2>3
  <2>5. Sight(req'[p], links)[k] = "absent"
    BY <1>5, <2>2, <2>3
  <2> QED
    BY <1>7, <2>1, <2>2, <2>4, <2>5
<1>9. Pending(req[p])' = {}
  BY <1>3 DEF Pending, Taking
<1>10. LinksMerged(req[p])'
  BY <1>1, <1>3, <1>8, <1>9 DEF LinksMerged
<1> QED
  BY <1>6, <1>10 DEF Merged

-----------------------------------------------------------------------------
\* A request is sent to a place of its own.
LEMMA SentTo ==
    ASSUME FlowInv, NEW p \in Slots, NEW op, NEW user \in Senders(p, op), NEW case,
           NEW path, NEW arg, NEW need, NEW then,
           Send(p, op, user, case, path, arg, need, then)
    PROVE  req'[p].op = op /\ req'[p].at \in {"lookup", "case", then}
  BY DEF Send, FirstStep, FlowInv, Fields

\* A request that is not a merge does not become one.
LEMMA NoMerge ==
    ASSUME FlowInv, NEW p \in Slots, PersonStep(p), req[p].op \notin {"none", "merge"}
    PROVE  ~Within(p)'
<1>1. req'[p] = Idle => req'[p].op = "none"
  BY DEF Idle
<1>2. req'[p].op \in {req[p].op, "none"}
  BY <1>1, PersonTurn DEF Turn, Serves, Sent, Quiet, Applies, Ends, Same
<1> QED
  BY <1>2 DEF Within

\* What a merge does itself keeps it on its course.
LEMMA OwnMerge ==
    ASSUME FlowInv, GraphInv, MergeInv, NEW p \in Slots, PersonStep(p), Single, Within(p)'
    PROVE  Merged(p)'
<1>1. req[p].op \in {"none", "merge"}
  BY NoMerge
<1>2. Within(p) => Merged(p)
  BY DEF MergeInv, Within, Merged
<1>3. ~Refuse(p) /\ ~CarryAndSucceed(p) /\ ~Succeed(p)
  <2>1. SUFFICES ASSUME Refuse(p) \/ CarryAndSucceed(p) \/ Succeed(p) PROVE FALSE
    OBVIOUS
  <2>2. Leaves(p)
    BY <2>1, RefuseLeaves, SucceedLeaves
  <2>3. req'[p].at \in {"idle", "record"}
    BY <2>2 DEF Leaves, Moves, Idle
  <2> QED
    BY <2>3 DEF Within, InTx
<1>4. CASE \/ SendCreatePerson(p) \/ SendUpdatePerson(p) \/ SendDeletePerson(p)
           \/ SendLinkCase(p) \/ SendCreateRel(p) \/ SendDeleteRel(p) \/ SendMerge(p)
  <2>1. req'[p].op # "merge" \/ req'[p].at \in {"lookup", "case", "merge_source"}
    <3>1. CASE SendMerge(p)
      BY <3>1, SentTo DEF SendMerge
    <3>2. CASE SendCreatePerson(p)
      BY <3>2, SentTo DEF SendCreatePerson
    <3>3. CASE SendUpdatePerson(p)
      BY <3>3, SentTo DEF SendUpdatePerson
    <3>4. CASE SendDeletePerson(p)
      BY <3>4, SentTo DEF SendDeletePerson
    <3>5. CASE SendLinkCase(p)
      BY <3>5, SentTo DEF SendLinkCase
    <3>6. CASE SendCreateRel(p)
      BY <3>6, SentTo DEF SendCreateRel
    <3>7. CASE SendDeleteRel(p)
      BY <3>7, SentTo DEF SendDeleteRel
    <3> QED
      BY <1>4, <3>1, <3>2, <3>3, <3>4, <3>5, <3>6, <3>7
  <2> QED
    BY <2>1 DEF Within, InTx
<1>5. CASE \/ InsertPerson(p) \/ InsertPersonLink(p) \/ FetchPerson(p)
           \/ PrimaryWritable(p) \/ WritePerson(p) \/ RefetchPerson(p)
           \/ DeletePerson(p) \/ InsertLink(p) \/ CheckFrom(p) \/ CheckTo(p)
           \/ InsertRel(p) \/ ReadRel(p) \/ DeleteRel(p)
  <2>1. \E place \in {"person_row", "person_link", "fetch_person", "writable",
                      "update_person", "person_detail", "delete_person", "link_insert",
                      "rel_from", "rel_to", "rel_insert", "rel_read", "rel_delete"} :
           At(p, place)
    BY <1>5 DEF InsertPerson, InsertPersonLink, FetchPerson, PrimaryWritable,
       WritePerson, RefetchPerson, DeletePerson, InsertLink, CheckFrom, CheckTo,
       InsertRel, ReadRel, DeleteRel
  <2>2. req[p].op \notin {"none", "merge"}
    BY <2>1, Standing DEF OnWay, At, Late, Checks
  <2> QED
    BY <1>1, <2>2
<1>6. CASE CheckSource(p) \/ CheckTarget(p)
  <2>1. req'[p].at \in {"merge_target", "merge_links"}
    BY <1>3, <1>6, GotoOn DEF CheckSource, CheckTarget, On
  <2> QED
    BY <2>1 DEF Within, InTx
<1>7. CASE ReadSourceLinks(p)
  BY <1>7, UnitesFirst
<1>8. ASSUME At(p, "merge_link") \/ At(p, "merge_fill") \/ At(p, "merge_from")
             \/ At(p, "merge_to") \/ At(p, "merge_drop") \/ At(p, "merge_unlink")
      PROVE  Within(p) /\ Merged(p)
  BY <1>2, <1>8, Standing DEF Within, InTx, At, OnWay, Late, Checks
<1>9. CASE TakeLink(p) \/ FillLink(p)
  BY <1>8, <1>9, UnitesTaking, UnitesFilling DEF TakeLink, FillLink
<1>10. CASE LinksTaken(p)
  <2>1. On(p, "merge_from", req[p].saw, req[p].tx) /\ req[p].at = "merge_link"
        /\ req[p].saw.rest = {} /\ links' = links
    BY <1>10, GotoOn DEF LinksTaken, At, personVars
  <2>2. /\ req'[p].at = "merge_from" /\ req'[p].case = req[p].case
        /\ req'[p].arg = req[p].arg /\ req'[p].tx = req[p].tx
    BY <2>1 DEF On, Keeps
  <2>3. Pending(req[p]) = {}
    BY <2>1 DEF Pending, InHand
  <2>4. PICK rows : rows = <<>>
    OBVIOUS
  <2>5. DOMAIN rows \cap LinkKeys = {}
    BY <2>4
  <2>6. LinksMerged(req[p])'
    BY <1>8, <2>1, <2>2, <2>3, <2>5, LinksUnited DEF At, Merged, InTx, Taking
  <2>7. RelsMerged(req[p])'
    BY <2>2 DEF RelsMerged
  <2> QED
    BY <2>6, <2>7 DEF Merged
<1>11. CASE MoveFrom(p) \/ MoveTo(p)
  BY <1>3, <1>8, <1>11, UnitesFrom, UnitesTo DEF MoveFrom, MoveTo, Repoint
<1>12. CASE DropDuplicates(p) \/ UnlinkSource(p)
  BY <1>8, <1>12, UnitesDropping, UnitesUnlinking DEF DropDuplicates, UnlinkSource
<1>13. CASE MergeCommit(p) \/ MergeDeadlock(p)
  BY <1>3, <1>13 DEF MergeCommit, MergeDeadlock
<1> QED
  BY <1>4, <1>5, <1>6, <1>7, <1>9, <1>10, <1>11, <1>12, <1>13 DEF PersonStep

\* A step of the middleware, of a check or of another component.
LEMMA ForeignMerge ==
    ASSUME FlowInv, AccessInv, GraphInv, GraphInv', MergeInv, NEW p \in Slots, Others(p),
           crossed \subseteq crossed', UNCHANGED personVars,
           ~Within(p)'
    PROVE  MergeInv'
<1>1. Alters(p)
  BY DEF Alters, personVars
<1>2. PersonTypeOK'
  BY DEF GraphInv
<1> QED
  BY <1>1, <1>2, MergeKept

\* The middleware and the checks bring no request into a transaction.
LEMMA RequestMerge ==
    ASSUME FlowInv, GraphInv, NEW p \in Slots, RequestStep(p)
    PROVE  ~Within(p)'
<1>1. Asked(req[p])
  BY DEF GraphInv
<1>2. req'[p] = Idle => ~Within(p)'
  BY DEF Idle, Within
<1>3. CASE LookupMiss(p) \/ LookupFails(p)
  <2>1. /\ req[p].at = "lookup" /\ req'[p].at \in {"case", req[p].then}
        /\ req'[p].op = req[p].op
    BY <1>3 DEF LookupMiss, LookupFails, At, FlowInv, Fields, FirstStep
  <2> QED
    BY <1>1, <2>1 DEF Asked, Within, InTx
<1>4. CASE CheckCase(p) \/ CheckMember(p)
  <2>1. CASE Keeps(p) /\ req[p].then = "answer" /\ req'[p].at = "record"
    BY <2>1 DEF Within, InTx
  <2>2. CASE \E place \in {"member", req[p].then} : On(p, place, req[p].saw, req[p].tx)
    <3>1. /\ req'[p].at \in {"member", req[p].then} /\ req'[p].op = req[p].op
          /\ req[p].at \in Checks
      BY <1>4, <2>2, ChecksOn DEF On, Keeps
    <3> QED
      BY <1>1, <3>1 DEF Asked, Within, InTx
  <2>3. CASE On(p, "tool_failed", req[p].saw, req[p].tx)
    BY <2>3 DEF On, Within, InTx
  <2> QED
    BY <1>2, <1>4, <2>1, <2>2, <2>3, ChecksOn
<1>5. CASE Replay(p) \/ Record(p) \/ RecordFails(p) \/ CutShort(p)
  BY <1>2, <1>5 DEF Replay, Record, RecordFails, CutShort, FlowInv
<1> QED
  BY <1>3, <1>4, <1>5 DEF RequestStep

\* Every step keeps the merges on their course.
LEMMA MergeNext ==
    ASSUME FlowInv, AccessInv, GraphInv, MergeInv, [Next]_vars
    PROVE  MergeInv'
<1>1. GraphInv'
  BY GraphNext
<1>2. ASSUME NEW p \in Slots, NEW ops, ops \cap PersonOps = {}, Turn(p, ops),
             UNCHANGED personVars
      PROVE  MergeInv'
  <2>1. Others(p) /\ crossed \subseteq crossed'
    BY <1>2 DEF Turn
  <2>2. req'[p].op # "merge"
    <3>1. req'[p] = Idle => req'[p].op = "none"
      BY DEF Idle
    <3> QED
      BY <1>2, <3>1 DEF Turn, Serves, Sent, Quiet, Applies, Ends, InHandler, Same, PersonOps
  <2> QED
    BY <1>1, <1>2, <2>1, <2>2, ForeignMerge DEF Within
<1>3. ASSUME NEW p \in Slots, RequestStep(p), UNCHANGED personVars
      PROVE  MergeInv'
  BY <1>1, <1>3, RequestMerge, RequestStepTurn, ForeignMerge DEF RequestTurn
<1>4. ASSUME NEW p \in Slots, CaseStep(p), UNCHANGED personVars
      PROVE  MergeInv'
  BY <1>2, <1>4, CaseTurn DEF CaseOps, PersonOps
<1>5. ASSUME NEW p \in Slots, PersonStep(p)
      PROVE  MergeInv'
  <2>1. Others(p) /\ crossed \subseteq crossed' /\ Alters(p) /\ PersonTypeOK'
    BY <1>1, <1>5, PersonTurn, PersonAlters DEF Turn, GraphInv
  <2>2. Single' => Single
    BY <2>1 DEF Single
  <2> QED
    BY <1>5, <2>1, <2>2, OwnMerge, MergeKept
<1>6. ASSUME NEW p \in Slots, TimelineStep(p)
      PROVE  MergeInv'
  <2>1. UNCHANGED personVars
    BY <1>6 DEF TimelineStep
  <2> QED
    BY <1>2, <1>6, <2>1, TimelineTurn DEF TimelineOps, PersonOps
<1>7. ASSUME NEW p \in Slots, AgentStep(p)
      PROVE  MergeInv'
  <2>1. UNCHANGED personVars
    BY <1>7 DEF AgentStep
  <2> QED
    BY <1>2, <1>7, <2>1, AgentTurn DEF AgentOps, PersonOps
<1>8. ASSUME NEW p \in Slots, AccountStep(p), UNCHANGED personVars
      PROVE  MergeInv'
  BY <1>2, <1>8, AccountTurn DEF AccountOps, PersonOps
<1>9. ASSUME UNCHANGED <<req, crossed, personVars>>
      PROVE  MergeInv'
  <2>1. UNCHANGED <<req, crossed, links, rels>>
    BY <1>9 DEF personVars
  <2>2. Single' <=> Single
    BY <2>1 DEF Single
  <2>3. ASSUME NEW p \in Slots, Merged(p) PROVE Merged(p)'
    <3>1. LinksMerged(req[p])'
      BY <2>1, <2>3 DEF Merged, LinksMerged, Pending, InHand, Sight
    <3>2. RelsMerged(req[p])'
      BY <2>1, <2>3 DEF Merged, RelsMerged, Joint, Sight
    <3> QED
      BY <3>1, <3>2 DEF Merged
  <2> QED
    BY <2>1, <2>2, <2>3 DEF MergeInv, Merged
<1>10. WindowStep /\ UNCHANGED personVars => UNCHANGED <<req, crossed, personVars>>
  BY DEF WindowStep, WindowEnds, requestVars
<1>11. AllServed \/ UNCHANGED vars => UNCHANGED <<req, crossed, personVars>>
  BY DEF AllServed, vars, requestVars
<1> QED
  BY <1>3, <1>4, <1>5, <1>6, <1>7, <1>8, <1>9, <1>10, <1>11 DEF Next

\* In the beginning there is no merge.
LEMMA MergeInit == WorkInit => MergeInv
<1> SUFFICES ASSUME WorkInit PROVE MergeInv
  OBVIOUS
<1>1. \A p \in Slots : req[p] = Idle
  BY DEF WorkInit, RequestInit
<1> QED
  BY <1>1 DEF MergeInv, Idle

\* The only way out of merge_commit that is no fault is the commit.
LEMMA CommitLeaves ==
    ASSUME FlowInv, [Next]_vars, NEW p \in Slots, At(p, "merge_commit"),
           ~At(p, "merge_commit")', faults' = faults
    PROVE  MergeCommit(p)
<1>1. req[p].op = "merge" /\ req[p].at = "merge_commit"
  BY Standing DEF OnWay, At, Late, Checks
<1>2. req'[p].at # req[p].at
  BY <1>1 DEF At
<1>3. ASSUME NEW q \in Slots, Others(q) PROVE q = p
  BY <1>2, <1>3 DEF Others, Fields
<1>4. ASSUME NEW q \in Slots, NEW ops, Turn(q, ops) PROVE "merge" \in ops /\ q = p
  BY <1>1, <1>3, <1>4 DEF Turn
<1>5. ASSUME NEW q \in Slots, RequestStep(q) PROVE FALSE
  <2>1. q = p
    BY <1>3, <1>5, RequestStepTurn DEF RequestTurn
  <2>2. faults \in Nat
    BY DEF FlowInv
  <2> QED
    BY <1>1, <1>5, <2>1, <2>2 DEF RequestStep, Replay, LookupMiss, LookupFails, Record,
       RecordFails, CheckCase, CheckMember, CutShort, At
<1>6. ASSUME NEW q \in Slots, CaseStep(q) \/ TimelineStep(q) \/ AgentStep(q)
                              \/ AccountStep(q)
      PROVE  FALSE
  BY <1>4, <1>6, CaseTurn, TimelineTurn, AgentTurn, AccountTurn
     DEF CaseOps, TimelineOps, AgentOps, AccountOps
<1>7. ASSUME NEW q \in Slots, PersonStep(q) PROVE MergeCommit(p)
  <2>1. q = p
    BY <1>4, <1>7, PersonTurn
  <2>2. Wanted(p) = {}
    BY <1>1 DEF Wanted, At
  <2>3. ~MergeDeadlock(p)
    BY <2>2 DEF MergeDeadlock, WaitsFor
  <2>4. ~\E op, user : user \in Senders(p, op)
    BY <1>1 DEF Senders, Active
  <2> QED
    BY <1>1, <1>7, <2>1, <2>3, <2>4 DEF PersonStep, SendCreatePerson, InsertPerson,
     SendUpdatePerson, SendDeletePerson, FetchPerson, PrimaryWritable, WritePerson,
     RefetchPerson, DeletePerson, SendLinkCase, SendCreateRel, CheckFrom, CheckTo,
     SendDeleteRel, ReadRel, SendMerge, CheckSource, CheckTarget, ReadSourceLinks,
     TakeLink, FillLink, LinksTaken, MoveFrom, MoveTo, Repoint, DropDuplicates,
     UnlinkSource, InsertPersonLink, InsertLink, InsertRel, DeleteRel, At
<1>8. WindowStep \/ AllServed \/ UNCHANGED vars => UNCHANGED req
  BY DEF WindowStep, WindowEnds, AllServed, vars, requestVars
<1> QED
  BY <1>2, <1>5, <1>6, <1>7, <1>8 DEF Next

(***************************************************************************)
(* A merge that no other operation on the case overlaps loses nothing: in  *)
(* one step the target has every role of the source, with the details it   *)
(* had none of, and every live relationship of either; the source has      *)
(* nothing left in the case, and nothing else changes.                     *)
(***************************************************************************)
THEOREM MergesUnite == Spec => MergeUnites
<1>1. WorkInit => FlowInv /\ AccessInv /\ GraphInv /\ MergeInv
  BY FlowInit, AccessInit, GraphInit, MergeInit
<1>2. FlowInv /\ AccessInv /\ GraphInv /\ MergeInv /\ [Next]_vars
         => FlowInv' /\ AccessInv' /\ GraphInv' /\ MergeInv'
  BY FlowStep, AccessNext, GraphNext, MergeNext
<1> DEFINE Whole(p) ==
            LET c == req[p].case
                s == req[p].arg.source
                t == req[p].arg.target
                Joined(table, x, y) == /\ <<c, x, y>> \in RelKeys
                                       /\ table[<<c, x, y>>].status = "active"
            IN /\ \A role \in RoleTypes :
                    LET old == {links[<<c, s, role>>], links[<<c, t, role>>]} IN
                    /\ links'[<<c, s, role>>] = "absent"
                    /\ old # {"absent"} => links'[<<c, t, role>>] # "absent"
                    /\ "full" \in old => links'[<<c, t, role>>] = "full"
               /\ \A x \in People \ {s, t} :
                    /\ Joined(rels', t, x) = (Joined(rels, s, x) \/ Joined(rels, t, x))
                    /\ Joined(rels', x, t) = (Joined(rels, x, s) \/ Joined(rels, x, t))
               /\ \A x \in People : ~Joined(rels', s, x) /\ ~Joined(rels', x, s)
               /\ \A k \in RelKeys :
                    (k[1] # c \/ {k[2], k[3]} \cap {s, t} = {}) => rels'[k] = rels[k]
               /\ \A k \in LinkKeys :
                    (k[1] # c \/ k[2] \notin {s, t}) => links'[k] = links[k]
<1>3. ASSUME FlowInv, AccessInv, GraphInv, MergeInv, [Next]_vars, NEW p \in Slots,
             At(p, "merge_commit"), ~At(p, "merge_commit")', faults' = faults, Single
      PROVE  Whole(p)
  <2> DEFINE c == req[p].case
             s == req[p].arg.source
             t == req[p].arg.target
  <2>1. req[p].op = "merge" /\ req[p].at = "merge_commit" /\ MergeCommit(p)
    BY <1>3, CommitLeaves, Standing DEF OnWay, At, Late, Checks
  <2>2. links' = Sight(req[p], links) /\ rels' = Sight(req[p], rels)
    BY <1>3, <2>1, MergeSees DEF MergeCommit
  <2>3. LinksMerged(req[p]) /\ RelsMerged(req[p])
    BY <1>3, <2>1 DEF MergeInv, InTx
  <2>4. Apart
    BY <1>3 DEF Apart, Single, MergeOverlaps
  <2>5. Buffered(req[p]) /\ Knows(req[p])
    BY <1>3, <2>4 DEF GraphInv, Ties
  <2>6. /\ c \in Cases /\ s \in People /\ t \in People /\ s # t
        /\ \A role \in RoleTypes, x \in People : <<c, x, role>> \in LinkKeys
        /\ \A x, y \in People : x # y => <<c, x, y>> \in RelKeys
        /\ links \in [LinkKeys -> Details] /\ DOMAIN links = LinkKeys
        /\ DOMAIN rels = RelKeys
    BY <1>3, <2>1, AtHand DEF InTx
  <2>7. ASSUME NEW role \in RoleTypes
        PROVE  LET old == {links[<<c, s, role>>], links[<<c, t, role>>]} IN
               /\ links'[<<c, s, role>>] = "absent"
               /\ old # {"absent"} => links'[<<c, t, role>>] # "absent"
               /\ "full" \in old => links'[<<c, t, role>>] = "full"
    <3>1. PICK k, j : k = <<c, s, role>> /\ j = <<c, t, role>>
      OBVIOUS
    <3>2. k \in LinkKeys /\ j \in LinkKeys
      BY <2>6, <3>1
    <3>3. links'[k] = "absent" /\ links'[j] = United(links[j], links[k])
      BY <2>1, <2>2, <2>3, <3>1 DEF LinksMerged, Pending, Taking
    <3>4. links[k] \in Details /\ links[j] \in Details
      BY <2>6, <3>2
    <3> QED
      BY <3>1, <3>3, <3>4 DEF United, Filled, Details
  <2>8. ASSUME NEW x \in People \ {s, t}
        PROVE  /\ Joint(rels', c, t, x) = (Joint(rels, c, s, x) \/ Joint(rels, c, t, x))
               /\ Joint(rels', c, x, t) = (Joint(rels, c, x, s) \/ Joint(rels, c, x, t))
    <3>1. /\ Joint(rels', c, t, x) <=> Joint(rels, c, s, x) \/ Joint(rels, c, t, x)
          /\ Joint(rels', c, x, t) <=> Joint(rels, c, x, s) \/ Joint(rels, c, x, t)
      BY <2>1, <2>2, <2>3 DEF RelsMerged
    <3>2. \A table, y, z : Joint(table, c, y, z) \in BOOLEAN
      BY DEF Joint
    <3> QED
      BY <3>1, <3>2
  <2>9. ASSUME NEW x \in People PROVE ~Joint(rels', c, s, x) /\ ~Joint(rels', c, x, s)
    <3>1. \A k \in RelKeys : k[1] = c /\ s \in {k[2], k[3]} => rels'[k].status # "active"
      BY <2>1, <2>2, <2>5 DEF Knows
    <3>2. <<c, s, x>>[1] = c /\ <<c, s, x>>[2] = s /\ <<c, x, s>>[1] = c /\ <<c, x, s>>[3] = s
      OBVIOUS
    <3> QED
      BY <3>1, <3>2 DEF Joint
  <2>10. ASSUME NEW k \in RelKeys, k[1] # c \/ {k[2], k[3]} \cap {s, t} = {}
         PROVE  rels'[k] = rels[k]
    <3>1. k \notin DOMAIN req[p].tx
      BY <2>1, <2>5, <2>10 DEF Buffered
    <3> QED
      BY <2>2, <2>6, <3>1 DEF Sight
  <2>11. ASSUME NEW k \in LinkKeys, k[1] # c \/ k[2] \notin {s, t}
         PROVE  links'[k] = links[k]
    <3>1. k \notin DOMAIN req[p].tx
      BY <2>1, <2>5, <2>11 DEF Buffered
    <3> QED
      BY <2>2, <2>6, <3>1 DEF Sight
  <2> QED
    BY <2>7, <2>8, <2>9, <2>10, <2>11 DEF Joint
<1>4. FlowInv /\ AccessInv /\ GraphInv /\ MergeInv /\ [Next]_vars
         => [\A p \in Slots :
               (/\ At(p, "merge_commit") /\ ~(At(p, "merge_commit"))'
                /\ faults' = faults
                /\ \A pair \in crossed : "merge" \notin pair)
               => Whole(p)]_<<req, links, rels, faults, crossed>>
  BY <1>3 DEF Single
<1> QED
  BY <1>1, <1>2, <1>4, PTL DEF Spec, MergeUnites
=============================================================================
