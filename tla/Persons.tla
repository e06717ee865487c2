------------------------------- MODULE Persons --------------------------------
(***************************************************************************)
(* The handlers of routes/case_persons.rs and routes/persons.rs: persons,  *)
(* their links to cases, their relationships within a case, and the merge  *)
(* of one person into another, which is the one transaction here.          *)
(*                                                                         *)
(* person_case_links and person_relationships are functions on the columns *)
(* of their UNIQUE constraint; there is one rel_type.  Locks are on these  *)
(* keys: a statement waits for the transaction that has written a row it   *)
(* is about to write, or that holds a key it is about to insert, and reads *)
(* after the wait.                                                         *)
(***************************************************************************)
EXTENDS Cases

CONSTANTS
    People,      \* ids of persons
    RoleTypes,   \* role_type of a link
    RelIds,      \* bound: ids of relationships
    PersonSeeds  \* the tables a behaviour can start from

VARIABLES
    persons,     \* the rows of persons
    links,       \* the rows of person_case_links: the role_detail
    rels         \* the rows of person_relationships

personVars == <<persons, links, rels>>

PersonRow == [status : {"none", "active", "deleted"}, name : {"a", "b"}]
LinkKeys  == Cases \X People \X RoleTypes
Details   == {"absent", "blank", "full"}
RelKeys   == {k \in Cases \X People \X People : k[2] # k[3]}
RelRow    == [status : {"absent", "active", "deleted"}, id : RelIds \cup {0}]
NoRel     == [status |-> "absent", id |-> 0]

(* A link and a relationship have different keys, and a behaviour begins   *)
(* with relationships between persons of the case only.                    *)
ASSUME PersonsAssumption ==
    /\ RelIds \subseteq Nat \ {0} /\ RoleTypes \cap People = {}
    /\ \A m \in Menus : \A seed \in PersonSeeds[m.about] :
          /\ seed.persons \in [People -> PersonRow]
          /\ seed.links \in [LinkKeys -> Details]
          /\ seed.rels \in [RelKeys -> RelRow]
          /\ \A k \in RelKeys :
                /\ (seed.rels[k].id = 0) = (seed.rels[k].status = "absent")
                /\ seed.rels[k].status = "active" => \A i \in {2, 3} :
                      \E role \in RoleTypes : seed.links[<<k[1], k[i], role>>] # "absent"

PersonInit == \E seed \in PersonSeeds[menu.about] :
    /\ persons = seed.persons
    /\ links = seed.links
    /\ rels = seed.rels

-----------------------------------------------------------------------------
LinkedIn(c, x) == \E role \in RoleTypes : links[<<c, x, role>>] # "absent"

(* The join of persons and person_case_links that the handlers of a case   *)
(* ask for a person.                                                       *)
InCase(c, x) == LinkedIn(c, x) /\ persons[x].status = "active"

(* fetch_person_with_access, primary_writable_case_for_person: the person  *)
(* is live and linked to a case the user can read, or write to.            *)
Reachable(u, x) ==
    /\ persons[x].status = "active"
    /\ \E c \in Cases : LinkedIn(c, x) /\ Entitled(u, c, "read")
Writable(u, x) == \E c \in Cases : LinkedIn(c, x) /\ Entitled(u, c, "write")

-----------------------------------------------------------------------------
(* POST /cases/:id/persons: the person, then its link.                     *)
Fresh == {x \in People : persons[x].status = "none"}

SendCreatePerson(p) ==
    /\ Cardinality(Fresh)
         > Cardinality({q \in Slots : req[q].op = "create_person"})
    /\ \E u \in Senders(p, "create_person"), c \in Cases, role \in RoleTypes :
         Send(p, "create_person", u, c, c, [role |-> role], "write", "person_row")
    /\ UNCHANGED personVars

InsertPerson(p) ==
    /\ At(p, "person_row")
    /\ \E x \in Fresh :
         /\ persons' = [persons EXCEPT ![x] = [status |-> "active", name |-> "a"]]
         /\ Carry(p, "person_link", x)
    /\ UNCHANGED <<links, rels>>

InsertPersonLink(p) ==
    /\ At(p, "person_link")
    /\ links' = [links EXCEPT ![<<req[p].case, req[p].saw, req[p].arg.role>>] = "full"]
    /\ Succeed(p)
    /\ UNCHANGED <<persons, rels>>

(* PUT /persons/:id.  What is written back is the row read first; but a    *)
(* deleted row is left alone.                                              *)
SendUpdatePerson(p) ==
    /\ \E u \in Senders(p, "update_person"), x \in People :
         Send(p, "update_person", u, NoCase, x, [person |-> x, name |-> "b"],
              "none", "fetch_person")
    /\ UNCHANGED personVars

SendDeletePerson(p) ==
    /\ \E u \in Senders(p, "delete_person"), x \in People :
         Send(p, "delete_person", u, NoCase, x, [person |-> x],
              "none", "fetch_person")
    /\ UNCHANGED personVars

FetchPerson(p) ==
    /\ At(p, "fetch_person")
    /\ IF Reachable(req[p].user, req[p].arg.person)
       THEN Goto(p, "writable") ELSE Refuse(p)
    /\ UNCHANGED personVars

PrimaryWritable(p) ==
    /\ At(p, "writable")
    /\ LET r == req[p] IN
         IF ~Writable(r.user, r.arg.person) THEN Refuse(p)
         ELSE IF r.op = "link_case" THEN Check(p, "write", "link_insert")
         ELSE Goto(p, r.op)
    /\ UNCHANGED personVars

WritePerson(p) ==
    /\ At(p, "update_person")
    /\ LET x == req[p].arg.person IN
         persons' = IF persons[x].status = "active"
                    THEN [persons EXCEPT ![x].name = req[p].arg.name] ELSE persons
    /\ Carry(p, "person_detail", Nothing)
    /\ UNCHANGED <<links, rels>>

(* The row is fetched once more, with the access.                          *)
RefetchPerson(p) ==
    /\ At(p, "person_detail")
    /\ IF Reachable(req[p].user, req[p].arg.person) THEN Succeed(p) ELSE Refuse(p)
    /\ UNCHANGED personVars

(* DELETE /persons/:id leaves its links and relationships as they are.     *)
DeletePerson(p) ==
    /\ At(p, "delete_person")
    /\ persons' = [persons EXCEPT ![req[p].arg.person].status = "deleted"]
    /\ CarryAndSucceed(p)
    /\ UNCHANGED <<links, rels>>

(* POST /persons/:id/cases                                                 *)
SendLinkCase(p) ==
    /\ \E u \in Senders(p, "link_case"), x \in People, c \in Cases, role \in RoleTypes :
         Send(p, "link_case", u, c, x, [person |-> x, role |-> role],
              "none", "fetch_person")
    /\ UNCHANGED personVars

InsertLink(p) ==
    /\ At(p, "link_insert")
    /\ LET key == <<req[p].case, req[p].arg.person, req[p].arg.role>> IN
       /\ ~Locked(p, {key})
       /\ IF links[key] # "absent" THEN UNCHANGED links /\ Refuse(p)
          ELSE /\ links' = [links EXCEPT ![key] = "full"]
               /\ CarryAndSucceed(p)
    /\ UNCHANGED <<persons, rels>>

-----------------------------------------------------------------------------
(* POST /cases/:id/person-relationships                                    *)
FreshRel == RelIds \ {rels[k].id : k \in RelKeys}

SendCreateRel(p) ==
    /\ Cardinality(FreshRel) > Cardinality({q \in Slots : req[q].op = "create_rel"})
    /\ \E u \in Senders(p, "create_rel"), c \in Cases, from, to \in People :
         Send(p, "create_rel", u, c, c, [from |-> from, to |-> to],
              "write", "rel_from")
    /\ UNCHANGED personVars

CheckFrom(p) ==
    /\ At(p, "rel_from")
    /\ LET r == req[p] IN
         IF r.arg.from # r.arg.to /\ InCase(r.case, r.arg.from)
         THEN Goto(p, "rel_to") ELSE Refuse(p)
    /\ UNCHANGED personVars

FaultyCheckTo(p) ==
    /\ At(p, "rel_to")
    /\ Goto(p, "rel_insert")
    /\ UNCHANGED personVars

CheckTo(p) ==
    /\ At(p, "rel_to")
    /\ IF InCase(req[p].case, req[p].arg.to) THEN Goto(p, "rel_insert") ELSE Refuse(p)
    /\ UNCHANGED personVars

(* ON CONFLICT DO NOTHING: the key may be that of a deleted row.           *)
InsertRel(p) ==
    /\ At(p, "rel_insert")
    /\ LET key == <<req[p].case, req[p].arg.from, req[p].arg.to>> IN
       /\ ~Locked(p, {key})
       /\ IF rels[key] # NoRel THEN UNCHANGED rels /\ Refuse(p)
          ELSE /\ \E id \in FreshRel :
                    rels' = [rels EXCEPT ![key] = [status |-> "active", id |-> id]]
               /\ CarryAndSucceed(p)
    /\ UNCHANGED <<persons, links>>

(* DELETE /cases/:id/person-relationships/:rel_id                          *)
SendDeleteRel(p) ==
    /\ \E u \in Senders(p, "delete_rel"), c \in Cases, id \in RelIds :
         Send(p, "delete_rel", u, c, <<c, id>>, [id |-> id], "write", "rel_read")
    /\ UNCHANGED personVars

KeysOf(c, id) == {k \in RelKeys : k[1] = c /\ rels[k].id = id}

ReadRel(p) ==
    /\ At(p, "rel_read")
    /\ LET found == {rels[k] : k \in KeysOf(req[p].case, req[p].arg.id)} IN
         IF found = {} THEN Refuse(p)
         ELSE IF \E row \in found : row.status = "deleted" THEN CarryAndSucceed(p)
         ELSE Goto(p, "rel_delete")
    /\ UNCHANGED personVars

DeleteRel(p) ==
    /\ At(p, "rel_delete")
    /\ LET found == KeysOf(req[p].case, req[p].arg.id) IN
       /\ ~Locked(p, found)
       /\ rels' = [k \in RelKeys |-> IF k \in found
                                     THEN [rels[k] EXCEPT !.status = "deleted"]
                                     ELSE rels[k]]
    /\ CarryAndSucceed(p)
    /\ UNCHANGED <<persons, links>>

-----------------------------------------------------------------------------
(* POST /cases/:id/persons/merge                                           *)
SendMerge(p) ==
    /\ \E u \in Senders(p, "merge"), c \in Cases, source, target \in People :
         Send(p, "merge", u, c, c, [source |-> source, target |-> target],
              "write", "merge_source")
    /\ UNCHANGED personVars

CheckSource(p) ==
    /\ At(p, "merge_source")
    /\ LET r == req[p] IN
         IF r.arg.source # r.arg.target /\ InCase(r.case, r.arg.source)
         THEN Goto(p, "merge_target") ELSE Refuse(p)
    /\ UNCHANGED personVars

CheckTarget(p) ==
    /\ At(p, "merge_target")
    /\ IF InCase(req[p].case, req[p].arg.target)
       THEN Goto(p, "merge_links") ELSE Refuse(p)
    /\ UNCHANGED personVars

(* The transaction begins.  It reads the links of the source, to take them *)
(* over one by one: the one in hand and the rest.                           *)
ReadSourceLinks(p) ==
    /\ At(p, "merge_links")
    /\ LET r == req[p] IN
         Learn(p, "merge_link",
               [link |-> Nothing,
                rest |-> {<<role, links[<<r.case, r.arg.source, role>>]>> :
                            role \in {t \in RoleTypes :
                              links[<<r.case, r.arg.source, t>>] # "absent"}}])
    /\ UNCHANGED personVars

TargetKey(p, role) == <<req[p].case, req[p].arg.target, role>>

(* INSERT ... ON CONFLICT DO NOTHING; on a conflict, an UPDATE that fills  *)
(* the blanks of the row, if it is still there.                            *)
TakeLink(p) ==
    /\ At(p, "merge_link")
    /\ \E link \in req[p].saw.rest :
         LET key == TargetKey(p, link[1]) IN
         /\ ~Locked(p, {key})
         /\ req' = IF Seen(p, links)[key] = "absent"
                   THEN [req EXCEPT ![p].saw.rest = @ \ {link},
                                    ![p].tx = Writes(p, Row(key, link[2]))]
                   ELSE [req EXCEPT ![p].at = "merge_fill",
                                    ![p].saw.link = link,
                                    ![p].saw.rest = @ \ {link}]
    /\ UNCHANGED <<keys, bounds, personVars>>

Filled(row, detail) == IF row = "blank" THEN detail ELSE row

FillLink(p) ==
    /\ At(p, "merge_fill")
    /\ LET link == req[p].saw.link
           key  == TargetKey(p, link[1])
       IN  /\ ~Locked(p, {key})
           /\ req' = [req EXCEPT ![p].at = "merge_link", ![p].saw.link = Nothing,
                        ![p].tx = IF Seen(p, links)[key] = "absent" THEN @
                                  ELSE Writes(p, Row(key, Filled(Seen(p, links)[key],
                                                                link[2])))]
    /\ UNCHANGED <<keys, bounds, personVars>>

LinksTaken(p) ==
    /\ At(p, "merge_link")
    /\ req[p].saw.rest = {}
    /\ Goto(p, "merge_from")
    /\ UNCHANGED personVars

(* The relationships of the source that do not duplicate a live one of the *)
(* target; where they go; and whether the two constraints of the table     *)
(* take them there: no person is related to itself, and the key is unique  *)
(* among all rows, the deleted ones too.                                   *)
Renamed(key, at, x) == [key EXCEPT ![at] = x]

Movable(p, at) ==
    LET table == Seen(p, rels) IN
      {k \in RelKeys :
         /\ k[1] = req[p].case /\ k[at] = req[p].arg.source
         /\ table[k].status = "active"
         /\ LET new == Renamed(k, at, req[p].arg.target) IN
              new \in RelKeys => table[new].status # "active"}

Destinations(p, at) == {Renamed(k, at, req[p].arg.target) : k \in Movable(p, at)}

Allowed(p, at) ==
    \A k \in Destinations(p, at) : k \in RelKeys /\ Seen(p, rels)[k] = NoRel

MovedRows(p, at) ==
    LET table == Seen(p, rels)
        from  == Movable(p, at)
        to    == Destinations(p, at)
        back(k) == Renamed(k, at, req[p].arg.source)
    IN  [k \in from \cup to |-> IF k \in to THEN table[back(k)] ELSE NoRel]

Repoint(p, place, at, next) ==
    /\ At(p, place)
    /\ ~Locked(p, Movable(p, at) \cup Destinations(p, at))
    /\ IF Allowed(p, at) THEN Buffer(p, next, MovedRows(p, at)) ELSE Refuse(p)
    /\ UNCHANGED personVars

MoveFrom(p) == Repoint(p, "merge_from", 2, "merge_to")
MoveTo(p)   == Repoint(p, "merge_to", 3, "merge_drop")

(* What still refers to the source is a duplicate.                         *)
OfSource(p) ==
    {k \in RelKeys : /\ k[1] = req[p].case
                     /\ req[p].arg.source \in {k[2], k[3]}
                     /\ Seen(p, rels)[k].status = "active"}

FaultyDropDuplicates(p) ==
    /\ At(p, "merge_drop")
    /\ Buffer(p, "merge_unlink", <<>>)
    /\ UNCHANGED personVars

DropDuplicates(p) ==
    /\ At(p, "merge_drop")
    /\ ~Locked(p, OfSource(p))
    /\ Buffer(p, "merge_unlink",
              [k \in OfSource(p) |-> [Seen(p, rels)[k] EXCEPT !.status = "deleted"]])
    /\ UNCHANGED personVars

SourceLinks(p) ==
    {k \in LinkKeys : /\ k[1] = req[p].case /\ k[2] = req[p].arg.source
                      /\ Seen(p, links)[k] # "absent"}

UnlinkSource(p) ==
    /\ At(p, "merge_unlink")
    /\ ~Locked(p, SourceLinks(p))
    /\ Buffer(p, "merge_commit", [k \in SourceLinks(p) |-> "absent"])
    /\ UNCHANGED personVars

MergeCommit(p) ==
    /\ At(p, "merge_commit")
    /\ links' = Seen(p, links)
    /\ rels' = Seen(p, rels)
    /\ CarryAndSucceed(p)
    /\ UNCHANGED persons

(* The rows each statement waits for; the database ends one of the         *)
(* transactions that wait for each other.                                  *)
Wanted(p) ==
    LET r == req[p] IN
      CASE At(p, "merge_link")   -> {TargetKey(p, link[1]) : link \in r.saw.rest}
        [] At(p, "merge_fill")   -> {TargetKey(p, r.saw.link[1])}
        [] At(p, "merge_from")   -> Movable(p, 2) \cup Destinations(p, 2)
        [] At(p, "merge_to")     -> Movable(p, 3) \cup Destinations(p, 3)
        [] At(p, "merge_drop")   -> OfSource(p)
        [] At(p, "merge_unlink") -> SourceLinks(p)
        [] OTHER                 -> {}

WaitsFor(p, q) == q # p /\ Wanted(p) \cap DOMAIN req[q].tx # {}

MergeDeadlock(p) ==
    /\ \E q \in Slots : WaitsFor(p, q) /\ WaitsFor(q, p)
    /\ Refuse(p)
    /\ UNCHANGED personVars

-----------------------------------------------------------------------------
(* What the reading handlers show of a case: list_case_persons and the     *)
(* nodes of graph, its edges, list_relationships, which joins the persons, *)
(* and dedupe_candidates by name.                                          *)
ListPersons(c) == {x \in People : InCase(c, x)}

GraphEdges(c) == {k \in RelKeys : k[1] = c /\ rels[k].status = "active"}

ListRelationships(c) ==
    {k \in GraphEdges(c) : /\ persons[k[2]].status = "active"
                           /\ persons[k[3]].status = "active"}

DedupeCandidates(c) ==
    {g \in {{x \in ListPersons(c) : persons[x].name = n} : n \in {"a", "b"}} :
       Cardinality(g) > 1}

PersonStep(p) ==
    /\ \/ SendCreatePerson(p) \/ InsertPerson(p) \/ InsertPersonLink(p)
       \/ SendUpdatePerson(p) \/ SendDeletePerson(p) \/ FetchPerson(p)
       \/ PrimaryWritable(p) \/ WritePerson(p) \/ RefetchPerson(p)
       \/ DeletePerson(p) \/ SendLinkCase(p) \/ InsertLink(p)
       \/ SendCreateRel(p) \/ CheckFrom(p) \/ CheckTo(p) \/ InsertRel(p)
       \/ SendDeleteRel(p) \/ ReadRel(p) \/ DeleteRel(p)
       \/ SendMerge(p) \/ CheckSource(p) \/ CheckTarget(p)
       \/ ReadSourceLinks(p) \/ TakeLink(p) \/ FillLink(p) \/ LinksTaken(p)
       \/ MoveFrom(p) \/ MoveTo(p) \/ DropDuplicates(p) \/ UnlinkSource(p)
       \/ MergeCommit(p) \/ MergeDeadlock(p)
    /\ UNCHANGED caseVars

(* Where these handlers write to a case, and the access they checked.      *)
PersonWrites ==
    [person_row |-> "write", link_insert |-> "write", rel_insert |-> "write",
     rel_delete |-> "write", merge_links |-> "write"]

-----------------------------------------------------------------------------
PersonTypeOK ==
    /\ persons \in [People -> PersonRow]
    /\ links \in [LinkKeys -> Details]
    /\ rels \in [RelKeys -> RelRow]
    /\ \A k \in RelKeys : (rels[k].id = 0) = (rels[k].status = "absent")

MergeOverlaps(op) == {"merge", op} \in crossed

(* A merge that no other operation on the case overlaps loses nothing: in  *)
(* one step the target has every role of the source, with the details it   *)
(* had none of, and every live relationship of either, the source has      *)
(* neither links nor live relationships left in the case, and those of     *)
(* other persons and other cases are as they were.                         *)
MergeUnites ==
    [][\A p \in Slots :
         (/\ At(p, "merge_commit") /\ ~(At(p, "merge_commit"))'
          /\ faults' = faults
          /\ \A pair \in crossed : "merge" \notin pair)
         => LET c == req[p].case
                s == req[p].arg.source
                t == req[p].arg.target
                Joined(table, x, y) == /\ <<c, x, y>> \in RelKeys
                                       /\ table[<<c, x, y>>].status = "active"
            IN /\ \A role \in RoleTypes :
                    LET old == {links[<<c, s, role>>], links[<<c, t, role>>]} IN
                    /\ links'[<<c, s, role>>] = "absent"
                    /\ old # {"absent"} => links'[<<c, t, role>>] # "absent"
                    /\ "full" \in old => links'[<<c, t, role>>] = "full"
               /\ \A x \in People \ {s, t} :
                    /\ Joined(rels', t, x) = (Joined(rels, s, x) \/ Joined(rels, t, x))
                    /\ Joined(rels', x, t) = (Joined(rels, x, s) \/ Joined(rels, x, t))
               /\ \A x \in People : ~Joined(rels', s, x) /\ ~Joined(rels', x, s)
               /\ \A k \in RelKeys :
                    (k[1] # c \/ {k[2], k[3]} \cap {s, t} = {}) => rels'[k] = rels[k]
               /\ \A k \in LinkKeys :
                    (k[1] # c \/ k[2] \notin {s, t}) => links'[k] = links[k]
      ]_<<req, links, rels, faults, crossed>>

(* Both ends of a relationship that list_relationships shows are persons   *)
(* that list_case_persons and graph show, unless a merge overlapped the    *)
(* creation of a relationship, or another merge: nothing locks the persons *)
(* between the checks and the insert.                                      *)
GraphClosed ==
    \/ MergeOverlaps("merge") \/ MergeOverlaps("create_rel")
    \/ \A c \in Cases : \A k \in ListRelationships(c) :
         {k[2], k[3]} \subseteq ListPersons(c)

(* Two persons that dedupe_candidates proposes can be merged: a merge that *)
(* runs alone is not refused once it has found both in the case.  The code *)
(* means to avoid the unique constraint and to drop the self edges; they   *)
(* fail the transaction.                                                   *)
MergeCompletes ==
    [][\A p \in Slots :
         (/\ req[p].at \in {"merge_from", "merge_to"}
          /\ req'[p].op = "none" /\ faults' = faults
          /\ \E g \in DedupeCandidates(req[p].case) :
               {req[p].arg.source, req[p].arg.target} \subseteq g)
         => \E pair \in crossed : "merge" \in pair]_<<req, persons, links, faults, crossed>>
=============================================================================
