----------------------------- MODULE MCWorkspace ------------------------------
(* Instances of Workspace for TLC: what each kind of behaviour starts from *)
(* and may request.                                                        *)
EXTENDS Workspace, TLC

CONSTANTS o, m, c1, c2, x1, x2, x3

Symmetric == Permutations(Slots)

Kinds == {"cases", "retry", "graph", "links", "merge", "nodes", "evidence",
          "agent", "auto", "accounts"}

Menu(about, ops, requests, users) ==
    [about |-> about, ops |-> ops, requests |-> requests, keyed |-> FALSE,
     faults |-> 0, users |-> users, cases |-> {c1}]

AllMenus ==
    { Menu("cases", {"update_case", "delete_case"}, 3, {o, m}),
      [Menu("cases", {"create_case", "add_member", "remove_member"}, 3, {o})
         EXCEPT !.cases = {c1, c2}],
      [Menu("cases", {"create_case", "add_member"}, 2, {o}) EXCEPT !.faults = 1],
      [Menu("retry", {"create_node"}, 3, {o, m}) EXCEPT !.keyed = TRUE, !.faults = 1],
      Menu("graph", {"merge", "create_rel", "delete_rel"}, 2, {m}),
      Menu("links", {"merge", "create_person", "link_case", "update_person",
                     "delete_person"}, 2, {m}),
      Menu("nodes", {"create_node", "update_node", "move_node", "delete_node"}, 2, {m}),
      Menu("evidence", {"link_evidence", "unlink_evidence", "delete_file",
                        "remove_member"}, 2, {o, m}),
      [Menu("agent", {"confirm", "reject", "delete_session"}, 3, {m}) EXCEPT !.faults = 1],
      [Menu("agent", {"post", "confirm", "delete_session"}, 2, {m}) EXCEPT !.faults = 1],
      Menu("agent", {"create_session", "post", "confirm", "remove_member"}, 2, {o, m}),
      Menu("auto", {"post", "create_node"}, 2, {m}),
      [Menu("accounts", {"login", "register", "refresh", "logout", "change_password"},
            3, {m}) EXCEPT !.faults = 1] }

MergeMenus == { Menu("merge", {"merge"}, 1, {m}) }

-----------------------------------------------------------------------------
ForEach(seeds) == [kind \in Kinds |-> seeds]

MyCaseSeeds ==
    LET live == [owner |-> o, status |-> "active", name |-> "a"]
        row(role) == [u \in Users |-> IF u = o THEN "owner" ELSE role]
        seed(second, role) ==
          [cases |-> [c \in Cases |-> IF c = c1 THEN live ELSE second],
           members |-> [c \in Cases |-> IF c = c1 THEN row(role)
                                        ELSE IF second = NoCaseRow
                                        THEN [u \in Users |-> "none"]
                                        ELSE row("none")]]
    IN  [ForEach({seed(live, "member")}) EXCEPT
           !["cases"] = {seed(NoCaseRow, "member"), seed(NoCaseRow, "viewer")}]

(* Three persons of a case, and up to two relationships, the second one    *)
(* perhaps deleted: by their symmetry the first may be any; two persons    *)
(* with different links; nobody.                                           *)
Everybody == [x \in People |-> [status |-> "active", name |-> "a"]]
NoLinks   == [k \in LinkKeys |-> "absent"]
NoRels    == [k \in RelKeys |-> NoRel]
Rel(id, status) == [status |-> status, id |-> id]
InC1      == [k \in LinkKeys |-> IF k[1] = c1 /\ k[3] = "w" THEN "full" ELSE "absent"]

Graphs(first) ==
    {[persons |-> Everybody, links |-> InC1,
      rels |-> (first :> Rel(1, "active")) @@ (second :> Rel(2, status)) @@ NoRels] :
        status \in {"active", "deleted"}, second \in {k \in RelKeys : k[1] = c1}}

TwoPersons ==
    {[persons |-> [Everybody EXCEPT ![x3].status = "none"], rels |-> NoRels,
      links |-> (<<c1, x1, "w">> :> a) @@ (<<c1, x1, "v">> :> b)
                @@ (<<c1, x2, "w">> :> "blank") @@ (<<c2, x2, "v">> :> "full")
                @@ NoLinks] :
        a, b \in Details}

MyPersonSeeds ==
    [ForEach({[persons |-> [x \in People |-> [status |-> "none", name |-> "a"]],
               links |-> NoLinks, rels |-> NoRels]}) EXCEPT
       !["graph"] = Graphs(<<c1, x1, x2>>),
       !["merge"] = Graphs(<<c1, x1, x2>>),
       !["links"] = TwoPersons]

(* Two nodes on the first day, a third perhaps on the second; or none.     *)
Node(status, day, order) ==
    [status |-> status, case |-> c1, day |-> day, order |-> order]
Empty == [n \in NodeIds |-> Node("none", 1, 0)]
OneFile == [e \in Evidence |-> [status |-> "active", case |-> IF e = 1 THEN c1 ELSE c2]]
WithNodes(table) == [nodes |-> table @@ Empty, evidence |-> OneFile]

MyTimelineSeeds ==
    [ForEach({WithNodes(Empty)}) EXCEPT
       !["nodes"] = {WithNodes((1 :> Node("active", 1, a)) @@ (2 :> Node("active", 1, b))
                               @@ (3 :> third)) :
                       <<a, b>> \in {<<1, 2>>, <<200, 100>>},
                       third \in {Node("none", 1, 0), Node("active", 2, 1)}},
       !["evidence"] = {WithNodes(1 :> Node("active", 1, 1))}]

(* A session of m in the case, one without a case, a call that waits.      *)
Session(s) ==
    [status |-> IF s = 3 THEN "none" ELSE "active",
     user |-> IF s = 3 THEN NoUser ELSE m, case |-> IF s = 1 THEN c1 ELSE NoCase]
Call(k) ==
    [status |-> IF k = 1 THEN "pending" ELSE "none", session |-> 1,
     tool |-> "create_node", day |-> 1, approval |-> k = 1]
MyAgentSeeds ==
    LET seed(policy) == [auto |-> policy, sessions |-> [s \in SessionIds |-> Session(s)],
                         calls |-> [k \in CallIds |-> Call(k)]]
    IN  [ForEach({seed(FALSE)}) EXCEPT !["auto"] = {seed(TRUE)}]

(* The account is there, or still to be registered.                        *)
MyAccountSeeds ==
    LET seed(status) == [u \in Users |-> [status |-> status, password |-> "p",
                                          version |-> 0, role |-> status = "active"]]
    IN  [ForEach({seed("active")}) EXCEPT
           !["accounts"] = {seed("active"), seed("none")}]
=============================================================================
