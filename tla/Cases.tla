-------------------------------- MODULE Cases ---------------------------------
(***************************************************************************)
(* The handlers of routes/cases.rs and routes/case_members.rs: they create *)
(* a case, change and delete it, and say who may use it.  None of them     *)
(* opens a transaction: what update_case writes back is the row it read    *)
(* before it checked the access, and a case is inserted before its owner's *)
(* membership.                                                             *)
(***************************************************************************)
EXTENDS Requests

NewName  == {"keep", "b"}                         \* request field `name'
NewStatus == {"keep", "active", "deleted"}        \* request field `status'

CaseInit(rows, roles) ==
    /\ cases = rows
    /\ members = roles

-----------------------------------------------------------------------------
(* POST /cases.  The ids are bounded by Cases.                             *)
SendCreateCase(p) ==
    /\ Cardinality({c \in Cases : cases[c].status = "none"})
         > Cardinality({q \in Slots : req[q].op = "create_case"})
    /\ \E u \in Senders(p, "create_case") :
         Send(p, "create_case", u, NoCase, NoCase, Nothing, "none", "create_case")
    /\ UNCHANGED caseVars

InsertCase(p) ==
    /\ At(p, "create_case")
    /\ \E c \in Cases :
         /\ cases[c].status = "none"
         /\ cases' = [cases EXCEPT ![c] = [owner |-> req[p].user,
                                           status |-> "active", name |-> "a"]]
         /\ UNCHANGED members
         /\ req' = Informed([req EXCEPT ![p].at = "owner_row", ![p].case = c],
                          cases', members)
    /\ keys' = Applied(req[p])
    /\ UNCHANGED bounds

(* ON CONFLICT DO NOTHING.                                                 *)
WithOwnerRow(c, u) ==
    IF members[c][u] = "none" THEN [members EXCEPT ![c][u] = "owner"] ELSE members

InsertOwnerRow(p) ==
    /\ At(p, "owner_row")
    /\ members' = WithOwnerRow(req[p].case, req[p].user)
    /\ UNCHANGED cases
    /\ Check(p, "read", "answer")

(* PUT /cases/:id                                                          *)
SendUpdateCase(p) ==
    /\ \E u \in Senders(p, "update_case"), c \in Cases, n \in NewName, s \in NewStatus :
         /\ <<n, s>> # <<"keep", "keep">>
         /\ Send(p, "update_case", u, c, c, [name |-> n, status |-> s],
                 "none", "read_case")
    /\ UNCHANGED caseVars

FaultyReadCase(p) ==
    /\ At(p, "read_case")
    /\ LET row == cases[req[p].case] IN
         IF row.status = "none" THEN Refuse(p)
         ELSE LearnAndCheck(p, row, "read", "update_case")
    /\ UNCHANGED caseVars

ReadCase(p) ==
    /\ At(p, "read_case")
    /\ LET row == cases[req[p].case] IN
         IF row.status = "none" THEN Refuse(p)
         ELSE LearnAndCheck(p, row, "write", "update_case")
    /\ UNCHANGED caseVars

Rewritten(row, saw, new) ==
    [row EXCEPT !.name = IF new.name = "keep" THEN saw.name ELSE new.name,
                !.status = IF new.status = "keep" THEN saw.status ELSE new.status]

WriteCase(p) ==
    /\ At(p, "update_case")
    /\ cases' = [cases EXCEPT ![req[p].case] =
                   Rewritten(@, req[p].saw, req[p].arg)]
    /\ UNCHANGED members
    /\ req' = Informed([req EXCEPT ![p].at = "case", ![p].need = "read",
                                   ![p].then = "answer"], cases', members)
    /\ keys' = Applied(req[p])
    /\ UNCHANGED bounds

(* DELETE /cases/:id.  The row is read once more, for the log only.        *)
SendDeleteCase(p) ==
    /\ \E u \in Senders(p, "delete_case"), c \in Cases :
         Send(p, "delete_case", u, c, c, Nothing, "own", "delete_case")
    /\ UNCHANGED caseVars

DeleteCase(p) ==
    /\ At(p, "delete_case")
    /\ cases' = [cases EXCEPT ![req[p].case].status = "deleted"]
    /\ UNCHANGED members
    /\ CarryAndSucceed(p)

-----------------------------------------------------------------------------
(* POST /cases/:id/members.  The user must exist: NoUser stands for an id  *)
(* that does not.  Nothing deactivates a user, so that read has no step.   *)
SendAddMember(p) ==
    /\ \E u \in Senders(p, "add_member"), c \in Cases, m \in Users \cup {NoUser},
          role \in Roles \ {"none"} :
         Send(p, "add_member", u, c, c, [user |-> m, role |-> role],
              "own", "add_member")
    /\ UNCHANGED caseVars

FaultyUpsertMember(p) ==
    /\ At(p, "add_member")
    /\ LET r == req[p] IN
       /\ r.arg.user # NoUser
       /\ r.arg.role \in {"member", "viewer"}
       /\ members' = [members EXCEPT ![r.case][r.arg.user] = r.arg.role]
       /\ UNCHANGED cases
       /\ req' = Informed([req EXCEPT ![p].at = "member_row"], cases, members')
       /\ keys' = Applied(r)
    /\ UNCHANGED bounds

UpsertMember(p) ==
    /\ At(p, "add_member")
    /\ LET r == req[p] IN
       /\ r.arg.user \notin {NoUser, r.user}
       /\ r.arg.role \in {"member", "viewer"}
       /\ members' = [members EXCEPT ![r.case][r.arg.user] = r.arg.role]
       /\ UNCHANGED cases
       /\ req' = Informed([req EXCEPT ![p].at = "member_row"], cases, members')
       /\ keys' = Applied(r)
    /\ UNCHANGED bounds

(* The owner stays a member, whatever role the request asks for.           *)
UpsertOwner(p) ==
    /\ At(p, "add_member")
    /\ req[p].arg.user = req[p].user
    /\ members' = WithOwnerRow(req[p].case, req[p].user)
    /\ UNCHANGED cases
    /\ Carry(p, "member_row", Nothing)

RefuseMember(p) ==
    /\ At(p, "add_member")
    /\ LET r == req[p] IN
       \/ r.arg.user = NoUser
       \/ r.arg.user # r.user /\ r.arg.role = "owner"
    /\ Refuse(p)
    /\ UNCHANGED caseVars

(* The row is read back; somebody may have removed it.                     *)
ReadMember(p) ==
    /\ At(p, "member_row")
    /\ IF members[req[p].case][req[p].arg.user] = "none"
       THEN Refuse(p) ELSE Succeed(p)
    /\ UNCHANGED caseVars

(* DELETE /cases/:id/members/:user_id                                      *)
SendRemoveMember(p) ==
    /\ \E u \in Senders(p, "remove_member"), c \in Cases, m \in Users :
         Send(p, "remove_member", u, c, <<c, m>>, [user |-> m], "own", "remove_member")
    /\ UNCHANGED caseVars

RemoveMember(p) ==
    /\ At(p, "remove_member")
    /\ LET r == req[p] IN
         IF r.arg.user = r.user \/ members[r.case][r.arg.user] = "none"
         THEN UNCHANGED members /\ Refuse(p)
         ELSE /\ members' = [members EXCEPT ![r.case][r.arg.user] = "none"]
              /\ CarryAndSucceed(p)
    /\ UNCHANGED cases

-----------------------------------------------------------------------------
(* What the reading handlers answer, in one state: list_cases and          *)
(* list_members the rows, get_case and get_my_membership whether they do   *)
(* and as what.                                                            *)
ListCases(u) ==
    {c \in Cases : /\ cases[c].status \notin {"none", "deleted"}
                   /\ cases[c].owner = u \/ members[c][u] # "none"}

GetCase(u, c) == cases[c].status # "none" /\ Entitled(u, c, "read")

ListMembers(c) == {u \in Users : members[c][u] # "none"}

(* The owner without a row is a member all the same.                       *)
MyMembership(u, c) ==
    IF ~Entitled(u, c, "read") THEN "none"
    ELSE IF members[c][u] # "none" THEN members[c][u]
    ELSE IF cases[c].owner = u THEN "owner" ELSE "none"

CaseStep(p) ==
    \/ SendCreateCase(p) \/ InsertCase(p) \/ InsertOwnerRow(p)
    \/ SendUpdateCase(p) \/ ReadCase(p) \/ WriteCase(p)
    \/ SendDeleteCase(p) \/ DeleteCase(p)
    \/ SendAddMember(p) \/ UpsertMember(p) \/ UpsertOwner(p)
    \/ RefuseMember(p) \/ ReadMember(p)
    \/ SendRemoveMember(p) \/ RemoveMember(p)

(* Where the handlers stand when they are about to write, and the access   *)
(* they checked for it.                                                    *)
CaseWrites ==
    [update_case |-> "write", delete_case |-> "own", add_member |-> "own",
     remove_member |-> "own"]

-----------------------------------------------------------------------------
CaseTypeOK ==
    /\ cases \in [Cases -> CaseRow]
    /\ members \in [Cases -> [Users -> Roles]]
    /\ left \in Nat /\ faults \in 0 .. menu.faults
    /\ keys.twice \subseteq keys.applied

(* A deleted case comes back only through an update_case that was let      *)
(* through while the case was there, and met a delete or another update:   *)
(* it writes the status it read, or was asked for, without a condition.    *)
DeletedReturns ==
    [][\A c \in Cases :
         (cases[c].status = "deleted" /\ cases'[c].status # "deleted") =>
            \E p \in Slots :
               /\ At(p, "update_case") /\ req[p].case = c
               /\ "live" \in req[p].may
               /\ \E op \in {"delete_case", "update_case"} :
                    {"update_case", op} \in crossed]_<<cases, req>>

(* Everyone who can open a case finds it in list_cases and has a role in   *)
(* get_my_membership, nobody else does; the owner heads the list of its    *)
(* members, unless the request that created it ended before it had         *)
(* inserted that row.  No sequence of add_member and remove_member takes   *)
(* the owner out of it or to a lower role.                                 *)
MembershipAgrees ==
    \A c \in Cases :
      /\ \A u \in Users :
           /\ (c \in ListCases(u)) = GetCase(u, c)
           /\ (MyMembership(u, c) # "none") = GetCase(u, c)
           /\ members[c][u] = "owner" => cases[c].owner = u
      /\ Live(c) =>
           \/ members[c][cases[c].owner] = "owner" /\ cases[c].owner \in ListMembers(c)
           \/ <<"create_case", "owner_row">> \in broken
           \/ \E p \in Slots : req[p].case = c /\ At(p, "owner_row")
=============================================================================
