------------------------------ MODULE Workspace -------------------------------
(***************************************************************************)
(* The API of a workspace: the handlers of cases, persons, timeline, agent *)
(* and accounts, served side by side by the tasks of one or more server    *)
(* processes over one database.                                            *)
(***************************************************************************)
EXTENDS Agent, Accounts

CONSTANT CaseSeeds   \* the cases and members a behaviour can start from

\* A case has the owner who created it, and no other.
Founded(row, roles) ==
    IF row.status = "none" THEN \A u \in Users : roles[u] = "none"
    ELSE /\ row.owner \in Users /\ roles[row.owner] = "owner"
         /\ \A u \in Users \ {row.owner} : roles[u] # "owner"

\* The instances are small, the proofs hold for any finite number.
ASSUME WorkspaceAssumption ==
    /\ IsFiniteSet(Slots) /\ IsFiniteSet(CallIds)
    /\ \A m \in Menus : \A seed \in CaseSeeds[m.about] :
          /\ seed.cases \in [Cases -> CaseRow]
          /\ seed.members \in [Cases -> [Users -> Roles]]
          /\ \A c \in Cases : Founded(seed.cases[c], seed.members[c])

vars == <<requestVars, caseVars, personVars, timelineVars, agentVars, accountVars>>

WorkInit ==
    /\ RequestInit
    /\ \E seed \in CaseSeeds[menu.about] : CaseInit(seed.cases, seed.members)
    /\ PersonInit /\ TimelineInit /\ AgentInit /\ AccountInit

(* Every request has been answered.                                        *)
AllServed == Served /\ UNCHANGED vars

Next ==
    \/ \E p \in Slots :
         \/ /\ RequestStep(p) \/ CaseStep(p)
            /\ UNCHANGED <<personVars, timelineVars, agentVars, accountVars>>
         \/ /\ PersonStep(p)
            /\ UNCHANGED <<timelineVars, agentVars, accountVars>>
         \/ /\ TimelineStep(p)
            /\ UNCHANGED <<agentVars, accountVars>>
         \/ /\ AgentStep(p)
            /\ UNCHANGED accountVars
         \/ /\ AccountStep(p)
            /\ UNCHANGED <<personVars, timelineVars, agentVars>>
    \/ /\ WindowStep
       /\ UNCHANGED <<personVars, timelineVars, agentVars>>
    \/ AllServed

Spec == WorkInit /\ [][Next]_vars

-----------------------------------------------------------------------------
WorkTypeOK ==
    /\ CaseTypeOK /\ PersonTypeOK /\ TimelineTypeOK /\ AgentTypeOK /\ AccountTypeOK

AllWrites == {CaseWrites, PersonWrites, TimelineWrites, AgentWrites}

(* A request that is about to write to a case has been let through to it:  *)
(* since it was sent there was a moment when the case was there, and one   *)
(* when its user had the role it takes, whatever handler or tool it is in  *)
(* and however roles and case changed meanwhile.  They need not be the     *)
(* same moment: each check reads the case and the role in two statements.  *)
AuthorisedWrites ==
    \A table \in AllWrites, p \in Slots :
        req[p].at \in DOMAIN table => {"live", table[req[p].at]} \subseteq req[p].may
=============================================================================
