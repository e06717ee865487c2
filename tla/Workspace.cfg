SPECIFICATION Spec
CONSTANTS
  Slots = {p1, p2}
  Users = {o, m}
  Cases = {c1, c2}
  NoUser = NoUser
  NoCase = NoCase
  Nothing = Nothing
  p1 = p1
  p2 = p2
  o = o
  m = m
  c1 = c1
  c2 = c2
  x1 = x1
  x2 = x2
  x3 = x3
  Menus <- AllMenus
  CaseSeeds <- MyCaseSeeds
  People = {x1, x2, x3}
  RoleTypes = {"v", "w"}
  RelIds = {1, 2, 3, 4}
  PersonSeeds <- MyPersonSeeds
  NodeIds = {1, 2, 3}
  Days = {1, 2}
  Orders = {100, 150}
  Evidence = {1, 2}
  EvLinkIds = {1, 2}
  TimelineSeeds <- MyTimelineSeeds
  SessionIds = {1, 2, 3}
  CallIds = {1, 2, 3, 4}
  AgentSeeds <- MyAgentSeeds
  Passwords = {"p", "q"}
  Idents = {"name", "email"}
  MaxAttempts = 2
  AccountSeeds <- MyAccountSeeds
SYMMETRY Symmetric
INVARIANTS
  WorkTypeOK
  AuthorisedWrites
  MembershipAgrees
  RetryAppliesOnce
  GraphClosed
  DayOrderUnambiguous
  ExecutedOnce
  DecisionHolds
  TokenProvesPassword
  GuessesBounded
PROPERTIES
  DeletedReturns
  ReplayMeansDone
  MergeUnites
  MoveKeepsOrder
  ChangeKnowsPassword
