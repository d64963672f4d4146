SPECIFICATION MCSpec
CONSTANTS
  Reserves = {r1, r2}
  Missions = {m}
  Documents = {d}
  Devis = {v}
  Ledgers = {l}
  Asked = {p}
  Workers = {w1, w2}
  Users = {c, a}
  Builder <- TheBuilder
  Inspector <- TheInspector
  Requester <- TheRequester
  Organization <- TheOrganization
  Active <- TheActive
  Roles <- TheRoles
  MaxRetries = 1
  Copies = 1
  None = None
  Client = c
  FinanceStaff = {a}
  Sellers = {}
  Admins = {a}
  References = {b1, b2}
  Companies = {o1, o2}
  Due = 2
  Amounts = {1, 2}
  Versions = {1, 2}
INVARIANTS FiledExactlyOnce AnswersAreFinal InboxFollowsFile
PROPERTIES AnnouncedIsHandledInTurn
CHECK_DEADLOCK FALSE
