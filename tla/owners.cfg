CONSTANTS
  None = None
  Procs = {p1, p2}
  Users = {u1, u2}
  Orgs = {o1}
  Feds = {f1}
  Domains = {d1}
  TenantRoles = {{"IAM_OWNER"}, {"IAM_ADMIN"}}
  OrgRoles = {{"ORG_OWNER"}, {"ORG_USER_MANAGER"}}
  Asked = {"add", "update", "remove", "create", "invite", "provision", "activate", "deactivate", "deleteUser", "claim", "deleteFed"}
SPECIFICATION Spec
SYMMETRY Symmetry
CHECK_DEADLOCK FALSE
CONSTRAINT Within
INVARIANTS TypeOK ALocalOwnerStays ClaimsHaveHolders
PROPERTY LockoutIsForGood
