CONSTANTS
  None = None
  Procs = {p1}
  Users = {u1, u2}
  Orgs = {o1}
  Feds = {}
  Domains = {}
  TenantRoles = {{"IAM_OWNER"}, {"IAM_ADMIN"}}
  OrgRoles = {}
  Asked = {"add", "create"}
SPECIFICATION Spec
SYMMETRY Symmetry
CHECK_DEADLOCK FALSE
INVARIANT NeverWithoutLocalOwner
