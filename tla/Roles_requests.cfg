\* One server, two requests: one updates two roles, the other one of them.
SPECIFICATION FairSpec
CONSTANTS
  s1 = s1
  r1 = r1
  r2 = r2
  editRole = editRole
  editUser = editUser
  Actions = {editRole, editUser}
  EditRole = editRole
  EditUser = editUser
  Choices <- NoneOrEditRole
  ListsOf <- TwoThenOne
  MaxRoles = 3
  Servers = {s1}
  Requests = {r1, r2}
  None = None
INVARIANTS TypeOK ActionsGiven
PROPERTIES RolesConverge
