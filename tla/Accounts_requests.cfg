\* One server, two requests, two people with one local part, two passwords.
SPECIFICATION Spec
CONSTANTS
  e1 = e1
  e2 = e2
  n1 = n1
  p1 = p1
  p2 = p2
  s1 = s1
  s2 = s2
  r1 = r1
  r2 = r2
  Emails = {e1, e2}
  Names = {n1}
  NameOf <- SameName
  Passwords = {p1, p2}
  MaxUsers = 2
  Servers = {s1}
  Requests = {r1, r2}
  None = None
SYMMETRY Symmetry
INVARIANTS TypeOK TenantComplete MailedTokenKnown SessionEarned LogInByName
PROPERTIES ActivationKept
