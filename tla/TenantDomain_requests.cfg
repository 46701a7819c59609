\* One server with two requests at a time that share the tenant, two domains.
SPECIFICATION Spec
CONSTANTS
  d1 = d1
  d2 = d2
  Domains = {d1, d2}
  SenderKeys = {k1}
  s1 = s1
  s2 = s2
  Servers = {s1}
  r1 = r1
  r2 = r2
  Requests = {r1, r2}
  None = None
SYMMETRY Symmetry
INVARIANTS TypeOK SenderOnOnlyDomain SendersBacked FlagEarned
PROPERTIES DomainKept
