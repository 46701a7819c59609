\* A second domain registered after the first was verified.
SPECIFICATION Spec
CONSTANTS
  d1 = d1
  d2 = d2
  Domains = {d1, d2}
  SenderKeys = {k1}
  s1 = s1
  s2 = s2
  Servers = {s1}
  r1 = r1
  r2 = r2
  Requests = {r1}
  None = None
INVARIANTS SenderOnVerifiedDomain
