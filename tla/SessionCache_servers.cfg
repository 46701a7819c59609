\* Two servers, one user with two sessions, one log out at a time.
SPECIFICATION Spec
CONSTANTS
  u1 = u1
  s1 = s1
  s2 = s2
  r1 = r1
  Users = {u1}
  Servers = {s1, s2}
  Requests = {r1}
  MaxSessions = 2
INVARIANTS TypeOK LogOutIsImmediate RefusedAfterRefresh
PROPERTIES RefusedForGood
