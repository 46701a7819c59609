--------------------------- MODULE MCTenantDomain ---------------------------
(* Values of the constants of TenantDomain for TLC.                        *)
EXTENDS TenantDomain, TLC

CONSTANTS d1, d2, s1, s2, r1, r2

\* No action singles out a domain, a server or a request; which object is fresh
\* depends on the objects in use only.
Symmetry ==
  Permutations(Domains) \cup Permutations(Servers) \cup Permutations(Requests)
=============================================================================
