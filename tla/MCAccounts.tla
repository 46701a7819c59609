----------------------------- MODULE MCAccounts -----------------------------
(* Values of the constants of Accounts for TLC.                            *)
EXTENDS Accounts, TLC

CONSTANTS e1, e2, n1, p1, p2, s1, s2, r1, r2

\* Two people with the same local part at different hosts.
SameName == [e \in Emails |-> n1]

\* No action singles out an email, a password, a server or a request.
Symmetry ==
  Permutations(Passwords) \cup Permutations(Servers) \cup Permutations(Requests)
  \cup Permutations(Emails)
=============================================================================
