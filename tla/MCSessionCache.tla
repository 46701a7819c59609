--------------------------- MODULE MCSessionCache ---------------------------
(* Values of the constants of SessionCache for TLC.                        *)
EXTENDS SessionCache

CONSTANTS u1, s1, s2, r1

=============================================================================
