--------------------------- MODULE MCRunCampaigns ---------------------------
(* Values of the constants of RunCampaigns for TLC.                        *)
EXTENDS RunCampaigns, TLC

CONSTANTS c1, c2, j1, j2

\* Three emails: a segment of one user overruns in the third bucket.
ThreeThirds == [c \in Campaigns |-> <<33, 33, 34>>]

\* One campaign of two emails that share the segment evenly, one of three.
HalvesAndThirds ==
  [c \in Campaigns |-> IF c = c1 THEN <<50, 50>> ELSE <<33, 33, 34>>]

JobSymmetry == Permutations(Jobs)

=============================================================================
