------------------------- MODULE MCCampaignReports -------------------------
(* Values of the constants of CampaignReports for TLC.                     *)
EXTENDS CampaignReports, TLC

CONSTANTS c1, j1, j2, l1, l2

\* Three emails.  A segment of three users puts two of them into the first
\* bucket; a segment of one user overruns in the third.
LargeFirst == [c \in Campaigns |-> <<34, 33, 33>>]

Times == [u \in Recipients |-> 3 * u + 1]

JobAndLinkSymmetry == Permutations(Jobs) \cup Permutations(Links)

=============================================================================
