-------------------------- MODULE CampaignDelivery --------------------------
(***************************************************************************)
(* What the run-campaigns job promises to the recipients of a campaign, in *)
(* terms of what is observable from outside the job: whether the row of    *)
(* the campaign still says Pending, and how many messages each recipient   *)
(* has received.  A campaign is claimed once, before its first message,    *)
(* and each recipient gets at most one message.                            *)
(***************************************************************************)
EXTENDS Naturals

CONSTANTS
  Campaigns,   \* campaign rows
  Recipients   \* positions in the list of users of a segment

VARIABLES
  claimed,     \* claimed[c]: the row of c has left Pending
  delivered    \* delivered[c][u]: messages of c handed over for recipient u

vars == <<claimed, delivered>>

Init ==
  /\ claimed = [c \in Campaigns |-> FALSE]
  /\ delivered = [c \in Campaigns |-> [u \in Recipients |-> 0]]

Claim(c) ==
  /\ ~claimed[c]
  /\ claimed' = [claimed EXCEPT ![c] = TRUE]
  /\ UNCHANGED delivered

Deliver(c, u) ==
  /\ claimed[c]
  /\ delivered[c][u] = 0
  /\ delivered' = [delivered EXCEPT ![c][u] = 1]
  /\ UNCHANGED claimed

Next ==
  \E c \in Campaigns :
    \/ Claim(c)
    \/ \E u \in Recipients : Deliver(c, u)

Spec == Init /\ [][Next]_vars

=============================================================================
