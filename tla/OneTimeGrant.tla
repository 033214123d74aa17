---------------------------- MODULE OneTimeGrant ----------------------------
(***************************************************************************)
(* What an approval promises, without the tables, threads and failures     *)
(* that carry it: the permission to run one tool once.  A grant is issued  *)
(* open.  It is closed unused (denied, expired), or claimed by exactly one *)
(* taker, who then uses it once or loses it.  It is never open again.      *)
(***************************************************************************)
EXTENDS Naturals

CONSTANT Grants

VARIABLES
  grant,  \* state of each grant
  uses    \* how often each grant has been used

vars == <<grant, uses>>

GrantState == {"none", "open", "claimed", "spent"}

Init ==
  /\ grant = [g \in Grants |-> "none"]
  /\ uses = [g \in Grants |-> 0]

Issue(g) ==
  /\ grant[g] = "none"
  /\ grant' = [grant EXCEPT ![g] = "open"]
  /\ UNCHANGED uses

Close(g) ==
  /\ grant[g] = "open"
  /\ grant' = [grant EXCEPT ![g] = "spent"]
  /\ UNCHANGED uses

Claim(g) ==
  /\ grant[g] = "open"
  /\ grant' = [grant EXCEPT ![g] = "claimed"]
  /\ UNCHANGED uses

Use(g) ==
  /\ grant[g] = "claimed"
  /\ grant' = [grant EXCEPT ![g] = "spent"]
  /\ uses' = [uses EXCEPT ![g] = @ + 1]

\* The takers of the grants in lost go away without using them.
Lose(lost) ==
  /\ \A g \in lost : grant[g] = "claimed"
  /\ grant' = [g \in Grants |-> IF g \in lost THEN "spent" ELSE grant[g]]
  /\ UNCHANGED uses

Next ==
  \/ \E g \in Grants : Issue(g) \/ Close(g) \/ Claim(g) \/ Use(g)
  \/ \E lost \in SUBSET Grants : Lose(lost)

Spec == Init /\ [][Next]_vars
=============================================================================
