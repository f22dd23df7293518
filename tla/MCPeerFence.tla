------------------------------ MODULE MCPeerFence ------------------------------
(***************************************************************************)
(* The TLC runs of PeerFence: the deployments they look at.                *)
(***************************************************************************)
EXTENDS PeerFence

Pair(b1, b2, c) == [backend |-> <<b1, b2>>, carries |-> c]

\* Two peers, and between the pairs each of the five kinds of fence.
MCDeployment == {
  Pair("pglogical", "standby", {1}),
  Pair("pglogical", "native", {2}),
  Pair("native", "standby", {})}

MCSkipped == {Pair("pglogical", "standby", {1})}
==============================================================================
