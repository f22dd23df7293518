-------------------------------- MODULE MCRepair --------------------------------
(***************************************************************************)
(* The TLC run of Repair: the tables and deployments it looks at.          *)
(***************************************************************************)
EXTENDS Repair

CONSTANTS l, p, q, a, b

\* One key with every image at every node (up to the names of the contents),
\* another that differs at one peer.
MCSeen ==
  {[n \in Node |-> <<first[n], IF n = p THEN b ELSE a>>] :
     first \in {f \in [Node -> Image] : f[l] # b}}

\* The sequence at the coordinator and at q, and at p.
At(here, there) ==
  [n \in Node |-> IF n = p THEN there ELSE here]

Deployment(mask, max_reported, capped, forwarded, last_value, loopback) ==
  [mask |-> mask, max_reported |-> max_reported, capped |-> capped,
   forwarded |-> forwarded, last |-> last_value, loopback |-> loopback]

\* Full and superset contracts, and a keys_only one whose deletes are replicated; a
\* sequence that is behind at p, and one that is ahead of its window there.
MCOptions == {
  Deployment({"update", "delete", "truncate"}, 1, {}, {q}, At(0, 0), FALSE),
  Deployment({"update", "delete"}, 2, {b}, {}, At(0, 2), TRUE),
  Deployment({"delete", "truncate"}, 2, {}, {p}, At(1, 0), TRUE)}
==============================================================================
