-------------------------- MODULE ValidationPromise --------------------------
(***************************************************************************)
(* What one exact table comparison promises, with no mechanism: rows may   *)
(* drift apart outside replication at any time, and the comparison may     *)
(* report a (peer, key) pair as divergent only if one of the two rows it   *)
(* speaks of really did.  This is guarantee G-SOUND of docs/design.md      *)
(* section 7, which DigestStability implements.                            *)
(***************************************************************************)
CONSTANTS Node, Key, Local, Peer

VARIABLES
  drifted,    \* rows <<node, key>> ever changed outside replication
  reported,   \* pairs <<peer, key>> reported as confirmed divergences
  outcome     \* the verdict of the comparison, "none" while it runs

promiseVars == <<drifted, reported, outcome>>

\* The rows a report about peer p and key k speaks of.
RowsOf(p, k) == {<<Local, k>>, <<p, k>>}

Genuine(p, k) == RowsOf(p, k) \cap drifted # {}

Init ==
  /\ drifted = {}
  /\ reported = {}
  /\ outcome = "none"

Drift(n, k) ==
  /\ drifted' = drifted \cup {<<n, k>>}
  /\ UNCHANGED <<reported, outcome>>

\* A report adds genuine pairs only, and only while no verdict is given.
Report ==
  /\ outcome = "none"
  /\ reported \subseteq reported'
  /\ \A q \in reported' \ reported :
       /\ q \in Peer \X Key
       /\ Genuine(q[1], q[2])
  /\ UNCHANGED <<drifted, outcome>>

Conclude(v) ==
  /\ outcome = "none"
  /\ (v = "differ") <=> (reported # {})
  /\ outcome' = v
  /\ UNCHANGED <<drifted, reported>>

\* A failed comparison withdraws everything it had reported.
Withdraw ==
  /\ outcome = "none"
  /\ outcome' = "error"
  /\ reported' = {}
  /\ UNCHANGED drifted

Next ==
  \/ \E n \in Node, k \in Key : Drift(n, k)
  \/ Report
  \/ \E v \in {"match", "differ", "indeterminate"} : Conclude(v)
  \/ Withdraw

Spec == Init /\ [][Next]_promiseVars
==============================================================================
