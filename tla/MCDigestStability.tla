-------------------------- MODULE MCDigestStability --------------------------
(***************************************************************************)
(* Constant values for the TLC runs of DigestStability.                    *)
(***************************************************************************)
EXTENDS DigestStability

CONSTANTS n1, n2, n3, absent, a, b, c

\* Key 1 exists when the comparison begins; any other key does not.
MCStart == [k \in Key |-> IF k = 1 THEN a ELSE absent]

\* Key 1 is written at the coordinator, any other key at n2.
OwnedByBoth == [k \in Key |-> IF k = 1 THEN n1 ELSE n2]

OwnedByLocal == [k \in Key |-> n1]

OwnedByThird == [k \in Key |-> n3]
==============================================================================
