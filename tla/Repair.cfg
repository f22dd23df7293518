\* A coordinator and two peers, each the authority or the target, with one
\* divergence that may be unconfirmed and two writes at any moment.
SPECIFICATION Spec
CONSTANTS
  l = l  p = p  q = q
  a = a  b = b  Absent = Absent
  Node = {l, p, q}
  Local = l
  Key = {1, 2}
  Sequence = Sequence
  Row = {a, b}
  Seen <- MCSeen
  Options <- MCOptions
  Window = 1
  MaxUnconfirmed = 1
  MaxWrites = 2
INVARIANTS TypeOK WritesAuthority CommittedAsVerified RevalidatedAgrees RecordsTell IInv
CHECK_DEADLOCK FALSE
