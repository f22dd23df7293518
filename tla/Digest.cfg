\* A row, its near misses and tables of up to four rows on either node; lanes
\* of two bits, so that four copies of a row wrap.
SPECIFICATION Spec
CONSTANTS
  LengthSize = 8
  Lanes <- MCLanes
  BlockLanes = 2
  Byte = 2
  Digit = 2
  Digest <- MCDigest
  Expand <- MCExpand
  Columns <- MCColumns
  Tables <- MCTables
  Sessions <- MCSessions
INVARIANTS TypeOK SameTablesAgree EqualMeansSame TextKeepsState
CHECK_DEADLOCK FALSE
