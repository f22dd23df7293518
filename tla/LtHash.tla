-------------------------------- MODULE LtHash --------------------------------
(***************************************************************************)
(* The set hash: lanes of two bytes, each the sum of the rows' addends     *)
(* modulo their size, its bytes and text, and the aggregate on PostgreSQL's*)
(* varlena, which keeps the lanes in blocks.                               *)
(***************************************************************************)
EXTENDS Integers, Sequences

CONSTANTS
  Lanes,        \* LANES: 1024
  BlockLanes,   \* LANES_PER_BLOCK: 32
  Byte,         \* values of a byte: 256
  Digit,        \* values of a hexadecimal digit: 16
  Digest,       \* row digests
  Expand        \* the bytes BLAKE3's XOF gives for each

ASSUME LanesAssumption ==
  /\ Lanes \in Nat \ {0}
  /\ BlockLanes \in Nat \ {0}
  /\ Lanes % BlockLanes = 0
  /\ Byte \in Nat \ {0}
  /\ Digit \in Nat \ {0}
  /\ Byte <= Digit * Digit

Lane == 1..Lanes
LaneSize == Byte * Byte
StateBytes == 2 * Lanes

ASSUME ExpandAssumption ==
  Expand \in [Digest -> [1..StateBytes -> 0..Byte - 1]]

LtHashCore == [Lane -> 0..LaneSize - 1]

Default == [l \in Lane |-> 0]

\* Mutant of WrappingAdd: the sum is kept in a wider integer.
WideningAdd(x, y) == x + y

WrappingAdd(x, y) == (x + y) % LaneSize

FromLeBytes(low, high) == low + Byte * high

AddRowDigest(state, digest) ==
  LET expanded == Expand[digest] IN
  [l \in Lane |->
     WrappingAdd(state[l], FromLeBytes(expanded[2 * l - 1], expanded[2 * l]))]

Combine(left, right) == [l \in Lane |-> WrappingAdd(left[l], right[l])]

------------------------------------------------------------------------------
(* Bytes and text.  {} is an error. *)

\* Mutant of ToBytes: big-endian lanes.
ToBeBytes(state) ==
  [i \in 1..StateBytes |-> IF i % 2 = 1 THEN state[(i + 1) \div 2] \div Byte
                           ELSE state[i \div 2] % Byte]

ToBytes(state) ==
  [i \in 1..StateBytes |-> IF i % 2 = 1 THEN state[(i + 1) \div 2] % Byte
                           ELSE state[i \div 2] \div Byte]

FromBytes(bytes) ==
  IF Len(bytes) # StateBytes THEN {}
  ELSE {[l \in Lane |-> FromLeBytes(bytes[2 * l - 1], bytes[2 * l])]}

\* A text is its digits, with or without "\x" before them.
Text(prefix, digits) == [prefix |-> prefix, digits |-> digits]

ToHex(state) ==
  LET bytes == ToBytes(state) IN
  Text("", [i \in 1..2 * StateBytes |->
              IF i % 2 = 1 THEN bytes[(i + 1) \div 2] \div Digit
              ELSE bytes[i \div 2] % Digit])

InitialCondition == Text("", <<0>>)

ParseText(input) ==
  CASE input = InitialCondition -> {Default}
    [] input # InitialCondition /\ Len(input.digits) # 2 * StateBytes -> {}
    [] OTHER -> FromBytes([i \in 1..StateBytes |->
                  Digit * input.digits[2 * i - 1] + input.digits[2 * i]])

------------------------------------------------------------------------------
(* The SQL type lthash_state and its aggregate. *)

FromCore(core) ==
  [b \in 1..Lanes \div BlockLanes |->
     [i \in 1..BlockLanes |-> core[(b - 1) * BlockLanes + i]]]

ToCore(blocks) ==
  [l \in Lane |->
     blocks[(l - 1) \div BlockLanes + 1][((l - 1) % BlockLanes) + 1]]

Input(text) == {FromCore(core) : core \in ParseText(text)}

Output(blocks) == ToHex(ToCore(blocks))

\* The state before the first row, from the text of the initial condition.
InitialState == CHOOSE s \in Input(InitialCondition) : TRUE

AggregateState(current, digest) == FromCore(AddRowDigest(ToCore(current), digest))

AggregateCombine(current, other) == FromCore(Combine(ToCore(current), ToCore(other)))

LthashBytes(blocks) == ToBytes(ToCore(blocks))
==============================================================================
