-------------------------- MODULE TableChecksum_proofs --------------------------
(***************************************************************************)
(* Proofs about TableChecksum: the aggregate's lanes and its text, that    *)
(* tables with the same rows are never found to differ, and that a match   *)
(* means the same rows.                                                    *)
(***************************************************************************)
EXTENDS TableChecksum, DataLemmas

------------------------------------------------------------------------------
(* The aggregate state in blocks, bytes and text. *)

\* Lane l lies at position (l - 1) % BlockLanes of block (l - 1) \div BlockLanes.
LEMMA LaneInBlock ==
  ASSUME NEW l \in Lane
  PROVE  /\ (l - 1) \div BlockLanes + 1 \in 1..Lanes \div BlockLanes
         /\ ((l - 1) % BlockLanes) + 1 \in 1..BlockLanes
         /\ ((l - 1) \div BlockLanes) * BlockLanes + ((l - 1) % BlockLanes) + 1 = l
<1>1. PICK m \in Nat \ {0}, n \in Nat \ {0} : m = BlockLanes /\ n = Lanes /\ n % m = 0
  BY LanesAssumption
<1>2. PICK q \in Int, r \in 0..m - 1 :
        q = (l - 1) \div m /\ r = (l - 1) % m /\ l - 1 = m * q + r
  BY <1>1, Division DEF Lane
<1>3. PICK p \in Int : p = n \div m /\ n = m * p
  BY <1>1, Division
<1>4. m * q < m * p /\ -m < m * q
  BY <1>1, <1>2, <1>3 DEF Lane
<1>5. q < p /\ q >= 0
  <2>1. CASE q >= p
    <3>1. PICK d \in Nat : q = p + d
      BY <2>1
    <3>2. m * q = m * p + m * d /\ m * d >= 0
      BY <3>1
    <3> QED
      BY <1>4, <3>2
  <2>2. CASE q <= -1
    <3>1. PICK d \in Nat : q = -1 - d
      BY <2>2
    <3>2. m * q = -m - m * d /\ m * d >= 0
      BY <3>1
    <3> QED
      BY <1>4, <3>2
  <2> QED
    BY <2>1, <2>2
<1>6. q + 1 \in 1..p /\ r + 1 \in 1..m /\ q * m + r + 1 = l
  BY <1>2, <1>5 DEF Lane
<1> QED
  BY <1>1, <1>2, <1>3, <1>6

LEMMA BlocksKeepCore ==
  ASSUME NEW core \in LtHashCore
  PROVE  ToCore(FromCore(core)) = core
<1>1. ASSUME NEW l \in Lane
      PROVE  ToCore(FromCore(core))[l] = core[l]
  <2> DEFINE b == (l - 1) \div BlockLanes + 1
             i == ((l - 1) % BlockLanes) + 1
  <2>1. b \in 1..Lanes \div BlockLanes /\ i \in 1..BlockLanes
    BY LaneInBlock
  <2>2. (b - 1) * BlockLanes + i = l
    <3>1. PICK x \in Int, y \in Int, m \in Int :
            x = (l - 1) \div BlockLanes /\ y = (l - 1) % BlockLanes /\ m = BlockLanes
      BY LanesAssumption DEF Lane
    <3>2. x * m + y + 1 = l
      BY <3>1, LaneInBlock
    <3>3. (x + 1) - 1 = x
      OBVIOUS
    <3>4. ((x + 1) - 1) * m + (y + 1) = l
      BY <3>2, <3>3
    <3> QED
      BY <3>1, <3>4
  <2>3. ToCore(FromCore(core))[l] = FromCore(core)[b][i]
    BY DEF ToCore
  <2> HIDE DEF b, i
  <2>4. FromCore(core)[b][i] = core[(b - 1) * BlockLanes + i]
    BY <2>1 DEF FromCore
  <2> QED
    BY <2>2, <2>3, <2>4
<1>2. core = [l \in Lane |-> core[l]]
  BY DEF LtHashCore
<1>3. ToCore(FromCore(core)) = [l \in Lane |-> ToCore(FromCore(core))[l]]
  BY DEF ToCore
<1> QED
  BY <1>1, <1>2, <1>3

LEMMA LaneSizeType == LaneSize \in Nat \ {0}
<1>1. PICK m \in Nat \ {0} : m = Byte
  BY LanesAssumption
<1>2. m * m \in Nat \ {0}
  OBVIOUS
<1> QED
  BY <1>1, <1>2 DEF LaneSize

LEMMA WrappingAddType ==
  ASSUME NEW x \in Int, NEW y \in Int
  PROVE  WrappingAdd(x, y) \in 0..LaneSize - 1
<1>1. PICK m \in Nat \ {0} : m = LaneSize
  BY LaneSizeType
<1>2. (x + y) % m \in 0..m - 1
  OBVIOUS
<1> QED
  BY <1>1, <1>2 DEF WrappingAdd

\* What digest adds to lane l.
Addend(digest, l) ==
  IF digest \in Digest THEN FromLeBytes(Expand[digest][2 * l - 1], Expand[digest][2 * l])
  ELSE 0

LEMMA AddendType ==
  ASSUME NEW digest, NEW l \in Lane
  PROVE  Addend(digest, l) \in Nat
<1> SUFFICES ASSUME digest \in Digest
             PROVE  FromLeBytes(Expand[digest][2 * l - 1], Expand[digest][2 * l]) \in Nat
  BY DEF Addend
<1>1. PICK m \in Nat \ {0}, n \in Nat \ {0} : m = Byte /\ n = Lanes
  BY LanesAssumption
<1>2. 2 * l - 1 \in 1..StateBytes /\ 2 * l \in 1..StateBytes
  BY <1>1 DEF Lane, StateBytes
<1>3. Expand[digest] \in [1..StateBytes -> 0..Byte - 1]
  BY ExpandAssumption
<1>4. PICK x \in Nat, y \in Nat : x = Expand[digest][2 * l - 1] /\ y = Expand[digest][2 * l]
  <2>1. Expand[digest][2 * l - 1] \in 0..Byte - 1 /\ Expand[digest][2 * l] \in 0..Byte - 1
    BY <1>2, <1>3
  <2>2. 0..m - 1 \subseteq Nat
    OBVIOUS
  <2> QED
    BY <1>1, <2>1, <2>2
<1>5. x + m * y \in Nat
  OBVIOUS
<1> QED
  BY <1>1, <1>4, <1>5 DEF FromLeBytes

LEMMA DefaultType == Default \in LtHashCore
<1>1. 0 \in 0..LaneSize - 1
  BY LaneSizeType
<1> QED
  BY <1>1 DEF Default, LtHashCore

LEMMA InitialStateIsDefault == InitialState = FromCore(Default)
<1>1. ParseText(InitialCondition) = {Default}
  BY DEF ParseText
<1> QED
  BY <1>1 DEF InitialState, Input

LEMMA AddRowDigestType ==
  ASSUME NEW core \in LtHashCore, NEW digest \in Digest
  PROVE  /\ AddRowDigest(core, digest) \in LtHashCore
         /\ \A l \in Lane :
              AddRowDigest(core, digest)[l] = WrappingAdd(core[l], Addend(digest, l))
<1>1. \A l \in Lane :
        AddRowDigest(core, digest)[l] = WrappingAdd(core[l], Addend(digest, l))
  BY DEF AddRowDigest, Addend
<1>2. ASSUME NEW l \in Lane
      PROVE  AddRowDigest(core, digest)[l] \in 0..LaneSize - 1
  <2>1. core[l] \in Int /\ Addend(digest, l) \in Int
    BY AddendType, LaneSizeType DEF LtHashCore
  <2> QED
    BY <1>1, <2>1, WrappingAddType
<1>3. AddRowDigest(core, digest) = [l \in Lane |-> AddRowDigest(core, digest)[l]]
  BY DEF AddRowDigest
<1>4. AddRowDigest(core, digest) \in LtHashCore
  <2> HIDE DEF AddRowDigest
  <2> QED
    BY <1>2, <1>3 DEF LtHashCore
<1> QED
  BY <1>1, <1>4

\* A row added to an aggregate state is added to its lanes.
LEMMA AggregateStateLanes ==
  ASSUME NEW current, ToCore(current) \in LtHashCore, NEW digest \in Digest
  PROVE  /\ ToCore(AggregateState(current, digest)) \in LtHashCore
         /\ AggregateState(current, digest)
              \in {FromCore(core) : core \in LtHashCore}
         /\ \A l \in Lane : ToCore(AggregateState(current, digest))[l]
              = WrappingAdd(ToCore(current)[l], Addend(digest, l))
<1>1. PICK core \in LtHashCore : core = AddRowDigest(ToCore(current), digest)
  BY AddRowDigestType
<1>2. ToCore(FromCore(core)) = core
  BY BlocksKeepCore
<1> QED
  BY <1>1, <1>2, AddRowDigestType DEF AggregateState

LEMMA CombineType ==
  ASSUME NEW c \in LtHashCore, NEW d \in LtHashCore
  PROVE  /\ Combine(c, d) \in LtHashCore
         /\ \A l \in Lane : Combine(c, d)[l] = WrappingAdd(c[l], d[l])
<1>1. ASSUME NEW l \in Lane
      PROVE  WrappingAdd(c[l], d[l]) \in 0..LaneSize - 1
  <2>1. c[l] \in Int /\ d[l] \in Int
    BY LaneSizeType DEF LtHashCore
  <2> QED
    BY <2>1, WrappingAddType
<1> QED
  BY <1>1 DEF Combine, LtHashCore

------------------------------------------------------------------------------

LEMMA BytesOfLane ==
  ASSUME NEW core \in LtHashCore, NEW l \in Lane
  PROVE  /\ ToBytes(core)[2 * l - 1] = core[l] % Byte
         /\ ToBytes(core)[2 * l] = core[l] \div Byte
         /\ core[l] % Byte \in 0..Byte - 1
         /\ core[l] \div Byte \in 0..Byte - 1
         /\ FromLeBytes(ToBytes(core)[2 * l - 1], ToBytes(core)[2 * l]) = core[l]
<1>1. PICK n \in Nat \ {0} : n = Lanes
  BY LanesAssumption
<1>2. /\ 2 * l - 1 \in 1..StateBytes
      /\ (2 * l - 1) % 2 = 1
      /\ ((2 * l - 1) + 1) \div 2 = l
      /\ 2 * l \in 1..StateBytes
      /\ (2 * l) % 2 = 0
      /\ (2 * l) \div 2 = l
  BY <1>1 DEF Lane, StateBytes
<1>3. ToBytes(core)[2 * l - 1] = core[l] % Byte /\ ToBytes(core)[2 * l] = core[l] \div Byte
  BY <1>2 DEF ToBytes
<1>4. PICK m \in Nat \ {0}, c \in Nat : m = Byte /\ c = core[l] /\ c < m * m
  <2>1. PICK m \in Nat \ {0} : m = Byte
    BY LanesAssumption
  <2>2. core[l] \in 0..m * m - 1
    BY <2>1 DEF LtHashCore, LaneSize
  <2>3. PICK k \in Int : k = m * m
    OBVIOUS
  <2>4. core[l] \in Nat /\ core[l] < k
    BY <2>2, <2>3
  <2> QED
    BY <2>1, <2>3, <2>4
<1>5. PICK q \in Int, r \in 0..m - 1 : q = c \div m /\ r = c % m /\ c = m * q + r
  BY Division
<1>6. q \in 0..m - 1
  <2>1. CASE q >= m
    <3>1. PICK d \in Nat : q = m + d
      BY <2>1
    <3>2. PICK x \in Int, y \in Int, z \in Nat : x = m * q /\ y = m * m /\ z = m * d
      OBVIOUS
    <3>3. x = y + z
      BY <3>1, <3>2
    <3>4. c < y /\ c = x + r
      BY <1>4, <1>5, <3>2
    <3> QED
      BY <3>3, <3>4
  <2>2. CASE q <= -1
    <3>1. PICK d \in Nat : q = -1 - d
      BY <2>2
    <3>2. m * q = -m - m * d /\ m * d >= 0
      BY <3>1
    <3> QED
      BY <1>5, <3>2
  <2> QED
    BY <2>1, <2>2
<1>7. r + m * q = c
  BY <1>5
<1> QED
  BY <1>3, <1>4, <1>5, <1>6, <1>7 DEF FromLeBytes

LEMMA BytesType ==
  ASSUME NEW core \in LtHashCore
  PROVE  ToBytes(core) \in [1..StateBytes -> 0..Byte - 1]
<1>1. PICK n \in Nat \ {0} : n = Lanes
  BY LanesAssumption
<1>2. ASSUME NEW i \in 1..StateBytes
      PROVE  ToBytes(core)[i] \in 0..Byte - 1
  <2>1. CASE i % 2 = 1
    <3>1. (i + 1) \div 2 \in Lane /\ 2 * ((i + 1) \div 2) - 1 = i
      BY <1>1, <2>1 DEF Lane, StateBytes
    <3> QED
      BY <3>1, BytesOfLane
  <2>2. CASE i % 2 = 0
    <3>1. i \div 2 \in Lane /\ 2 * (i \div 2) = i
      BY <1>1, <2>2 DEF Lane, StateBytes
    <3> QED
      BY <3>1, BytesOfLane
  <2>3. i % 2 = 0 \/ i % 2 = 1
    OBVIOUS
  <2> QED
    BY <2>1, <2>2, <2>3
<1> QED
  BY <1>2 DEF ToBytes

LEMMA DigitsOfByte ==
  ASSUME NEW core \in LtHashCore, NEW i \in 1..StateBytes
  PROVE  Digit * ToHex(core).digits[2 * i - 1] + ToHex(core).digits[2 * i]
           = ToBytes(core)[i]
<1>1. PICK n \in Nat \ {0}, m \in Nat \ {0}, g \in Nat \ {0} :
        n = Lanes /\ m = Byte /\ g = Digit
  BY LanesAssumption
<1>2. /\ 2 * i - 1 \in 1..2 * StateBytes
      /\ (2 * i - 1) % 2 = 1
      /\ ((2 * i - 1) + 1) \div 2 = i
      /\ 2 * i \in 1..2 * StateBytes
      /\ (2 * i) % 2 = 0
      /\ (2 * i) \div 2 = i
  BY <1>1 DEF StateBytes
<1> DEFINE bytes == ToBytes(core)
<1>3. PICK c \in Nat : c = bytes[i]
  <2>1. bytes[i] \in 0..Byte - 1
    BY BytesType
  <2>2. 0..m - 1 \subseteq Nat
    OBVIOUS
  <2> QED
    BY <1>1, <2>1, <2>2
<1> HIDE DEF bytes
<1>4. ToHex(core).digits = [j \in 1..2 * StateBytes |->
              IF j % 2 = 1 THEN bytes[(j + 1) \div 2] \div Digit
              ELSE bytes[j \div 2] % Digit]
  BY DEF ToHex, Text, bytes
<1>5. ToHex(core).digits[2 * i - 1] = c \div g /\ ToHex(core).digits[2 * i] = c % g
  BY <1>1, <1>2, <1>3, <1>4
<1>6. g * (c \div g) + (c % g) = c
  BY Division
<1> QED
  BY <1>1, <1>3, <1>5, <1>6 DEF bytes

LEMMA TextKeepsCore ==
  ASSUME NEW core \in LtHashCore, NEW prefix
  PROVE  ParseText(Text(prefix, ToHex(core).digits)) = {core}
<1> DEFINE input == Text(prefix, ToHex(core).digits)
           bytes == [i \in 1..StateBytes |->
                       Digit * input.digits[2 * i - 1] + input.digits[2 * i]]
<1>1. PICK n \in Nat \ {0} : n = Lanes
  BY LanesAssumption
<1>2. 2 * StateBytes \in Nat /\ 2 * StateBytes >= 4 /\ StateBytes \in Nat
  BY <1>1 DEF StateBytes
<1>3. Len(input.digits) = 2 * StateBytes
  BY <1>2 DEF ToHex, Text
<1>4. input # InitialCondition
  <2>1. InitialCondition.digits = <<0>>
    BY DEF InitialCondition, Text
  <2> QED
    BY <1>2, <1>3, <2>1
<1>5. bytes = ToBytes(core)
  <2>1. \A i \in 1..StateBytes : bytes[i] = ToBytes(core)[i]
    BY DigitsOfByte DEF Text
  <2>2. ToBytes(core) = [i \in 1..StateBytes |-> ToBytes(core)[i]]
    BY DEF ToBytes
  <2> QED
    BY <2>1, <2>2
<1>6. Len(ToBytes(core)) = StateBytes
  BY <1>2 DEF ToBytes
<1>7. FromBytes(ToBytes(core)) = {core}
  <2>1. \A l \in Lane : FromLeBytes(ToBytes(core)[2 * l - 1], ToBytes(core)[2 * l]) = core[l]
    BY BytesOfLane
  <2>2. core = [l \in Lane |-> core[l]]
    BY DEF LtHashCore
  <2> QED
    BY <1>6, <2>1, <2>2 DEF FromBytes
<1>8. ParseText(input) = FromBytes(bytes)
  <2> HIDE DEF input
  <2> QED
    BY <1>3, <1>4 DEF ParseText
<1> QED
  BY <1>5, <1>7, <1>8

------------------------------------------------------------------------------
(* Type correctness. *)

Partials == {FromCore(core) : core \in LtHashCore}

Typed ==
  /\ table \in [Node -> Tables]
  /\ session \in [Node -> Sessions]
  /\ options \in [json_normalize : BOOLEAN, paranoid_confirm : BOOLEAN]
  /\ at \in Node \cup {"plan", "compare", "over"}
  /\ at \in Node => left \subseteq DOMAIN table[at]
  /\ partial \in [Worker -> Partials]
  /\ verdict \in {"none", "match", "differ", "error"}

LEMMA PartialsType ==
  ASSUME NEW p \in Partials
  PROVE  ToCore(p) \in LtHashCore /\ FromCore(ToCore(p)) = p
<1>1. PICK core \in LtHashCore : p = FromCore(core)
  BY DEF Partials
<1> QED
  BY <1>1, BlocksKeepCore

LEMMA InitialPartials == [w \in Worker |-> InitialState] \in [Worker -> Partials]
<1>1. InitialState \in Partials
  BY InitialStateIsDefault, DefaultType DEF Partials
<1> QED
  BY <1>1

\* A row that is scanned has a digest that the tables' assumption knows.
LEMMA ScannedDigest ==
  ASSUME Typed, at \in Node, NEW i \in left,
         NEW digest \in RowDigests(session[at], Enc(options.json_normalize),
                                   Columns, table[at][i])
  PROVE  digest \in Digest
<1>1. /\ session[at] \in Sessions
      /\ options.json_normalize \in BOOLEAN
      /\ table[at] \in Tables
      /\ i \in DOMAIN table[at]
  BY DEF Typed
<1>2. RowDigests(session[at], Enc(options.json_normalize), Columns, table[at][i])
        \subseteq Digest
  BY <1>1, TablesAssumption
<1> QED
  BY <1>2

LEMMA StartTyped ==
  ASSUME Typed, NEW n \in Node, Start(n), UNCHANGED <<table, options, verdict>>
  PROVE  Typed'
<1>1. session' \in [Node -> Sessions]
  BY DEF Typed, Start, SettingsCte, Node
<1>2. partial' \in [Worker -> Partials]
  BY InitialPartials DEF Start
<1>3. at' \in Node /\ left' \subseteq DOMAIN table'[at']
  BY DEF Start
<1> QED
  BY <1>1, <1>2, <1>3 DEF Typed

LEMMA StepTyped ==
  ASSUME Typed, [Next]_vars
  PROVE  Typed'
<1>1. CASE PlanChunkSql
  <2>1. CASE at' = "over" /\ verdict' = "error" /\ UNCHANGED <<session, left, partial, digests>>
    <3>1. at' \notin Node
      BY <2>1 DEF Node
    <3> QED
      BY <1>1, <2>1, <3>1 DEF PlanChunkSql, Typed
  <2>2. CASE Start("local") /\ UNCHANGED verdict
    BY <1>1, <2>2, StartTyped DEF PlanChunkSql, Node
  <2> QED
    BY <1>1, <2>1, <2>2 DEF PlanChunkSql
<1>2. ASSUME NEW w \in Worker, Scan(w)
      PROVE  Typed'
  <2>1. PICK i \in left :
          \E digest \in RowDigests(session[at], Enc(options.json_normalize),
                                   Columns, table[at][i]) :
            /\ left' = left \ {i}
            /\ partial' = [partial EXCEPT ![w] = AggregateState(@, digest)]
    BY <1>2 DEF Scan
  <2>2. PICK digest \in RowDigests(session[at], Enc(options.json_normalize),
                                   Columns, table[at][i]) :
            /\ left' = left \ {i}
            /\ partial' = [partial EXCEPT ![w] = AggregateState(@, digest)]
    BY <2>1
  <2>3. digest \in Digest
    BY <1>2, <2>2, ScannedDigest DEF Scan
  <2>4. partial[w] \in Partials
    BY DEF Typed
  <2>5. AggregateState(partial[w], digest) \in Partials
    BY <2>3, <2>4, PartialsType, AggregateStateLanes DEF Partials
  <2>6. partial' \in [Worker -> Partials]
    BY <2>2, <2>5 DEF Typed
  <2> QED
    BY <1>2, <2>2, <2>6 DEF Scan, Typed
<1>3. CASE Return
  <2>1. CASE at = "local" /\ Start("peer")
    BY <1>3, <2>1, StartTyped DEF Return, Node
  <2>2. CASE at' = "compare" /\ UNCHANGED <<session, left, partial, digests>>
    <3>1. at' \notin Node
      BY <2>2 DEF Node
    <3> QED
      BY <1>3, <2>2, <3>1 DEF Return, Typed
  <2> QED
    BY <1>3, <2>1, <2>2 DEF Return
<1>4. CASE Compare
  <2>1. at' \notin Node
    BY <1>4 DEF Compare, Node
  <2> QED
    BY <1>4, <2>1 DEF Compare, Typed
<1>5. CASE UNCHANGED vars
  BY <1>5 DEF vars, Typed
<1> QED
  BY <1>1, <1>2, <1>3, <1>4, <1>5 DEF Next

LEMMA InitTyped ==
  ASSUME Init
  PROVE  Typed
<1>1. at \notin Node
  BY DEF Init, Node
<1> QED
  BY <1>1, InitialPartials DEF Init, Typed

\* Every state is well typed: a partial aggregate is always the blocks of a core
\* whose lanes are 16-bit (lthash.rs:37).
THEOREM AlwaysTyped == Spec => []Typed
<1>1. Init => Typed
  BY InitTyped
<1>2. Typed /\ [Next]_vars => Typed'
  BY StepTyped
<1> QED
  BY <1>1, <1>2, PTL DEF Spec

LEMMA TypedCores ==
  ASSUME Typed
  PROVE  \A w \in Worker : partial[w] \in Partials /\ ToCore(partial[w]) \in LtHashCore
BY PartialsType DEF Typed

\* The lanes of every partial aggregate stay 16-bit (lthash.rs:37).
THEOREM TypeCorrect == Spec => []TypeOK
<1>1. Typed => TypeOK
  <2> SUFFICES ASSUME Typed PROVE TypeOK
    OBVIOUS
  <2>1. \A n \in Node : session[n].hash_algorithm \in {s.hash_algorithm : s \in Sessions}
    BY DEF Typed
  <2> QED
    BY <2>1, TypedCores DEF Typed, TypeOK
<1> QED
  BY <1>1, AlwaysTyped, PTL

\* An aggregate state sent as text and read back is the state that was sent,
\* for any number of lanes and blocks (lthash.rs:61-118).
THEOREM TextRoundTrip == Spec => []TextKeepsState
<1>1. Typed => TextKeepsState
  <2> SUFFICES ASSUME Typed, NEW w \in Worker, NEW prefix \in {"", "\\x"}
               PROVE  Input(Text(prefix, Output(partial[w]).digits)) = {partial[w]}
    BY DEF TextKeepsState
  <2> DEFINE core == ToCore(partial[w])
  <2>1. core \in LtHashCore /\ FromCore(core) = partial[w]
    BY PartialsType DEF Typed
  <2>2. Output(partial[w]) = ToHex(core)
    BY DEF Output
  <2>3. ParseText(Text(prefix, ToHex(core).digits)) = {core}
    BY <2>1, TextKeepsCore
  <2>4. Input(Text(prefix, ToHex(core).digits)) = {FromCore(core)}
    BY <2>3 DEF Input
  <2> QED
    BY <2>1, <2>2, <2>4
<1> QED
  BY <1>1, AlwaysTyped, PTL

------------------------------------------------------------------------------
(* Rows that are the same have the same digest. *)

\* The digest of row i of node n under the coordinator's settings.
DigestOf(n, i) ==
  Finalize(session["local"].hash_algorithm,
           Message(session["local"], Enc(options.json_normalize), Columns, table[n][i]))

LEMMA OnlyDigest ==
  ASSUME NEW s, NEW enc, NEW types, NEW row, NEW digest \in RowDigests(s, enc, types, row)
  PROVE  digest = Finalize(s.hash_algorithm, Message(s, enc, types, row))
BY DEF RowDigests, ParseAlgorithm

LEMMA SameFloatNormalizes ==
  ASSUME NEW s, NEW x, NEW y, SameFloat(s, x, y)
  PROVE  Normalize(s, x) = Normalize(s, y)
<1> USE DEF Normalize, NormalizeWithPolicy
<1>1. CASE x = y
  BY <1>1
<1>2. CASE IsZero(x) /\ IsZero(y) /\ ~s.float_signed_zero_distinct
  <2>1. ~IsNaN(x) /\ ~IsNaN(y)
    BY <1>2 DEF IsZero, IsNaN
  <2> QED
    BY <1>2, <2>1
<1>3. CASE IsNaN(x) /\ IsNaN(y) /\ ~s.float_nan_distinct
  <2>1. ~IsZero(x) /\ ~IsZero(y)
    BY <1>3 DEF IsZero, IsNaN
  <2> QED
    BY <1>3, <2>1
<1> QED
  BY <1>1, <1>2, <1>3 DEF SameFloat

LEMMA SameArrayEncodes ==
  ASSUME NEW s, NEW type, NEW x, NEW y, SameArray(s, x, y)
  PROVE  EncodeFloatArray(s, type, x) = EncodeFloatArray(s, type, y)
<1>1. /\ x.dims = y.dims
      /\ x.lower_bounds = y.lower_bounds
      /\ Len(x.elements) = Len(y.elements)
  BY DEF SameArray
<1>2. ASSUME NEW i \in 1..Len(x.elements)
      PROVE  EncodeElement(s, x.elements[i]) = EncodeElement(s, y.elements[i])
  <2>1. CASE x.elements[i] = Null \/ y.elements[i] = Null
    BY <2>1, <1>2 DEF SameArray
  <2>2. CASE ~ (x.elements[i] = Null \/ y.elements[i] = Null)
    <3>1. SameFloat(s, x.elements[i][1], y.elements[i][1])
      BY <2>2, <1>2 DEF SameArray
    <3>2. Normalize(s, x.elements[i][1]) = Normalize(s, y.elements[i][1])
      BY <3>1, SameFloatNormalizes
    <3> QED
      BY <2>2, <3>2 DEF EncodeElement
  <2> QED
    BY <2>1, <2>2
<1>3. [i \in 1..Len(x.elements) |-> EncodeElement(s, x.elements[i])]
        = [i \in 1..Len(y.elements) |-> EncodeElement(s, y.elements[i])]
  BY <1>1, <1>2
<1>4. FlattenSeq([i \in 1..Len(x.elements) |-> EncodeElement(s, x.elements[i])])
        = FlattenSeq([i \in 1..Len(y.elements) |-> EncodeElement(s, y.elements[i])])
  BY <1>3
<1> QED
  BY <1>1, <1>4 DEF EncodeFloatArray

LEMMA SameValueEncodes ==
  ASSUME NEW type, NEW x, NEW y, options.json_normalize \in BOOLEAN,
         SameValue(session["local"], type, x, y)
  PROVE  EncodeDatum(session["local"], type, x, ColumnEncodingMode(type, options.json_normalize))
           = EncodeDatum(session["local"], type, y, ColumnEncodingMode(type, options.json_normalize))
<1> DEFINE s == session["local"]
           mode == ColumnEncodingMode(type, options.json_normalize)
<1>1. CASE x = y
  BY <1>1
<1>2. CASE IsFloat(type)
  <2>1. ~IsFloatArray(type) /\ type # "json" /\ type # "numeric"
    BY <1>2 DEF IsFloat, IsFloatArray
  <2>2. SameFloat(s, x, y)
    BY <1>2, <2>1 DEF SameValue
  <2>3. NormalizeFloatDatum(s, type, x) = NormalizeFloatDatum(s, type, y)
    BY <1>2, <2>2, SameFloatNormalizes DEF NormalizeFloatDatum
  <2>4. mode = EncodingMode.Send
    BY <2>1 DEF ColumnEncodingMode
  <2> HIDE DEF mode
  <2>5. \A v : EncodeDatum(s, type, v, mode) = EncodeSend(type, NormalizeFloatDatum(s, type, v))
    BY <2>1, <2>4 DEF EncodeDatum, EncodingMode
  <2> QED
    BY <2>3, <2>5 DEF mode
<1>3. CASE IsFloatArray(type)
  <2>1. ~IsFloat(type) /\ type # "json" /\ type # "numeric"
    BY <1>3 DEF IsFloat, IsFloatArray
  <2>2. SameArray(s, x, y)
    BY <1>3, <2>1 DEF SameValue
  <2>3. mode = EncodingMode.Send
    BY <2>1 DEF ColumnEncodingMode
  <2> HIDE DEF mode
  <2>4. \A v : EncodeDatum(s, type, v, mode) = EncodeFloatArray(s, type, v)
    BY <1>3, <2>3 DEF EncodeDatum, EncodingMode
  <2> QED
    BY <2>2, <2>4, SameArrayEncodes DEF mode
<1>4. CASE type = "json" /\ options.json_normalize /\ x.document = y.document
  <2>1. ~IsFloat(type) /\ ~IsFloatArray(type)
    BY <1>4 DEF IsFloat, IsFloatArray
  <2>2. mode = EncodingMode.JsonbNormalize
    BY <1>4 DEF ColumnEncodingMode
  <2>3. \A v : EncodeDatum(s, type, v, mode) = <<1, v.document>>
    BY <2>1, <2>2 DEF EncodeDatum, NormalizeFloatDatum, EncodeJsonAsJsonb, EncodingMode
  <2> HIDE DEF mode
  <2> QED
    BY <1>4, <2>3 DEF mode
<1> QED
  BY <1>1, <1>2, <1>3, <1>4 DEF SameValue

LEMMA SameRowMessage ==
  ASSUME NEW r, NEW q, DOMAIN r = DOMAIN Columns, DOMAIN q = DOMAIN Columns,
         options.json_normalize \in BOOLEAN, SameRow(r, q)
  PROVE  Message(session["local"], Enc(options.json_normalize), Columns, r)
           = Message(session["local"], Enc(options.json_normalize), Columns, q)
<1> DEFINE s == session["local"]
           enc == Enc(options.json_normalize)
           Framed(row, i) ==
             FrameValue(IF row[i] = Null THEN Null
                        ELSE <<EncodeDatum(s, Columns[i], row[i][1], enc[i])>>)
<1>1. ASSUME NEW i \in DOMAIN Columns
      PROVE  Framed(r, i) = Framed(q, i)
  <2>1. CASE r[i] = Null \/ q[i] = Null
    BY <2>1, <1>1 DEF SameRow
  <2>2. CASE ~ (r[i] = Null \/ q[i] = Null)
    <3>1. SameValue(s, Columns[i], r[i][1], q[i][1])
      BY <2>2, <1>1 DEF SameRow
    <3>2. enc[i] = ColumnEncodingMode(Columns[i], options.json_normalize)
      BY <1>1 DEF Enc
    <3>3. EncodeDatum(s, Columns[i], r[i][1], enc[i]) = EncodeDatum(s, Columns[i], q[i][1], enc[i])
      BY <3>1, <3>2, SameValueEncodes
    <3> QED
      BY <2>2, <3>3
  <2> QED
    BY <2>1, <2>2
<1>2. [i \in DOMAIN r |-> Framed(r, i)] = [i \in DOMAIN q |-> Framed(q, i)]
  <2> HIDE DEF Framed
  <2> QED
    BY <1>1
<1>3. FlattenSeq([i \in DOMAIN r |-> Framed(r, i)]) = FlattenSeq([i \in DOMAIN q |-> Framed(q, i)])
  <2> HIDE DEF Framed
  <2> QED
    BY <1>2
<1> QED
  BY <1>3 DEF Message

------------------------------------------------------------------------------
(* Being the same row is an equivalence, so tables with the same rows match. *)

LEMMA SameFloatEquivalence ==
  ASSUME NEW s, NEW x, NEW y, NEW z
  PROVE  /\ SameFloat(s, x, x)
         /\ SameFloat(s, x, y) => SameFloat(s, y, x)
         /\ SameFloat(s, x, y) /\ SameFloat(s, y, z) => SameFloat(s, x, z)
BY DEF SameFloat, IsZero, IsNaN

LEMMA SameArrayEquivalence ==
  ASSUME NEW s, NEW x, NEW y, NEW z
  PROVE  /\ SameArray(s, x, x)
         /\ SameArray(s, x, y) => SameArray(s, y, x)
         /\ SameArray(s, x, y) /\ SameArray(s, y, z) => SameArray(s, x, z)
<1>1. SameArray(s, x, x)
  BY SameFloatEquivalence DEF SameArray
<1>2. ASSUME SameArray(s, x, y)
      PROVE  SameArray(s, y, x)
  <2>1. ASSUME NEW i \in 1..Len(x.elements)
        PROVE  IF y.elements[i] = Null \/ x.elements[i] = Null
               THEN y.elements[i] = x.elements[i]
               ELSE SameFloat(s, y.elements[i][1], x.elements[i][1])
    BY <1>2, <2>1, SameFloatEquivalence DEF SameArray
  <2> QED
    BY <1>2, <2>1 DEF SameArray
<1>3. ASSUME SameArray(s, x, y), SameArray(s, y, z)
      PROVE  SameArray(s, x, z)
  <2>1. ASSUME NEW i \in 1..Len(x.elements)
        PROVE  IF x.elements[i] = Null \/ z.elements[i] = Null
               THEN x.elements[i] = z.elements[i]
               ELSE SameFloat(s, x.elements[i][1], z.elements[i][1])
    <3>1. i \in 1..Len(y.elements)
      BY <1>3, <2>1 DEF SameArray
    <3> QED
      BY <1>3, <2>1, <3>1, SameFloatEquivalence DEF SameArray
  <2> QED
    BY <1>3, <2>1 DEF SameArray
<1> QED
  BY <1>1, <1>2, <1>3

LEMMA SameValueEquivalence ==
  ASSUME NEW s, NEW type, NEW x, NEW y, NEW z, options.json_normalize \in BOOLEAN
  PROVE  /\ SameValue(s, type, x, x)
         /\ SameValue(s, type, x, y) => SameValue(s, type, y, x)
         /\ SameValue(s, type, x, y) /\ SameValue(s, type, y, z) => SameValue(s, type, x, z)
<1>1. CASE IsFloat(type)
  <2>1. ~IsFloatArray(type) /\ type # "json"
    BY <1>1 DEF IsFloat, IsFloatArray
  <2>2. \A a, b : SameValue(s, type, a, b) <=> SameFloat(s, a, b)
    BY <1>1, <2>1 DEF SameValue
  <2> QED
    BY <2>2, SameFloatEquivalence
<1>2. CASE IsFloatArray(type)
  <2>1. ~IsFloat(type) /\ type # "json"
    BY <1>2 DEF IsFloat, IsFloatArray
  <2>2. \A a, b : SameValue(s, type, a, b) <=> SameArray(s, a, b)
    BY <1>2, <2>1 DEF SameValue
  <2> QED
    BY <2>2, SameArrayEquivalence
<1>3. CASE ~IsFloat(type) /\ ~IsFloatArray(type) /\ type = "json" /\ options.json_normalize
  <2>1. \A a, b : SameValue(s, type, a, b) <=> a.document = b.document
    BY <1>3 DEF SameValue
  <2> QED
    BY <2>1
<1>4. CASE ~IsFloat(type) /\ ~IsFloatArray(type) /\ ~ (type = "json" /\ options.json_normalize)
  <2>1. \A a, b : SameValue(s, type, a, b) <=> a = b
    BY <1>4 DEF SameValue
  <2> QED
    BY <2>1
<1> QED
  BY <1>1, <1>2, <1>3, <1>4

LEMMA SameRowEquivalence ==
  ASSUME NEW r, NEW q, NEW p, options.json_normalize \in BOOLEAN
  PROVE  /\ SameRow(r, r)
         /\ SameRow(r, q) => SameRow(q, r)
         /\ SameRow(r, q) /\ SameRow(q, p) => SameRow(r, p)
<1>1. SameRow(r, r)
  BY SameValueEquivalence DEF SameRow
<1>2. ASSUME SameRow(r, q)
      PROVE  SameRow(q, r)
  <2>1. ASSUME NEW i \in DOMAIN Columns
        PROVE  IF q[i] = Null \/ r[i] = Null THEN q[i] = r[i]
               ELSE SameValue(session["local"], Columns[i], q[i][1], r[i][1])
    BY <1>2, <2>1, SameValueEquivalence DEF SameRow
  <2> QED
    BY <2>1 DEF SameRow
<1>3. ASSUME SameRow(r, q), SameRow(q, p)
      PROVE  SameRow(r, p)
  <2>1. ASSUME NEW i \in DOMAIN Columns
        PROVE  IF r[i] = Null \/ p[i] = Null THEN r[i] = p[i]
               ELSE SameValue(session["local"], Columns[i], r[i][1], p[i][1])
    BY <1>3, <2>1, SameValueEquivalence DEF SameRow
  <2> QED
    BY <2>1 DEF SameRow
<1> QED
  BY <1>1, <1>2, <1>3

Rows(n) == DOMAIN table[n]

LEMMA RowsFinite ==
  ASSUME Typed, NEW n \in Node
  PROVE  /\ IsFiniteSet(Rows(n))
         /\ Len(table[n]) \in Nat
         /\ Rows(n) = 1..Len(table[n])
         /\ Cardinality(Rows(n)) = Len(table[n])
         /\ \A i \in Rows(n) : DOMAIN table[n][i] = DOMAIN Columns
<1>1. table[n] \in Tables
  BY DEF Typed
<1>2. table[n] \in Seq(Range(table[n])) /\ \A i \in Rows(n) : DOMAIN table[n][i] = DOMAIN Columns
  BY <1>1, TablesAssumption DEF Rows
<1>3. Len(table[n]) \in Nat /\ Rows(n) = 1..Len(table[n])
  BY <1>2 DEF Rows
<1>4. IsFiniteSet(1..Len(table[n])) /\ Cardinality(1..Len(table[n])) = Len(table[n])
  BY <1>3, FS_Interval
<1> QED
  BY <1>2, <1>3, <1>4

\* Tables with the same rows match row by row.
LEMMA SameTablesMatch ==
  ASSUME Typed, SameTables
  PROVE  \E f \in Bijection(Rows("local"), Rows("peer")) :
           \A i \in Rows("local") : SameRow(table["local"][i], table["peer"][f[i]])
<1> DEFINE KindOf(row) == {q \in RowsOfBoth : SameRow(row, q)}
           Kind == {KindOf(row) : row \in RowsOfBoth}
           a == [i \in Rows("local") |-> KindOf(table["local"][i])]
           b == [i \in Rows("peer") |-> KindOf(table["peer"][i])]
<1>0. options.json_normalize \in BOOLEAN
  BY DEF Typed
<1>1. \A n \in Node : \A i \in Rows(n) : table[n][i] \in RowsOfBoth
  BY DEF Rows, RowsOfBoth
<1>2. ASSUME NEW r \in RowsOfBoth, NEW q \in RowsOfBoth
      PROVE  KindOf(q) = KindOf(r) <=> SameRow(r, q)
  <2>1. ASSUME KindOf(q) = KindOf(r)
        PROVE  SameRow(r, q)
    <3>1. q \in KindOf(q)
      BY <1>0, SameRowEquivalence
    <3> QED
      BY <2>1, <3>1
  <2>2. ASSUME SameRow(r, q)
        PROVE  KindOf(q) = KindOf(r)
    <3>1. \A p : SameRow(q, p) <=> SameRow(r, p)
      BY <2>2, <1>0, SameRowEquivalence
    <3> QED
      BY <3>1
  <2> QED
    BY <2>1, <2>2
<1>3. a \in [Rows("local") -> Kind] /\ b \in [Rows("peer") -> Kind]
  <2> HIDE DEF KindOf
  <2> QED
    BY <1>1 DEF Node
<1>4. ASSUME NEW k \in Kind
      PROVE  Cardinality({i \in Rows("local") : a[i] = k})
               = Cardinality({i \in Rows("peer") : b[i] = k})
  <2>1. PICK row \in RowsOfBoth : k = KindOf(row)
    OBVIOUS
  <2>2. {i \in Rows("local") : a[i] = k} = {i \in DOMAIN table["local"] : SameRow(row, table["local"][i])}
    <3> HIDE DEF KindOf
    <3> QED
      BY <1>1, <1>2, <2>1 DEF Rows, Node
  <2>3. {i \in Rows("peer") : b[i] = k} = {i \in DOMAIN table["peer"] : SameRow(row, table["peer"][i])}
    <3> HIDE DEF KindOf
    <3> QED
      BY <1>1, <1>2, <2>1 DEF Rows, Node
  <2>4. Copies(row, table["local"]) = Copies(row, table["peer"])
    BY DEF SameTables
  <2> QED
    BY <2>2, <2>3, <2>4 DEF Copies
<1>5. IsFiniteSet(Rows("local")) /\ IsFiniteSet(Rows("peer"))
  BY RowsFinite DEF Node
<1>6. \E f \in Bijection(Rows("local"), Rows("peer")) : \A i \in Rows("local") : b[f[i]] = a[i]
  <2> HIDE DEF a, b, Kind
  <2> QED
    BY <1>3, <1>4, <1>5, EqualCountsMatch
<1>7. PICK f \in Bijection(Rows("local"), Rows("peer")) :
        \A i \in Rows("local") : b[f[i]] = a[i]
  BY <1>6
<1>8. f \in [Rows("local") -> Rows("peer")]
  BY Fun_BijectionProperties
<1>9. ASSUME NEW i \in Rows("local")
      PROVE  SameRow(table["local"][i], table["peer"][f[i]])
  <2>1. f[i] \in Rows("peer") /\ b[f[i]] = a[i]
    BY <1>7, <1>8
  <2>2. KindOf(table["peer"][f[i]]) = KindOf(table["local"][i])
    BY <2>1
  <2>3. table["local"][i] \in RowsOfBoth /\ table["peer"][f[i]] \in RowsOfBoth
    BY <1>1, <2>1 DEF Node
  <2> HIDE DEF KindOf
  <2> QED
    BY <1>2, <2>2, <2>3
<1> QED
  BY <1>9

------------------------------------------------------------------------------
(* What the aggregates of a scan hold, and what a node has answered. *)

\* What each row of n adds to lane l.
Addends(n, l) == [i \in Rows(n) |-> Addend(DigestOf(n, i), l)]

\* The partial aggregates add up, lane by lane, to the digests of the rows n read.
Lanewise(n) ==
  \A l \in Lane : \A sum : Adds(sum, Addends(n, l), Rows(n)) =>
    WrappingAdd(ToCore(partial[1])[l], ToCore(partial[2])[l]) = sum[Rows(n) \ left] % LaneSize

\* The digests kept are those of the rows n read.
Rowwise(n) ==
  /\ digests \in Seq(Digest)
  /\ \E order \in Bijection(1..Len(digests), Rows(n) \ left) :
       \A k \in 1..Len(digests) : digests[k] = DigestOf(n, order[k])

Scanning(n) ==
  /\ session[n] = session["local"]
  /\ \A i \in Rows(n) \ left : DigestOf(n, i) \in Digest
  /\ Lanewise(n)
  /\ options.paranoid_confirm => Rowwise(n)

\* The hash n answers is that of its rows' digests, in byte order.
SetHash(n, h) ==
  IF ~options.paranoid_confirm THEN h = Null
  ELSE \E order \in Bijection(Rows(n), Rows(n)) :
         /\ \A i, j \in Rows(n) :
              i < j => ~Precedes(DigestOf(n, order[j]), DigestOf(n, order[i]))
         /\ h = <<Finalize(session["local"].hash_algorithm,
                           [k \in Rows(n) |-> DigestOf(n, order[k])])>>

\* n has answered what its table's rows come to, in whatever order they were read.
Answered(n) ==
  /\ \A i \in Rows(n) : DigestOf(n, i) \in Digest
  /\ \E core \in LtHashCore : \E h :
       /\ result[n] = <<[n_rows |-> Len(table[n]), lthash |-> ToBytes(core), set_hash |-> h]>>
       /\ \A l \in Lane : \A sum : Adds(sum, Addends(n, l), Rows(n)) =>
            core[l] = sum[Rows(n)] % LaneSize
       /\ SetHash(n, h)

Progress ==
  /\ result = [n \in Node |-> result[n]]
  /\ \A n \in Node : at = n => Scanning(n)
  /\ at = "peer" => Answered("local")
  /\ at = "compare" => \A n \in Node : Answered(n)
  /\ at = "over" => \/ verdict = "error"
                    \/ /\ \A n \in Node : Answered(n)
                       /\ result["peer"] = result["local"] => verdict = "match"
  /\ at # "over" => verdict = "none"

\* The coordinator's settings, the options and the tables stay as they are.
LEMMA Kept ==
  ASSUME Typed, [Next]_vars
  PROVE  table' = table /\ options' = options /\ session'["local"] = session["local"]
<1>1. \A n \in Node : Start(n) => session'["local"] = session["local"]
  BY DEF Start, SettingsCte, Typed, Node
<1>2. CASE PlanChunkSql
  BY <1>1, <1>2 DEF PlanChunkSql, Node
<1>3. CASE \E w \in Worker : Scan(w)
  BY <1>3 DEF Scan
<1>4. CASE Return
  BY <1>1, <1>4 DEF Return, Node
<1>5. CASE Compare \/ UNCHANGED vars
  BY <1>5 DEF Compare, vars
<1> QED
  BY <1>2, <1>3, <1>4, <1>5 DEF Next

LEMMA KeptDigests ==
  ASSUME table' = table, options' = options, session'["local"] = session["local"]
  PROVE  /\ \A n, i : DigestOf(n, i)' = DigestOf(n, i)
         /\ \A n : Rows(n)' = Rows(n)
         /\ \A n, l : Addends(n, l)' = Addends(n, l)
         /\ \A n, h : SetHash(n, h)' = SetHash(n, h)
<1>1. \A n, i : DigestOf(n, i)' = DigestOf(n, i)
  BY DEF DigestOf
<1>2. \A n : Rows(n)' = Rows(n)
  BY DEF Rows
<1>3. \A n, l : Addends(n, l)' = Addends(n, l)
  BY <1>1, <1>2 DEF Addends
<1>4. \A n, h : SetHash(n, h)' = SetHash(n, h)
  BY <1>1, <1>2 DEF SetHash
<1> QED
  BY <1>1, <1>2, <1>3, <1>4

LEMMA KeptAnswer ==
  ASSUME table' = table, options' = options, session'["local"] = session["local"],
         NEW n, result'[n] = result[n], Answered(n)
  PROVE  Answered(n)'
BY KeptDigests DEF Answered

LEMMA AddendsType ==
  ASSUME NEW n, NEW l \in Lane
  PROVE  Addends(n, l) \in [Rows(n) -> Int]
BY AddendType DEF Addends

LEMMA StartScanning ==
  ASSUME Typed, NEW n \in Node, Start(n), table' = table, options' = options
  PROVE  Scanning(n)'
<1>1. session' = [session EXCEPT ![n] = session["local"]] /\ session \in [Node -> Sessions]
  BY DEF Start, SettingsCte, Typed
<1>2. session'[n] = session["local"] /\ session'["local"] = session["local"]
  BY <1>1 DEF Node
<1>3. /\ \A m, i : DigestOf(m, i)' = DigestOf(m, i)
      /\ \A m : Rows(m)' = Rows(m)
      /\ \A m, l : Addends(m, l)' = Addends(m, l)
  BY <1>2, KeptDigests
<1>4. Rows(n)' \ left' = {}
  BY DEF Start, Rows
<1>5. Lanewise(n)'
  <2> SUFFICES ASSUME NEW l \in Lane, NEW sum, Adds(sum, Addends(n, l)', Rows(n)')
               PROVE  WrappingAdd(ToCore(partial'[1])[l], ToCore(partial'[2])[l])
                        = sum[Rows(n)' \ left'] % LaneSize
    BY DEF Lanewise
  <2>1. partial'[1] = FromCore(Default) /\ partial'[2] = FromCore(Default)
    BY InitialStateIsDefault DEF Start, Worker
  <2>2. ToCore(FromCore(Default)) = Default /\ Default[l] = 0
    BY DefaultType, BlocksKeepCore DEF Default
  <2>3. sum[{}] = 0
    BY DEF Adds
  <2>4. PICK m \in Nat \ {0} : m = LaneSize
    BY LaneSizeType
  <2>5. 0 % m = 0 /\ 0 + 0 = 0
    OBVIOUS
  <2>6. WrappingAdd(0, 0) = 0 % LaneSize
    BY <2>4, <2>5 DEF WrappingAdd
  <2> QED
    BY <1>4, <2>1, <2>2, <2>3, <2>6
<1>6. Rowwise(n)'
  <2>1. digests' = <<>> /\ <<>> \in Seq(Digest) /\ 1..Len(<<>>) = {}
    BY DEF Start
  <2>2. [x \in {} |-> x] \in Bijection({}, {})
    BY Fun_IsBij
  <2>3. digests' \in Seq(Digest) /\ 1..Len(digests') = {}
    BY <2>1
  <2>4. \E order \in Bijection(1..Len(digests'), Rows(n)' \ left') :
          \A k \in 1..Len(digests') : digests'[k] = DigestOf(n, order[k])
    BY <1>4, <2>2, <2>3
  <2> QED
    BY <1>3, <2>3, <2>4 DEF Rowwise
<1>7. \A i \in Rows(n)' \ left' : DigestOf(n, i)' \in Digest
  BY <1>4
<1> QED
  BY <1>2, <1>5, <1>6, <1>7 DEF Scanning

\* Whichever partial aggregate a row goes to, the combination grows by it.
LEMMA LaneGrows ==
  ASSUME NEW x \in Int, NEW y \in Int, NEW a \in Int, NEW s \in Int,
         WrappingAdd(x, y) = s % LaneSize
  PROVE  /\ WrappingAdd(WrappingAdd(x, a), y) = (s + a) % LaneSize
         /\ WrappingAdd(x, WrappingAdd(y, a)) = (s + a) % LaneSize
<1>1. PICK m \in Nat \ {0} : m = LaneSize
  BY LaneSizeType
<1>2. (x + y) % m = s % m
  BY <1>1 DEF WrappingAdd
<1>3. (((x + a) % m) + y) % m = (((x + y) % m) + a) % m
  BY ReducedSumSwaps
<1>4. (((y + a) % m) + x) % m = (((y + x) % m) + a) % m
  BY ReducedSumSwaps
<1>5. ((s % m) + a) % m = (s + a) % m
  BY ReducedSum
<1>6. y + x = x + y
  OBVIOUS
<1>7. PICK z \in Int : z = (y + a) % m
  OBVIOUS
<1>8. x + z = z + x
  OBVIOUS
<1> QED
  BY <1>1, <1>2, <1>3, <1>4, <1>5, <1>6, <1>7, <1>8 DEF WrappingAdd

LEMMA ScanLanewise ==
  ASSUME Typed, NEW n \in Node, at = n, Lanewise(n),
         NEW w \in Worker, NEW i \in left, NEW digest \in Digest, digest = DigestOf(n, i),
         left' = left \ {i}, partial' = [partial EXCEPT ![w] = AggregateState(@, digest)],
         NEW l \in Lane, NEW sum, Adds(sum, Addends(n, l), Rows(n))
  PROVE  WrappingAdd(ToCore(partial'[1])[l], ToCore(partial'[2])[l])
           = sum[Rows(n) \ left'] % LaneSize
<1> DEFINE read == Rows(n) \ left
           p == ToCore(partial[1])
           q == ToCore(partial[2])
           a == Addend(digest, l)
<1>1. p \in LtHashCore /\ q \in LtHashCore
  BY TypedCores DEF Worker
<1>2. p[l] \in Int /\ q[l] \in Int /\ a \in Int
  BY <1>1, AddendType, LaneSizeType DEF LtHashCore
<1>3. i \in Rows(n) \ read /\ read \in SUBSET Rows(n) /\ Rows(n) \ left' = read \cup {i}
  BY DEF Typed, Rows
<1>4. Addends(n, l)[i] = a
  BY <1>3 DEF Addends
<1>5. sum[read \cup {i}] = sum[read] + a /\ sum[read] \in Int
  BY <1>3, <1>4 DEF Adds
<1>6. WrappingAdd(p[l], q[l]) = sum[read] % LaneSize
  BY DEF Lanewise
<1> HIDE DEF p, q, a, read
<1>7. /\ WrappingAdd(WrappingAdd(p[l], a), q[l]) = (sum[read] + a) % LaneSize
      /\ WrappingAdd(p[l], WrappingAdd(q[l], a)) = (sum[read] + a) % LaneSize
  <2>1. PICK x \in Int, y \in Int, b \in Int, s \in Int :
          x = p[l] /\ y = q[l] /\ b = a /\ s = sum[read]
    BY <1>2, <1>5
  <2>2. WrappingAdd(x, y) = s % LaneSize
    BY <1>6, <2>1
  <2>3. /\ WrappingAdd(WrappingAdd(x, b), y) = (s + b) % LaneSize
        /\ WrappingAdd(x, WrappingAdd(y, b)) = (s + b) % LaneSize
    BY <2>2, LaneGrows
  <2> QED
    BY <2>1, <2>3
<1>8. CASE w = 1
  <2>1. partial'[1] = AggregateState(partial[1], digest) /\ partial'[2] = partial[2]
    BY <1>8 DEF Typed, Worker
  <2>2. ToCore(partial'[1])[l] = WrappingAdd(p[l], a)
    BY <1>1, <2>1, AggregateStateLanes DEF p, a
  <2>3. ToCore(partial'[2])[l] = q[l]
    BY <2>1 DEF q
  <2> QED
    BY <1>3, <1>5, <1>7, <2>2, <2>3
<1>9. CASE w = 2
  <2>1. partial'[2] = AggregateState(partial[2], digest) /\ partial'[1] = partial[1]
    BY <1>9 DEF Typed, Worker
  <2>2. ToCore(partial'[2])[l] = WrappingAdd(q[l], a)
    BY <1>1, <2>1, AggregateStateLanes DEF q, a
  <2>3. ToCore(partial'[1])[l] = p[l]
    BY <2>1 DEF p
  <2> QED
    BY <1>3, <1>5, <1>7, <2>2, <2>3
<1> QED
  BY <1>8, <1>9 DEF Worker

LEMMA ScanRowwise ==
  ASSUME Typed, NEW n \in Node, at = n, Rowwise(n),
         NEW i \in left, NEW digest \in Digest, digest = DigestOf(n, i)
  PROVE  LET ds == Append(digests, digest) IN
         /\ ds \in Seq(Digest)
         /\ \E order \in Bijection(1..Len(ds), Rows(n) \ (left \ {i})) :
              \A k \in 1..Len(ds) : ds[k] = DigestOf(n, order[k])
<1> DEFINE ds == Append(digests, digest)
           read == Rows(n) \ left
           more == Rows(n) \ (left \ {i})
<1>1. PICK order \in Bijection(1..Len(digests), read) :
        \A k \in 1..Len(digests) : digests[k] = DigestOf(n, order[k])
  BY DEF Rowwise
<1>2. /\ order \in [1..Len(digests) -> read]
      /\ \A j, k \in 1..Len(digests) : order[j] = order[k] => j = k
      /\ \A t \in read : \E k \in 1..Len(digests) : order[k] = t
  <2> HIDE DEF read
  <2> QED
    BY <1>1, Fun_BijectionProperties
<1>3. more = read \cup {i} /\ i \notin read
  BY DEF Typed, Rows
<1>4. PICK N \in Nat : N = Len(digests)
  BY DEF Rowwise
<1>5. /\ ds \in Seq(Digest)
      /\ Len(ds) = N + 1
      /\ \A k \in 1..N : ds[k] = digests[k]
      /\ ds[N + 1] = digest
  BY <1>4 DEF Rowwise
<1> HIDE DEF ds, read, more
<1> DEFINE next == [k \in 1..N + 1 |-> IF k = N + 1 THEN i ELSE order[k]]
<1>6. next \in [1..N + 1 -> more]
  BY <1>2, <1>3, <1>4
<1>7. \A j, k \in 1..N + 1 : next[j] = next[k] => j = k
  <2> SUFFICES ASSUME NEW j \in 1..N + 1, NEW k \in 1..N + 1, next[j] = next[k]
               PROVE  j = k
    OBVIOUS
  <2>1. CASE j \in 1..N /\ k \in 1..N
    BY <1>2, <1>4, <2>1
  <2>2. CASE j = N + 1 /\ k \in 1..N
    BY <1>2, <1>3, <1>4, <2>2
  <2>3. CASE k = N + 1 /\ j \in 1..N
    BY <1>2, <1>3, <1>4, <2>3
  <2> QED
    BY <2>1, <2>2, <2>3
<1>8. \A t \in more : \E k \in 1..N + 1 : next[k] = t
  <2> SUFFICES ASSUME NEW t \in more PROVE \E k \in 1..N + 1 : next[k] = t
    OBVIOUS
  <2>1. CASE t = i
    BY <2>1
  <2>2. CASE t \in read
    BY <1>2, <1>4, <2>2
  <2> QED
    BY <1>3, <2>1, <2>2
<1>9. next \in Bijection(1..N + 1, more)
  <2> HIDE DEF next
  <2> QED
    BY <1>6, <1>7, <1>8, Fun_IsBij
<1>10. \A k \in 1..N + 1 : ds[k] = DigestOf(n, next[k])
  BY <1>1, <1>4, <1>5
<1> HIDE DEF next
<1> QED
  BY <1>5, <1>9, <1>10 DEF ds, more

LEMMA ScanScanning ==
  ASSUME Typed, NEW w \in Worker, Scan(w), NEW n \in Node, at = n, Scanning(n)
  PROVE  Scanning(n)'
<1>1. PICK i \in left :
        \E digest \in RowDigests(session[at], Enc(options.json_normalize),
                                 Columns, table[at][i]) :
          /\ left' = left \ {i}
          /\ partial' = [partial EXCEPT ![w] = AggregateState(@, digest)]
          /\ digests' = IF options.paranoid_confirm THEN Append(digests, digest)
                        ELSE digests
  BY DEF Scan
<1>2. PICK digest \in RowDigests(session[at], Enc(options.json_normalize),
                                 Columns, table[at][i]) :
          /\ left' = left \ {i}
          /\ partial' = [partial EXCEPT ![w] = AggregateState(@, digest)]
          /\ digests' = IF options.paranoid_confirm THEN Append(digests, digest)
                        ELSE digests
  BY <1>1
<1>3. digest \in Digest
  BY <1>2, ScannedDigest DEF Scan
<1>4. digest = DigestOf(n, i)
  <2>1. session[at] = session["local"]
    BY DEF Scanning
  <2> QED
    BY <1>2, <2>1, OnlyDigest DEF DigestOf
<1>5. /\ table' = table
      /\ options' = options
      /\ session' = session
  BY DEF Scan
<1>6. /\ \A m, j : DigestOf(m, j)' = DigestOf(m, j)
      /\ \A m : Rows(m)' = Rows(m)
      /\ \A m, l : Addends(m, l)' = Addends(m, l)
  BY <1>5, KeptDigests
<1>7. \A j \in Rows(n) \ left' : DigestOf(n, j) \in Digest
  BY <1>2, <1>3, <1>4 DEF Scanning
<1>8. Lanewise(n)'
  BY <1>2, <1>3, <1>4, <1>6, ScanLanewise DEF Scanning, Lanewise
<1>9. ASSUME options.paranoid_confirm
      PROVE  Rowwise(n)'
  <2>1. digests' = Append(digests, digest) /\ left' = left \ {i}
    BY <1>2, <1>9
  <2>2. Rowwise(n)
    BY <1>9 DEF Scanning
  <2>3. /\ digests' \in Seq(Digest)
        /\ \E order \in Bijection(1..Len(digests'), Rows(n) \ left') :
             \A k \in 1..Len(digests') : digests'[k] = DigestOf(n, order[k])
    BY <1>3, <1>4, <2>1, <2>2, ScanRowwise
  <2> QED
    BY <1>6, <2>3 DEF Rowwise
<1>10. session'[n] = session'["local"]
  BY <1>5 DEF Scanning
<1> QED
  BY <1>5, <1>6, <1>7, <1>8, <1>9, <1>10 DEF Scanning

\* The digests a scan has kept come sorted out of the set hash.
LEMMA ReturnSetHash ==
  ASSUME Typed, NEW n \in Node, left = {}, options.paranoid_confirm, Rowwise(n),
         NEW h \in HashDigestArray(session["local"].hash_algorithm, digests)
  PROVE  SetHash(n, <<h>>)
<1>1. PICK order \in Bijection(1..Len(digests), Rows(n)) :
        \A k \in 1..Len(digests) : digests[k] = DigestOf(n, order[k])
  <2>1. Rows(n) \ left = Rows(n)
    OBVIOUS
  <2> QED
    BY <2>1 DEF Rowwise
<1>2. Len(digests) \in Nat /\ DOMAIN digests = 1..Len(digests)
  BY DEF Rowwise
<1>3. Rows(n) = 1..Len(digests)
  <2>1. IsFiniteSet(1..Len(digests)) /\ Cardinality(1..Len(digests)) = Len(digests)
    <3>1. PICK N \in Nat : N = Len(digests)
      BY <1>2
    <3>2. IsFiniteSet(1..N) /\ Cardinality(1..N) = N
      BY FS_Interval
    <3> QED
      BY <3>1, <3>2
  <2>2. ExistsBijection(1..Len(digests), Rows(n))
    BY <1>1 DEF ExistsBijection
  <2>3. Cardinality(Rows(n)) = Len(digests)
    BY <2>1, <2>2, FS_Bijection
  <2> QED
    BY <2>3, RowsFinite
<1>4. PICK algorithm \in ParseAlgorithm(session["local"].hash_algorithm),
           sorted \in Sorted(digests) : h = Finalize(algorithm, sorted)
  BY DEF HashDigestArray
<1>5. algorithm = session["local"].hash_algorithm
  BY DEF ParseAlgorithm
<1>6. PICK o \in Bijection(Rows(n), Rows(n)) :
        /\ \A i, j \in Rows(n) : i < j => ~Precedes(digests[o[j]], digests[o[i]])
        /\ sorted = [k \in Rows(n) |-> digests[o[k]]]
  BY <1>2, <1>3 DEF Sorted
<1>7. o \in [Rows(n) -> Rows(n)]
  BY Fun_BijectionProperties
<1> DEFINE both == [k \in Rows(n) |-> order[o[k]]]
<1>8. both \in Bijection(Rows(n), Rows(n))
  BY <1>1, <1>3, Fun_BijTransitive
<1>9. \A k \in Rows(n) : digests[o[k]] = DigestOf(n, both[k])
  BY <1>1, <1>3, <1>7
<1>10. \A i, j \in Rows(n) :
         i < j => ~Precedes(DigestOf(n, both[j]), DigestOf(n, both[i]))
  <2> HIDE DEF both
  <2> SUFFICES ASSUME NEW i \in Rows(n), NEW j \in Rows(n), i < j
               PROVE  ~Precedes(DigestOf(n, both[j]), DigestOf(n, both[i]))
    OBVIOUS
  <2>1. ~Precedes(digests[o[j]], digests[o[i]])
    BY <1>6
  <2>2. digests[o[j]] = DigestOf(n, both[j]) /\ digests[o[i]] = DigestOf(n, both[i])
    BY <1>9
  <2> QED
    BY <2>1, <2>2
<1>11. sorted = [k \in Rows(n) |-> DigestOf(n, both[k])]
  <2> HIDE DEF both
  <2> QED
    BY <1>6, <1>9
<1> HIDE DEF both
<1> QED
  BY <1>4, <1>5, <1>8, <1>10, <1>11 DEF SetHash

LEMMA ReturnAnswers ==
  ASSUME Typed, Return, NEW n \in Node, at = n, Scanning(n), result = [m \in Node |-> result[m]],
         table' = table, options' = options, session'["local"] = session["local"]
  PROVE  Answered(n)'
<1> DEFINE core == Combine(ToCore(partial[1]), ToCore(partial[2]))
<1>1. left = {} /\ Rows(n) \ left = Rows(n)
  BY DEF Return
<1>2. PICK h \in IF options.paranoid_confirm
                 THEN {<<g>> : g \in HashDigestArray(session[at].hash_algorithm, digests)}
                 ELSE {Null} :
        result' = [result EXCEPT ![at] =
          <<[n_rows |-> Len(table[at]),
             lthash |-> LthashBytes(AggregateCombine(partial[1], partial[2])),
             set_hash |-> h]>>]
  BY DEF Return
<1>3. /\ core \in LtHashCore
      /\ \A l \in Lane : core[l] = WrappingAdd(ToCore(partial[1])[l], ToCore(partial[2])[l])
  BY TypedCores, CombineType DEF Worker
<1>4. LthashBytes(AggregateCombine(partial[1], partial[2])) = ToBytes(core)
  BY <1>3, BlocksKeepCore DEF LthashBytes, AggregateCombine
<1>5. result'[n] = <<[n_rows |-> Len(table[n]), lthash |-> ToBytes(core), set_hash |-> h]>>
  BY <1>2, <1>4
<1> HIDE DEF core
<1>6. \A l \in Lane : \A sum : Adds(sum, Addends(n, l), Rows(n)) =>
        core[l] = sum[Rows(n)] % LaneSize
  BY <1>1, <1>3 DEF Scanning, Lanewise
<1>7. SetHash(n, h)
  <2>1. CASE ~options.paranoid_confirm
    BY <1>2, <2>1 DEF SetHash
  <2>2. CASE options.paranoid_confirm
    <3>1. session[at] = session["local"]
      BY DEF Scanning
    <3>2. PICK g \in HashDigestArray(session["local"].hash_algorithm, digests) : h = <<g>>
      BY <1>2, <2>2, <3>1
    <3>3. Rowwise(n)
      BY <2>2 DEF Scanning
    <3> QED
      BY <1>1, <2>2, <3>2, <3>3, ReturnSetHash
  <2> QED
    BY <2>1, <2>2
<1>8. \A i \in Rows(n) : DigestOf(n, i) \in Digest
  BY <1>1 DEF Scanning
<1>9. /\ \A m, i : DigestOf(m, i)' = DigestOf(m, i)
      /\ \A m : Rows(m)' = Rows(m)
      /\ \A m, l : Addends(m, l)' = Addends(m, l)
      /\ \A m, g : SetHash(m, g)' = SetHash(m, g)
  BY KeptDigests
<1> QED
  BY <1>3, <1>5, <1>6, <1>7, <1>8, <1>9 DEF Answered

LEMMA StepProgress ==
  ASSUME Typed, Progress, [Next]_vars
  PROVE  Progress'
<1>0. table' = table /\ options' = options /\ session'["local"] = session["local"]
  BY Kept
<1>1. CASE PlanChunkSql
  <2>0. result' = result /\ at = "plan" /\ verdict = "none"
    BY <1>1 DEF PlanChunkSql, Progress
  <2>1. CASE at' = "over" /\ verdict' = "error"
    BY <2>0, <2>1 DEF Progress, Node
  <2>2. CASE Start("local") /\ UNCHANGED verdict
    <3>1. Scanning("local")' /\ at' = "local"
      BY <1>0, <2>2, StartScanning DEF Start, Node
    <3> QED
      BY <2>0, <2>2, <3>1 DEF Progress, Node
  <2> QED
    BY <1>1, <2>1, <2>2 DEF PlanChunkSql
<1>2. ASSUME NEW w \in Worker, Scan(w)
      PROVE  Progress'
  <2>1. at' = at /\ at \in Node /\ result' = result /\ verdict' = verdict
    BY <1>2 DEF Scan
  <2>2. \A n \in Node : at' = n => Scanning(n)'
    BY <1>2, <2>1, ScanScanning DEF Progress
  <2>3. at' = "peer" => Answered("local")'
    BY <1>0, <2>1, KeptAnswer DEF Progress
  <2> QED
    BY <2>1, <2>2, <2>3 DEF Progress, Node
<1>3. CASE Return
  <2>0. /\ at \in Node
        /\ verdict' = verdict
        /\ result' = [n \in Node |-> result'[n]]
        /\ \A n \in Node : n # at => result'[n] = result[n]
    BY <1>3 DEF Return, Progress
  <2>1. CASE at = "local" /\ Start("peer")
    <3>1. Scanning("peer")' /\ at' = "peer"
      BY <1>0, <2>1, StartScanning DEF Start, Node
    <3>2. Answered("local")'
      BY <1>0, <1>3, <2>1, ReturnAnswers DEF Progress, Node
    <3> QED
      BY <2>0, <2>1, <3>1, <3>2 DEF Progress, Node
  <2>2. CASE at = "peer" /\ at' = "compare"
    <3>1. Answered("peer")'
      BY <1>0, <1>3, <2>2, ReturnAnswers DEF Progress, Node
    <3>2. Answered("local")'
      BY <1>0, <2>0, <2>2, KeptAnswer DEF Progress, Node
    <3> QED
      BY <2>0, <2>2, <3>1, <3>2 DEF Progress, Node
  <2> QED
    BY <1>3, <2>1, <2>2 DEF Return
<1>4. CASE Compare
  <2>1. at = "compare" /\ at' = "over" /\ result' = result
    BY <1>4 DEF Compare
  <2>2. \A n \in Node : Answered(n)'
    BY <1>0, <2>1, KeptAnswer DEF Progress
  <2>3. result'["peer"] = result'["local"] => verdict' = "match"
    BY <1>4 DEF Compare
  <2> QED
    BY <2>1, <2>2, <2>3 DEF Progress, Node
<1>5. CASE UNCHANGED vars
  <2>1. \A n \in Node : Answered(n) => Answered(n)'
    BY <1>0, <1>5, KeptAnswer DEF vars
  <2>2. ASSUME NEW n \in Node, Scanning(n)
        PROVE  Scanning(n)'
    <3>1. /\ session' = session
          /\ left' = left
          /\ partial' = partial
          /\ digests' = digests
      BY <1>5 DEF vars
    <3>2. /\ \A m, i : DigestOf(m, i)' = DigestOf(m, i)
          /\ \A m : Rows(m)' = Rows(m)
          /\ \A m, l : Addends(m, l)' = Addends(m, l)
      BY <1>0, KeptDigests
    <3>3. Lanewise(n)'
      BY <2>2, <3>1, <3>2 DEF Scanning, Lanewise
    <3>4. Rowwise(n) => Rowwise(n)'
      BY <3>1, <3>2 DEF Rowwise
    <3> QED
      BY <2>2, <1>0, <3>1, <3>2, <3>3, <3>4 DEF Scanning
  <2> QED
    BY <1>5, <2>1, <2>2 DEF vars, Progress, Node
<1> QED
  BY <1>1, <1>2, <1>3, <1>4, <1>5 DEF Next

LEMMA InitProgress ==
  ASSUME Init
  PROVE  Progress
BY DEF Init, Progress, Node

------------------------------------------------------------------------------
(* Byte order: digests of one width have one sorted arrangement. *)

Digests == [bytes : Nat, message : Seq(Nat)]

LEMMA PrecedesIrreflexive ==
  ASSUME NEW d \in Digests
  PROVE  ~Precedes(d, d)
<1>1. d.message \in Seq(Nat)
  BY DEF Digests
<1> QED
  BY <1>1 DEF Precedes

LEMMA PrecedesTransitive ==
  ASSUME NEW c \in Digests, NEW d \in Digests, NEW e \in Digests,
         Precedes(c, d), Precedes(d, e)
  PROVE  Precedes(c, e)
<1> DEFINE x == c.message
           y == d.message
           z == e.message
<1>0. x \in Seq(Nat) /\ y \in Seq(Nat) /\ z \in Seq(Nat)
  BY DEF Digests
<1>1. PICK k \in 1..Len(y) :
        /\ k <= Len(x) + 1
        /\ \A i \in 1..k - 1 : x[i] = y[i]
        /\ k <= Len(x) => x[k] < y[k]
  BY DEF Precedes
<1>2. PICK m \in 1..Len(z) :
        /\ m <= Len(y) + 1
        /\ \A i \in 1..m - 1 : y[i] = z[i]
        /\ m <= Len(y) => y[m] < z[m]
  BY DEF Precedes
<1> SUFFICES \E n \in 1..Len(z) :
               /\ n <= Len(x) + 1
               /\ \A i \in 1..n - 1 : x[i] = z[i]
               /\ n <= Len(x) => x[n] < z[n]
  BY DEF Precedes
<1> HIDE DEF x, y, z
<1>3. CASE k < m
  <2>1. k \in 1..Len(z) /\ y[k] = z[k]
    BY <1>0, <1>1, <1>2, <1>3
  <2>2. \A i \in 1..k - 1 : x[i] = z[i]
    BY <1>0, <1>1, <1>2, <1>3
  <2> QED
    BY <1>1, <2>1, <2>2
<1>4. CASE m < k
  <2>1. m <= Len(x) /\ m <= Len(y) /\ x[m] = y[m] /\ y[m] < z[m]
    BY <1>0, <1>1, <1>2, <1>4
  <2>2. \A i \in 1..m - 1 : x[i] = z[i]
    BY <1>0, <1>1, <1>2, <1>4
  <2>3. m <= Len(x) + 1 /\ x[m] < z[m]
    <3>1. Len(x) \in Nat /\ m \in Nat
      BY <1>0
    <3> QED
      BY <2>1, <3>1
  <2> QED
    BY <2>2, <2>3
<1>5. CASE k = m
  <2>1. \A i \in 1..k - 1 : x[i] = z[i]
    BY <1>0, <1>1, <1>2, <1>5
  <2>2. k <= Len(x) => x[k] < z[k]
    <3> SUFFICES ASSUME k <= Len(x) PROVE x[k] < z[k]
      OBVIOUS
    <3>1. x[k] < y[k] /\ y[k] < z[k]
      BY <1>1, <1>2, <1>5
    <3>2. k \in 1..Len(x) /\ k \in 1..Len(z)
      <4>1. Len(x) \in Nat /\ Len(y) \in Nat
        BY <1>0
      <4> QED
        BY <1>5, <4>1
    <3>3. x[k] \in Nat
      BY <1>0, <3>2
    <3>4. y[k] \in Nat
      BY <1>0
    <3>5. z[k] \in Nat
      BY <1>0, <3>2
    <3> QED
      BY <3>1, <3>3, <3>4, <3>5
  <2> QED
    BY <1>1, <1>2, <1>5, <2>1, <2>2
<1> QED
  BY <1>3, <1>4, <1>5

LEMMA PrecedesTotal ==
  ASSUME NEW d \in Digests, NEW e \in Digests, d.bytes = e.bytes
  PROVE  d = e \/ Precedes(d, e) \/ Precedes(e, d)
<1> DEFINE x == d.message
           y == e.message
           Apart == {k \in Nat : k >= 1 /\ (k > Len(x) \/ k > Len(y) \/ x[k] # y[k])}
<1>0. x \in Seq(Nat) /\ y \in Seq(Nat)
  BY DEF Digests
<1>1. PICK k \in Apart : \A i \in Apart : k <= i
  <2>1. Len(x) + 1 \in Apart
    BY <1>0
  <2>2. Apart \in SUBSET Nat /\ Apart # {}
    BY <2>1
  <2> HIDE DEF Apart
  <2> QED
    BY <2>2, NatHasMinimum
<1>2. \A i \in 1..k - 1 : i <= Len(x) /\ i <= Len(y) /\ x[i] = y[i]
  <2> SUFFICES ASSUME NEW i \in 1..k - 1
               PROVE  i <= Len(x) /\ i <= Len(y) /\ x[i] = y[i]
    OBVIOUS
  <2>1. i \in Nat /\ i >= 1 /\ i < k
    OBVIOUS
  <2>2. i \notin Apart
    BY <1>1, <2>1
  <2> QED
    BY <1>0, <2>1, <2>2
<1>3. k \in Nat /\ k >= 1 /\ (k > Len(x) \/ k > Len(y) \/ x[k] # y[k])
  OBVIOUS
<1>4. k <= Len(x) + 1 /\ k <= Len(y) + 1
  <2>1. CASE k = 1
    BY <1>0, <2>1
  <2>2. CASE k # 1
    <3>1. k - 1 \in 1..k - 1
      BY <1>3, <2>2
    <3>2. k - 1 <= Len(x) /\ k - 1 <= Len(y)
      BY <1>2, <3>1
    <3> QED
      BY <1>0, <1>3, <3>2
  <2> QED
    BY <2>1, <2>2
<1>5. d = e \/ x # y
  BY DEF Digests
<1> HIDE DEF Apart
<1>6. CASE k <= Len(x) /\ k <= Len(y)
  <2>1. x[k] \in Nat /\ y[k] \in Nat /\ x[k] # y[k]
    BY <1>0, <1>3, <1>6
  <2>2. x[k] < y[k] \/ y[k] < x[k]
    BY <2>1
  <2> QED
    BY <1>0, <1>2, <1>3, <1>6, <2>2 DEF Precedes
<1>7. CASE k > Len(x) /\ k <= Len(y)
  BY <1>0, <1>2, <1>3, <1>4, <1>7 DEF Precedes
<1>8. CASE k <= Len(x) /\ k > Len(y)
  BY <1>0, <1>2, <1>3, <1>4, <1>8 DEF Precedes
<1>9. CASE k > Len(x) /\ k > Len(y)
  <2>1. Len(x) = k - 1 /\ Len(y) = k - 1
    BY <1>0, <1>3, <1>4, <1>9
  <2>2. x = y
    BY <1>0, <1>2, <2>1
  <2> QED
    BY <1>5, <2>2
<1> QED
  BY <1>0, <1>3, <1>6, <1>7, <1>8, <1>9

\* In two sorted arrangements of the same digests, none comes before the one at
\* its place in the other: those up to it would not fit before that place.
LEMMA NotBefore ==
  ASSUME NEW N \in Nat, NEW f \in [1..N -> Digests], NEW g \in [1..N -> Digests],
         NEW p \in [1..N -> 1..N], \A i, j \in 1..N : p[i] = p[j] => i = j,
         \A i \in 1..N : g[p[i]] = f[i],
         \A i, j \in 1..N : f[i].bytes = f[j].bytes,
         \A i, j \in 1..N : i < j => ~Precedes(f[j], f[i]),
         \A i, j \in 1..N : i < j => ~Precedes(g[j], g[i]),
         NEW k \in 1..N
  PROVE  ~Precedes(f[k], g[k])
<1> SUFFICES ASSUME Precedes(f[k], g[k]) PROVE FALSE
  OBVIOUS
<1>1. ASSUME NEW j \in 1..k
      PROVE  p[j] \in 1..k - 1
  <2>0. j \in 1..N /\ k \in 1..N
    OBVIOUS
  <2>1. f[j] \in Digests /\ f[k] \in Digests /\ g[k] \in Digests
    BY <2>0
  <2>2. ~Precedes(f[k], f[j])
    <3>1. CASE j = k
      BY <2>1, <3>1, PrecedesIrreflexive
    <3>2. CASE j < k
      BY <2>0, <3>2
    <3> QED
      BY <3>1, <3>2
  <2>3. f[j].bytes = f[k].bytes
    BY <2>0
  <2>4. f[j] = f[k] \/ Precedes(f[j], f[k])
    BY <2>1, <2>2, <2>3, PrecedesTotal
  <2>5. Precedes(f[j], g[k])
    BY <2>1, <2>4, PrecedesTransitive
  <2>6. p[j] \in 1..N /\ g[p[j]] = f[j]
    BY <2>0
  <2>7. CASE p[j] = k
    BY <2>1, <2>5, <2>6, <2>7, PrecedesIrreflexive
  <2>8. CASE p[j] > k
    <3>1. ~Precedes(g[p[j]], g[k])
      BY <2>6, <2>8
    <3> QED
      BY <2>5, <2>6, <3>1
  <2> QED
    BY <2>6, <2>7, <2>8
<1> DEFINE q == [j \in 1..k |-> p[j]]
<1>2. q \in [1..k -> 1..k - 1]
  BY <1>1
<1>3. PICK i, j \in 1..k : i # j /\ q[i] = q[j]
  <2> HIDE DEF q
  <2> QED
    BY <1>2, k \in Nat /\ k # 0, OneTooMany
<1>4. p[i] = p[j] /\ i \in 1..N /\ j \in 1..N
  BY <1>3
<1> QED
  BY <1>3, <1>4

\* Sorted arrangements of the same digests, all of one width, are equal.
LEMMA SortedIsUnique ==
  ASSUME NEW N \in Nat, NEW f \in [1..N -> Digests], NEW g \in [1..N -> Digests],
         NEW p \in Bijection(1..N, 1..N),
         \A i \in 1..N : g[p[i]] = f[i],
         \A i, j \in 1..N : f[i].bytes = f[j].bytes,
         \A i, j \in 1..N : i < j => ~Precedes(f[j], f[i]),
         \A i, j \in 1..N : i < j => ~Precedes(g[j], g[i])
  PROVE  f = g
<1>1. /\ p \in [1..N -> 1..N]
      /\ \A i, j \in 1..N : p[i] = p[j] => i = j
      /\ \A t \in 1..N : \E i \in 1..N : p[i] = t
  <2>1. PICK S : S = 1..N
    OBVIOUS
  <2>2. p \in Bijection(S, S)
    BY <2>1
  <2>3. /\ p \in [S -> S]
        /\ \A i, j \in S : p[i] = p[j] => i = j
        /\ \A t \in S : \E i \in S : p[i] = t
    BY <2>2, Fun_BijectionProperties
  <2> QED
    BY <2>1, <2>3
<1> DEFINE back == [t \in 1..N |-> CHOOSE i \in 1..N : p[i] = t]
<1>2. \A t \in 1..N : back[t] \in 1..N /\ p[back[t]] = t
  BY <1>1
<1>3. back \in [1..N -> 1..N] /\ \A i, j \in 1..N : back[i] = back[j] => i = j
  <2>1. back \in [1..N -> 1..N]
    BY <1>2
  <2> HIDE DEF back
  <2> QED
    BY <1>2, <2>1
<1> HIDE DEF back
<1>4. \A i \in 1..N : f[back[i]] = g[i]
  BY <1>2
<1>5. \A i, j \in 1..N : g[i].bytes = g[j].bytes
  BY <1>2, <1>4
<1>6. ASSUME NEW k \in 1..N
      PROVE  f[k] = g[k]
  <2>1. ~Precedes(f[k], g[k])
    BY <1>1, NotBefore
  <2>2. ~Precedes(g[k], f[k])
    BY <1>3, <1>4, <1>5, NotBefore
  <2>3. f[k] \in Digests /\ g[k] \in Digests /\ f[k].bytes = g[k].bytes
    BY <1>2, <1>4
  <2> QED
    BY <2>1, <2>2, <2>3, PrecedesTotal
<1> QED
  BY <1>6

------------------------------------------------------------------------------
(* Nodes with the same rows give the same answer. *)

LEMMA MatchingDigests ==
  ASSUME Typed, NEW f \in [Rows("local") -> Rows("peer")],
         \A i \in Rows("local") : SameRow(table["local"][i], table["peer"][f[i]]),
         NEW i \in Rows("local")
  PROVE  DigestOf("peer", f[i]) = DigestOf("local", i)
<1>1. f[i] \in Rows("peer") /\ options.json_normalize \in BOOLEAN
  BY DEF Typed
<1>2. /\ DOMAIN table["local"][i] = DOMAIN Columns
      /\ DOMAIN table["peer"][f[i]] = DOMAIN Columns
  BY <1>1, RowsFinite DEF Node
<1>3. Message(session["local"], Enc(options.json_normalize), Columns, table["local"][i])
        = Message(session["local"], Enc(options.json_normalize), Columns, table["peer"][f[i]])
  BY <1>1, <1>2, SameRowMessage
<1> QED
  BY <1>3 DEF DigestOf

LEMMA MatchingLanes ==
  ASSUME Typed, NEW f \in Bijection(Rows("local"), Rows("peer")),
         \A i \in Rows("local") : DigestOf("peer", f[i]) = DigestOf("local", i),
         NEW c \in LtHashCore, NEW d \in LtHashCore,
         \A l \in Lane : \A sum : Adds(sum, Addends("local", l), Rows("local")) =>
           c[l] = sum[Rows("local")] % LaneSize,
         \A l \in Lane : \A sum : Adds(sum, Addends("peer", l), Rows("peer")) =>
           d[l] = sum[Rows("peer")] % LaneSize
  PROVE  c = d
<1>1. IsFiniteSet(Rows("local")) /\ IsFiniteSet(Rows("peer"))
  BY RowsFinite DEF Node
<1>2. f \in [Rows("local") -> Rows("peer")]
  BY Fun_BijectionProperties
<1>3. ASSUME NEW l \in Lane
      PROVE  c[l] = d[l]
  <2>1. PICK sum : Adds(sum, Addends("local", l), Rows("local"))
    BY <1>1, AddendsType, SumExists
  <2>2. PICK total : Adds(total, Addends("peer", l), Rows("peer"))
    BY <1>1, AddendsType, SumExists
  <2>3. \A i \in Rows("local") : Addends("peer", l)[f[i]] = Addends("local", l)[i]
    BY <1>2 DEF Addends
  <2>4. sum[Rows("local")] = total[Rows("peer")]
    BY <1>1, <2>1, <2>2, <2>3, SumOfMatching
  <2> QED
    BY <2>1, <2>2, <2>4
<1> QED
  BY <1>3 DEF LtHashCore

LEMMA MatchingSetHash ==
  ASSUME Typed, NEW f \in Bijection(Rows("local"), Rows("peer")),
         \A i \in Rows("local") : DigestOf("peer", f[i]) = DigestOf("local", i),
         \A n \in Node : \A i \in Rows(n) : DigestOf(n, i) \in Digest,
         Rows("peer") = Rows("local"),
         NEW h, SetHash("local", h), NEW g, SetHash("peer", g)
  PROVE  h = g
<1>1. CASE ~options.paranoid_confirm
  BY <1>1 DEF SetHash
<1>2. CASE options.paranoid_confirm
  <2>1. PICK N \in Nat : Rows("local") = 1..N /\ Rows("peer") = 1..N
    BY RowsFinite DEF Node
  <2>2. PICK o \in Bijection(1..N, 1..N) :
          /\ \A i, j \in 1..N : i < j => ~Precedes(DigestOf("local", o[j]), DigestOf("local", o[i]))
          /\ h = <<Finalize(session["local"].hash_algorithm,
                            [k \in 1..N |-> DigestOf("local", o[k])])>>
    BY <1>2, <2>1 DEF SetHash
  <2>3. PICK r \in Bijection(1..N, 1..N) :
          /\ \A i, j \in 1..N : i < j => ~Precedes(DigestOf("peer", r[j]), DigestOf("peer", r[i]))
          /\ g = <<Finalize(session["local"].hash_algorithm,
                            [k \in 1..N |-> DigestOf("peer", r[k])])>>
    BY <1>2, <2>1 DEF SetHash
  <2>4. PICK S : S = 1..N
    OBVIOUS
  <2>5. f \in Bijection(S, S) /\ o \in Bijection(S, S) /\ r \in Bijection(S, S)
    BY <2>1, <2>2, <2>3, <2>4
  <2> DEFINE there == [k \in S |-> f[o[k]]]
             back == Inverse(r, S, S)
             p == [k \in S |-> back[there[k]]]
  <2>6. /\ f \in [S -> S]
        /\ o \in [S -> S]
        /\ r \in [S -> S]
        /\ \A t \in S : \E k \in S : r[k] = t
    BY <2>5, Fun_BijectionProperties
  <2>7. there \in Bijection(S, S)
    BY <2>5, Fun_BijTransitive
  <2>8. back \in Bijection(S, S) /\ \A k \in S : back[r[k]] = k
    BY <2>5, Fun_BijInverse
  <2>9. \A t \in S : r[back[t]] = t
    <3> HIDE DEF back
    <3> QED
      BY <2>6, <2>8
  <2>10. p \in Bijection(S, S)
    <3> HIDE DEF back, there
    <3> QED
      BY <2>7, <2>8, Fun_BijTransitive
  <2>11. \A k \in S : there[k] = f[o[k]] /\ there[k] \in S
    BY <2>6
  <2>12. \A k \in S : r[p[k]] = f[o[k]]
    <3> HIDE DEF back, there
    <3> QED
      BY <2>9, <2>11
  <2> DEFINE a == [k \in 1..N |-> DigestOf("local", o[k])]
             b == [k \in 1..N |-> DigestOf("peer", r[k])]
  <2>13. /\ \A k \in 1..N : DigestOf("local", k) \in Digests
         /\ \A k \in 1..N : DigestOf("peer", k) \in Digests
    BY <2>1, TablesAssumption DEF Node, Digests
  <2>14. a \in [1..N -> Digests] /\ b \in [1..N -> Digests]
    BY <2>4, <2>6, <2>13
  <2>15. \A k \in 1..N : b[p[k]] = a[k]
    <3> SUFFICES ASSUME NEW k \in 1..N PROVE b[p[k]] = a[k]
      OBVIOUS
    <3>1. p[k] \in 1..N
      <4> HIDE DEF p
      <4>1. p \in [S -> S]
        BY <2>10, Fun_BijectionProperties
      <4> QED
        BY <2>4, <4>1
    <3>2. r[p[k]] = f[o[k]] /\ o[k] \in Rows("local")
      BY <2>1, <2>4, <2>6, <2>12
    <3> HIDE DEF p
    <3> QED
      BY <3>1, <3>2
  <2>16. \A i, j \in 1..N : a[i].bytes = a[j].bytes
    BY DEF DigestOf, Finalize
  <2>17. \A i, j \in 1..N : i < j => ~Precedes(a[j], a[i])
    BY <2>2
  <2>18. \A i, j \in 1..N : i < j => ~Precedes(b[j], b[i])
    BY <2>3
  <2>19. p \in Bijection(1..N, 1..N)
    BY <2>4, <2>10
  <2> HIDE DEF a, b, p
  <2>20. a = b
    BY <2>14, <2>15, <2>16, <2>17, <2>18, <2>19, SortedIsUnique
  <2> QED
    BY <2>2, <2>3, <2>20 DEF a, b
<1> QED
  BY <1>1, <1>2

LEMMA SameAnswers ==
  ASSUME Typed, SameTables, \A n \in Node : Answered(n)
  PROVE  result["peer"] = result["local"]
<1>1. PICK f \in Bijection(Rows("local"), Rows("peer")) :
        \A i \in Rows("local") : SameRow(table["local"][i], table["peer"][f[i]])
  BY SameTablesMatch
<1>2. \A i \in Rows("local") : DigestOf("peer", f[i]) = DigestOf("local", i)
  BY <1>1, Fun_BijectionProperties, MatchingDigests
<1>3. Len(table["peer"]) = Len(table["local"]) /\ Rows("peer") = Rows("local")
  <2>1. ExistsBijection(Rows("local"), Rows("peer"))
    BY DEF ExistsBijection
  <2>2. Cardinality(Rows("peer")) = Cardinality(Rows("local"))
    BY <2>1, RowsFinite, FS_Bijection DEF Node
  <2> QED
    BY <2>2, RowsFinite DEF Node
<1>4. PICK c \in LtHashCore :
        \E h :
          /\ result["local"]
               = <<[n_rows |-> Len(table["local"]), lthash |-> ToBytes(c), set_hash |-> h]>>
          /\ \A l \in Lane : \A sum : Adds(sum, Addends("local", l), Rows("local")) =>
               c[l] = sum[Rows("local")] % LaneSize
          /\ SetHash("local", h)
  BY DEF Answered, Node
<1>5. PICK d \in LtHashCore :
        \E g :
          /\ result["peer"]
               = <<[n_rows |-> Len(table["peer"]), lthash |-> ToBytes(d), set_hash |-> g]>>
          /\ \A l \in Lane : \A sum : Adds(sum, Addends("peer", l), Rows("peer")) =>
               d[l] = sum[Rows("peer")] % LaneSize
          /\ SetHash("peer", g)
  BY DEF Answered, Node
<1>6. c = d
  BY <1>2, <1>4, <1>5, MatchingLanes
<1>7. PICK h :
        /\ result["local"]
             = <<[n_rows |-> Len(table["local"]), lthash |-> ToBytes(c), set_hash |-> h]>>
        /\ SetHash("local", h)
  BY <1>4
<1>8. PICK g :
        /\ result["peer"]
             = <<[n_rows |-> Len(table["peer"]), lthash |-> ToBytes(d), set_hash |-> g]>>
        /\ SetHash("peer", g)
  BY <1>5
<1>9. h = g
  BY <1>2, <1>3, <1>7, <1>8, MatchingSetHash DEF Answered
<1> QED
  BY <1>3, <1>6, <1>7, <1>8, <1>9

\* Progress is kept by every step.
LEMMA AlwaysProgress == Spec => []Progress
<1>1. Init => Progress
  BY InitProgress
<1>2. Typed /\ Progress /\ [Next]_vars => Progress'
  BY StepProgress
<1> QED
  BY <1>1, <1>2, AlwaysTyped, PTL DEF Spec

\* Tables with the same rows match, whatever order and partial aggregates each
\* node reads them in and whatever its session was set to (040:389, lthash.rs:22).
THEOREM SameRowsMatch == Spec => []SameTablesAgree
<1>1. Typed /\ Progress => SameTablesAgree
  <2> SUFFICES ASSUME Typed, Progress, at = "over", SameTables
               PROVE  verdict \in {"match", "error"}
    BY DEF SameTablesAgree
  <2> QED
    BY SameAnswers DEF Progress
<1> QED
  BY <1>1, AlwaysTyped, AlwaysProgress, PTL

------------------------------------------------------------------------------
(* Sequences of numbers one after the other. *)

\* u and v are the same as far as both reach.
Agree(u, v) == \A i \in 1..Len(u) : i <= Len(v) => u[i] = v[i]

\* w is u, then v.
Joins(w, u, v) ==
  /\ w \in Seq(Nat)
  /\ Len(w) = Len(u) + Len(v)
  /\ \A i \in 1..Len(u) : w[i] = u[i]
  /\ \A i \in 1..Len(v) : w[Len(u) + i] = v[i]

LEMMA Concatenation ==
  ASSUME NEW u \in Seq(Nat), NEW v \in Seq(Nat)
  PROVE  Joins(u \o v, u, v)
BY DEF Joins

LEMMA SequencesEqual ==
  ASSUME NEW S, NEW u \in Seq(S), NEW v \in Seq(S), Len(u) = Len(v),
         \A i \in 1..Len(u) : u[i] = v[i]
  PROVE  u = v
<1>1. PICK n \in Nat : n = Len(u) /\ n = Len(v)
  OBVIOUS
<1>2. u \in [1..n -> S] /\ v \in [1..n -> S]
  BY <1>1
<1> QED
  BY <1>1, <1>2

\* Where two joints are the same and begin with as much, so are their parts.
LEMMA JoinsSplit ==
  ASSUME NEW u \in Seq(Nat), NEW v \in Seq(Nat), NEW x \in Seq(Nat), NEW y \in Seq(Nat), NEW w,
         Joins(w, u, x), Joins(w, v, y), Len(u) = Len(v)
  PROVE  u = v /\ x = y
<1>1. Len(x) = Len(y)
  BY DEF Joins
<1>2. u = v
  BY SequencesEqual DEF Joins
<1>3. \A i \in 1..Len(x) : x[i] = y[i]
  BY <1>1 DEF Joins
<1>4. x = y
  BY <1>1, <1>3, SequencesEqual
<1> QED
  BY <1>2, <1>4

LEMMA JoinsBegins ==
  ASSUME NEW u \in Seq(Nat), NEW x \in Seq(Nat), NEW w, Joins(w, u, x),
         NEW i \in 1..Len(u)
  PROVE  i \in 1..Len(w) /\ w[i] = u[i]
BY DEF Joins

\* FlattenSeq is defined by recursion on the number of members.
LEMMA FlattenExists ==
  ASSUME NEW s, NEW n \in Nat
  PROVE  \E f : f = [i \in 1..n |-> IF i = 1 THEN s[i] ELSE f[i - 1] \o s[i]]
<1> DEFINE T == {k \in Nat : \E f : f = [i \in 1..k |-> IF i = 1 THEN s[i] ELSE f[i - 1] \o s[i]]}
<1>1. 0 \in T
  <2> DEFINE f == [i \in {} |-> 0]
  <2>1. f = [i \in 1..0 |-> IF i = 1 THEN s[i] ELSE f[i - 1] \o s[i]]
    OBVIOUS
  <2> QED
    BY <2>1
<1>2. ASSUME NEW k \in Nat, k \in T
      PROVE  k + 1 \in T
  <2>1. PICK f : f = [i \in 1..k |-> IF i = 1 THEN s[i] ELSE f[i - 1] \o s[i]]
    BY <1>2
  <2> DEFINE g == [i \in 1..k + 1 |-> IF i = 1 THEN s[i] ELSE f[i - 1] \o s[i]]
  <2>0. \A i \in 1..k : f[i] = IF i = 1 THEN s[i] ELSE f[i - 1] \o s[i]
    BY <2>1
  <2>2. \A i \in 1..k : g[i] = f[i]
    <3>1. \A i \in 1..k : g[i] = IF i = 1 THEN s[i] ELSE f[i - 1] \o s[i]
      OBVIOUS
    <3> QED
      BY <2>0, <3>1
  <2>3. \A i \in 1..k + 1 : i # 1 => i - 1 \in 1..k
    OBVIOUS
  <2>4. \A i \in 1..k + 1 : (IF i = 1 THEN s[i] ELSE f[i - 1] \o s[i]) = (IF i = 1 THEN s[i] ELSE g[i - 1] \o s[i])
    BY <2>2, <2>3
  <2>5. g = [i \in 1..k + 1 |-> IF i = 1 THEN s[i] ELSE g[i - 1] \o s[i]]
    BY <2>4
  <2> HIDE DEF g
  <2>6. \E h : h = [i \in 1..k + 1 |-> IF i = 1 THEN s[i] ELSE h[i - 1] \o s[i]]
    BY <2>5
  <2>7. k + 1 \in Nat
    OBVIOUS
  <2> QED
    BY <2>6, <2>7, Zenon
<1> HIDE DEF T
<1>3. n \in T
  BY <1>1, <1>2, NatSetInduction
<1> QED
  BY <1>3 DEF T

\* The members of s up to the i-th, one after the other, are f[i].
Flattening(s, n, f) == f = [i \in 1..n |-> IF i = 1 THEN s[i] ELSE f[i - 1] \o s[i]]

LEMMA FlattenSteps ==
  ASSUME NEW n \in Nat, n # 0, NEW s, Len(s) = n
  PROVE  \E f : Flattening(s, n, f) /\ FlattenSeq(s) = f[n]
<1> DEFINE F == CHOOSE f : f = [i \in 1..Len(s) |-> IF i = 1 THEN s[i] ELSE f[i - 1] \o s[i]]
<1>1. \E f : f = [i \in 1..Len(s) |-> IF i = 1 THEN s[i] ELSE f[i - 1] \o s[i]]
  BY FlattenExists
<1>2. F = [i \in 1..Len(s) |-> IF i = 1 THEN s[i] ELSE F[i - 1] \o s[i]]
  BY <1>1
<1>3. FlattenSeq(s) = F[Len(s)]
  BY DEF FlattenSeq
<1> HIDE DEF F
<1>4. Flattening(s, n, F)
  BY <1>2 DEF Flattening
<1> QED
  BY <1>3, <1>4

Members(s, n, f) ==
  /\ \A k \in 1..n : f[k] \in Seq(Nat)
  /\ n # 0 => f[1] = s[1]
  /\ \A k \in 1..n : k # 1 => f[k] = f[k - 1] \o s[k]

LEMMA FlatteningMembers ==
  ASSUME NEW n \in Nat, NEW s \in [1..n -> Seq(Nat)], NEW f, Flattening(s, n, f)
  PROVE  Members(s, n, f)
<1>1. \A k \in 1..n : f[k] = IF k = 1 THEN s[k] ELSE f[k - 1] \o s[k]
  BY DEF Flattening
<1> DEFINE T == {k \in Nat : k + 1 \in 1..n => f[k + 1] \in Seq(Nat)}
<1>2. 0 \in T
  BY <1>1
<1>3. ASSUME NEW k \in Nat, k \in T
      PROVE  k + 1 \in T
  <2> SUFFICES ASSUME (k + 1) + 1 \in 1..n
               PROVE  f[(k + 1) + 1] \in Seq(Nat)
    OBVIOUS
  <2>1. k + 1 \in 1..n /\ ((k + 1) + 1) - 1 = k + 1 /\ (k + 1) + 1 # 1
    OBVIOUS
  <2>2. f[(k + 1) + 1] = f[k + 1] \o s[(k + 1) + 1]
    BY <1>1, <2>1
  <2>3. f[k + 1] \in Seq(Nat) /\ s[(k + 1) + 1] \in Seq(Nat)
    BY <1>3, <2>1
  <2> QED
    BY <2>2, <2>3, Concatenation DEF Joins
<1> HIDE DEF T
<1>4. Nat \subseteq T
  BY <1>2, <1>3, NatSetInduction
<1>5. ASSUME NEW k \in 1..n
      PROVE  f[k] \in Seq(Nat)
  <2>1. k - 1 \in T /\ (k - 1) + 1 = k
    BY <1>4
  <2> QED
    BY <2>1 DEF T
<1>6. n # 0 => f[1] = s[1]
  BY <1>1
<1>7. \A k \in 1..n : k # 1 => f[k] = f[k - 1] \o s[k]
  BY <1>1
<1> QED
  BY <1>5, <1>6, <1>7 DEF Members

LEMMA AgreeAfter ==
  ASSUME NEW p \in Seq(Nat), NEW x \in Seq(Nat), NEW y \in Seq(Nat),
         Agree(p \o x, p \o y)
  PROVE  Agree(x, y)
<1>1. PICK u, v : u = p \o x /\ v = p \o y
  OBVIOUS
<1>2. Joins(u, p, x) /\ Joins(v, p, y)
  BY <1>1, Concatenation
<1>4. ASSUME NEW i \in 1..Len(x), i <= Len(y)
      PROVE  x[i] = y[i]
  <2>1. Len(p) + i \in 1..Len(u) /\ Len(p) + i <= Len(v) /\ i \in 1..Len(y)
    BY <1>2, <1>4 DEF Joins
  <2>2. u[Len(p) + i] = v[Len(p) + i]
    BY <1>1, <2>1 DEF Agree
  <2> QED
    BY <1>2, <2>1, <2>2 DEF Joins
<1> QED
  BY <1>4 DEF Agree

\* A flattened sequence begins with the flattening of its first members.
Begins(p, w) == Len(p) <= Len(w) /\ \A i \in 1..Len(p) : w[i] = p[i]

LEMMA FlatteningPrefix ==
  ASSUME NEW n \in Nat, NEW s \in [1..n -> Seq(Nat)], NEW f, Flattening(s, n, f),
         NEW k \in 1..n
  PROVE  Begins(f[k], f[n])
<1> DEFINE T == {d \in Nat : k + d <= n =>
                   /\ Len(f[k]) <= Len(f[k + d])
                   /\ \A i \in 1..Len(f[k]) : f[k + d][i] = f[k][i]}
<1>1. \A j \in 1..n : f[j] \in Seq(Nat)
  BY FlatteningMembers DEF Members
<1>2. 0 \in T
  <2>1. k + 0 = k /\ Len(f[k]) \in Nat
    BY <1>1
  <2> QED
    BY <2>1
<1>3. ASSUME NEW d \in Nat, d \in T
      PROVE  d + 1 \in T
  <2>0. CASE ~ (k + (d + 1) <= n)
    BY <2>0
  <2>1. CASE k + (d + 1) <= n
    <3>1. PICK e \in 1..n : e = k + d
      BY <2>1
    <3>2. PICK g \in 1..n : g = k + (d + 1) /\ g # 1 /\ g - 1 = e
      BY <2>1, <3>1
    <3>3. /\ Len(f[k]) <= Len(f[e])
          /\ \A i \in 1..Len(f[k]) : f[e][i] = f[k][i]
      BY <1>3, <3>1
    <3> HIDE DEF T
    <3>4. f[g] = f[e] \o s[g]
      BY <3>2, FlatteningMembers DEF Members
    <3>5. PICK p \in Seq(Nat), x \in Seq(Nat), y \in Seq(Nat) :
            p = f[k] /\ x = f[e] /\ y = s[g]
      BY <1>1
    <3>6. Len(x \o y) = Len(x) + Len(y) /\ \A i \in 1..Len(x) : (x \o y)[i] = x[i]
      BY Concatenation DEF Joins
    <3>7. Len(p) <= Len(x \o y) /\ \A i \in 1..Len(p) : (x \o y)[i] = p[i]
      BY <3>3, <3>5, <3>6
    <3>8. Len(f[k]) <= Len(f[g]) /\ \A i \in 1..Len(f[k]) : f[g][i] = f[k][i]
      BY <3>4, <3>5, <3>7
    <3>9. g = k + (d + 1) /\ d + 1 \in Nat
      BY <3>2
    <3> QED
      BY <3>8, <3>9 DEF T
  <2> QED
    BY <2>0, <2>1
<1>4. Nat \subseteq T
  <2> HIDE DEF T
  <2> QED
    BY <1>2, <1>3, NatSetInduction
<1>5. PICK d \in Nat : k + d = n
  <2>1. n - k \in Nat /\ k + (n - k) = n
    OBVIOUS
  <2> QED
    BY <2>1
<1>6. d \in T /\ k + d <= n
  BY <1>4, <1>5
<1> QED
  BY <1>5, <1>6 DEF Begins

LEMMA FlattenType ==
  ASSUME NEW n \in Nat, NEW s \in [1..n -> Seq(Nat)], Len(s) = n
  PROVE  FlattenSeq(s) \in Seq(Nat)
<1>1. CASE n = 0
  <2>1. FlattenSeq(s) = s
    BY <1>1 DEF FlattenSeq
  <2>2. s = <<>>
    BY <1>1
  <2> QED
    BY <2>1, <2>2
<1>2. CASE n # 0
  <2>1. PICK f : Flattening(s, n, f) /\ FlattenSeq(s) = f[n]
    BY <1>2, FlattenSteps
  <2>2. n \in 1..n
    BY <1>2
  <2>3. \A k \in 1..n : f[k] \in Seq(Nat)
    BY <2>1, FlatteningMembers DEF Members
  <2> QED
    BY <2>1, <2>2, <2>3
<1> QED
  BY <1>1, <1>2

LEMMA FlatteningUnique ==
  ASSUME NEW n \in Nat, NEW s \in [1..n -> Seq(Nat)], NEW t \in [1..n -> Seq(Nat)],
         NEW f, Flattening(s, n, f), NEW g, Flattening(t, n, g),
         \A k \in 1..n : Agree(s[k], t[k]) => s[k] = t[k],
         n # 0, f[n] = g[n]
  PROVE  s = t
<1>1. Members(s, n, f) /\ \A k \in 1..n : Begins(f[k], f[n])
  BY FlatteningMembers, FlatteningPrefix
<1>2. Members(t, n, g) /\ \A k \in 1..n : Begins(g[k], g[n])
  BY FlatteningMembers, FlatteningPrefix
<1>3. \A k \in 1..n : f[k] \in Seq(Nat) /\ g[k] \in Seq(Nat)
  BY <1>1, <1>2 DEF Members
<1>4. ASSUME NEW k \in 1..n
      PROVE  Agree(f[k], g[k])
  <2> SUFFICES ASSUME NEW i \in 1..Len(f[k]), i <= Len(g[k])
               PROVE  f[k][i] = g[k][i]
    BY DEF Agree
  <2>1. f[n][i] = f[k][i]
    BY <1>1 DEF Begins
  <2>2. i \in 1..Len(g[k])
    BY <1>3
  <2>3. g[n][i] = g[k][i]
    BY <1>2, <2>2 DEF Begins
  <2> QED
    BY <2>1, <2>3
<1> DEFINE T == {k \in Nat : k + 1 \in 1..n => s[k + 1] = t[k + 1] /\ f[k + 1] = g[k + 1]}
<1>5. 0 \in T
  <2> SUFFICES s[1] = t[1] /\ f[1] = g[1]
    OBVIOUS
  <2>1. f[1] = s[1] /\ g[1] = t[1]
    BY <1>1, <1>2 DEF Members
  <2>2. Agree(s[1], t[1])
    BY <1>4, <2>1
  <2> QED
    BY <2>1, <2>2
<1>6. ASSUME NEW k \in Nat, k \in T
      PROVE  k + 1 \in T
  <2> SUFFICES ASSUME (k + 1) + 1 \in 1..n
               PROVE  s[(k + 1) + 1] = t[(k + 1) + 1] /\ f[(k + 1) + 1] = g[(k + 1) + 1]
    OBVIOUS
  <2>0. PICK e \in 1..n, m \in 1..n : e = k + 1 /\ m = (k + 1) + 1 /\ m - 1 = e /\ m # 1
    OBVIOUS
  <2>1. f[e] = g[e]
    BY <1>6, <2>0
  <2> HIDE DEF T
  <2>2. f[m] = f[e] \o s[m]
    BY <1>1, <2>0 DEF Members
  <2>3. g[m] = g[e] \o t[m]
    BY <1>2, <2>0 DEF Members
  <2>4. PICK p \in Seq(Nat), x \in Seq(Nat), y \in Seq(Nat) :
          p = f[e] /\ x = s[m] /\ y = t[m]
    BY <1>3
  <2>5. Agree(p \o x, p \o y)
    BY <1>4, <2>1, <2>2, <2>3, <2>4
  <2>6. Agree(x, y)
    BY <2>5, AgreeAfter
  <2>7. s[m] = t[m] /\ f[m] = g[m]
    BY <2>1, <2>2, <2>3, <2>4, <2>6
  <2> QED
    BY <2>0, <2>7
<1>7. Nat \subseteq T
  <2> HIDE DEF T
  <2> QED
    BY <1>5, <1>6, NatSetInduction
<1>8. ASSUME NEW k \in 1..n
      PROVE  s[k] = t[k]
  <2>1. PICK e \in Nat : e + 1 = k
    <3>1. k - 1 \in Nat /\ (k - 1) + 1 = k
      OBVIOUS
    <3> QED
      BY <3>1
  <2>2. e \in T
    BY <1>7
  <2> QED
    BY <2>1, <2>2
<1> QED
  BY <1>8

\* Sequences whose members cannot be mistaken for one another, place by place,
\* are told apart by the bytes they make.
LEMMA FlattenUnique ==
  ASSUME NEW n \in Nat, NEW s \in [1..n -> Seq(Nat)], NEW t \in [1..n -> Seq(Nat)],
         Len(s) = n, Len(t) = n,
         \A k \in 1..n : Agree(s[k], t[k]) => s[k] = t[k],
         FlattenSeq(s) = FlattenSeq(t)
  PROVE  s = t
<1>1. CASE n = 0
  BY <1>1
<1>2. CASE n # 0
  <2>1. PICK f : Flattening(s, n, f) /\ FlattenSeq(s) = f[n]
    BY <1>2, FlattenSteps
  <2>2. PICK g : Flattening(t, n, g) /\ FlattenSeq(t) = g[n]
    BY <1>2, FlattenSteps
  <2>3. f[n] = g[n]
    BY <2>1, <2>2
  <2> QED
    BY <1>2, <2>1, <2>2, <2>3, FlatteningUnique, Zenon
<1> QED
  BY <1>1, <1>2

------------------------------------------------------------------------------
(* Rows with one message are the same. *)

LEMMA NormalizesSameFloat ==
  ASSUME NEW s, NEW x \in Nat, NEW y \in Nat, Normalize(s, x) = Normalize(s, y)
  PROVE  SameFloat(s, x, y)
BY DEF Normalize, NormalizeWithPolicy, SameFloat, IsZero, IsNaN

LEMMA NormalizeType ==
  ASSUME NEW s, NEW x \in Nat
  PROVE  Normalize(s, x) \in Nat
BY DEF Normalize, NormalizeWithPolicy

LEMMA ElementType ==
  ASSUME NEW s, NEW a \in Nullable(Nat)
  PROVE  EncodeElement(s, a) \in Seq(Nat)
<1>1. CASE a = Null
  BY <1>1 DEF EncodeElement
<1>2. CASE a # Null
  <2>1. a[1] \in Nat
    BY <1>2 DEF Nullable, Null
  <2> QED
    BY <1>2, <2>1, NormalizeType DEF EncodeElement
<1> QED
  BY <1>1, <1>2

\* An element cannot be mistaken for the beginning of another.
LEMMA ElementsApart ==
  ASSUME NEW s, NEW a \in Nullable(Nat), NEW b \in Nullable(Nat),
         Agree(EncodeElement(s, a), EncodeElement(s, b))
  PROVE  /\ EncodeElement(s, a) = EncodeElement(s, b)
         /\ IF a = Null \/ b = Null THEN a = b ELSE SameFloat(s, a[1], b[1])
<1>1. CASE a = Null /\ b = Null
  BY <1>1
<1>2. CASE a = Null /\ b # Null
  <2>1. EncodeElement(s, a) = <<0>> /\ EncodeElement(s, b) = <<1, Normalize(s, b[1])>>
    BY <1>2 DEF EncodeElement
  <2> QED
    BY <2>1 DEF Agree
<1>3. CASE a # Null /\ b = Null
  <2>1. EncodeElement(s, b) = <<0>> /\ EncodeElement(s, a) = <<1, Normalize(s, a[1])>>
    BY <1>3 DEF EncodeElement
  <2> QED
    BY <2>1 DEF Agree
<1>4. CASE a # Null /\ b # Null
  <2>1. /\ EncodeElement(s, a) = <<1, Normalize(s, a[1])>>
        /\ EncodeElement(s, b) = <<1, Normalize(s, b[1])>>
    BY <1>4 DEF EncodeElement
  <2>2. a[1] \in Nat /\ b[1] \in Nat
    BY <1>4 DEF Nullable, Null
  <2>3. Normalize(s, a[1]) = Normalize(s, b[1])
    BY <2>1 DEF Agree
  <2> QED
    BY <1>4, <2>1, <2>2, <2>3, NormalizesSameFloat
<1> QED
  BY <1>1, <1>2, <1>3, <1>4

FloatArrays == {a \in [dims : Seq(Nat), lower_bounds : Seq(Nat), elements : Seq(Nullable(Nat))] :
                  Len(a.dims) = Len(a.lower_bounds)}

Elements(s, array) == [i \in 1..Len(array.elements) |-> EncodeElement(s, array.elements[i])]

LEMMA ElementsType ==
  ASSUME NEW s, NEW x \in FloatArrays
  PROVE  \E n \in Nat : /\ n = Len(x.elements)
                        /\ Elements(s, x) \in [1..n -> Seq(Nat)]
                        /\ Len(Elements(s, x)) = n
                        /\ \A i \in 1..n : x.elements[i] \in Nullable(Nat)
<1>1. PICK n \in Nat : n = Len(x.elements)
  BY DEF FloatArrays
<1>2. \A i \in 1..n : x.elements[i] \in Nullable(Nat)
  <2>1. x.elements \in Seq(Nullable(Nat))
    BY DEF FloatArrays
  <2> QED
    BY <1>1, <2>1
<1>3. Elements(s, x) = [i \in 1..n |-> EncodeElement(s, x.elements[i])]
  BY <1>1 DEF Elements
<1>4. Elements(s, x) \in [1..n -> Seq(Nat)]
  BY <1>2, <1>3, ElementType
<1>5. Len(Elements(s, x)) = n
  BY <1>3
<1> QED
  BY <1>1, <1>2, <1>4, <1>5

LEMMA HeaderType ==
  ASSUME NEW a \in Nat, NEW b \in Nat, NEW c \in Nat
  PROVE  /\ <<a, b, c>> \in Seq(Nat)
         /\ Len(<<a, b, c>>) = 3
         /\ <<a, b, c>>[2] = b
         /\ <<a, b, c>>[3] = c
OBVIOUS

\* w is a header that holds the length of the next two parts, those and a last one.
Parts(w, h, d, b, f) ==
  /\ h \in Seq(Nat) /\ d \in Seq(Nat) /\ b \in Seq(Nat) /\ f \in Seq(Nat)
  /\ Len(h) = 3 /\ h[2] = Len(d) /\ Len(d) = Len(b)
  /\ w = h \o d \o b \o f

LEMMA PartsJoin ==
  ASSUME NEW w, NEW h, NEW d, NEW b, NEW f, Parts(w, h, d, b, f)
  PROVE  \E u \in Seq(Nat), x \in Seq(Nat) :
           /\ Joins(u, h, d)
           /\ Joins(x, u, b)
           /\ Joins(w, x, f)
           /\ Len(u) = 3 + Len(d)
           /\ Len(x) = 3 + Len(d) + Len(d)
           /\ w[2] = Len(d)
<1>1. h \in Seq(Nat) /\ d \in Seq(Nat) /\ b \in Seq(Nat) /\ f \in Seq(Nat)
  BY DEF Parts
<1>2. PICK u : u = h \o d
  OBVIOUS
<1>3. Joins(u, h, d)
  BY <1>1, <1>2, Concatenation
<1>4. u \in Seq(Nat)
  BY <1>3 DEF Joins
<1>5. PICK x : x = u \o b
  OBVIOUS
<1>6. Joins(x, u, b)
  BY <1>1, <1>4, <1>5, Concatenation
<1>7. x \in Seq(Nat)
  BY <1>6 DEF Joins
<1>8. w = x \o f
  BY <1>2, <1>5 DEF Parts
<1>9. Joins(w, x, f)
  BY <1>1, <1>7, <1>8, Concatenation
<1>10. Len(h) = 3 /\ Len(d) = Len(b) /\ h[2] = Len(d) /\ Len(d) \in Nat
  BY DEF Parts
<1>11. Len(u) = 3 + Len(d) /\ Len(x) = 3 + Len(d) + Len(d)
  BY <1>3, <1>6, <1>10 DEF Joins
<1>12. w[2] = Len(d)
  <2>1. PICK i : i = 2
    OBVIOUS
  <2>2. i \in 1..Len(h)
    BY <1>10, <2>1
  <2>3. i \in 1..Len(u) /\ u[i] = h[i]
    BY <1>1, <1>3, <2>2, JoinsBegins
  <2>4. i \in 1..Len(x) /\ x[i] = u[i]
    BY <1>1, <1>4, <1>6, <2>3, JoinsBegins
  <2>5. w[i] = x[i]
    BY <1>1, <1>7, <1>9, <2>4, JoinsBegins
  <2> QED
    BY <1>10, <2>1, <2>3, <2>4, <2>5
<1> QED
  BY <1>3, <1>4, <1>6, <1>7, <1>9, <1>11, <1>12

LEMMA PartsApart ==
  ASSUME NEW w, NEW h, NEW d, NEW b, NEW f, Parts(w, h, d, b, f),
         NEW k, NEW e, NEW c, NEW g, Parts(w, k, e, c, g)
  PROVE  h = k /\ d = e /\ b = c /\ f = g
<1>1. /\ h \in Seq(Nat) /\ d \in Seq(Nat) /\ b \in Seq(Nat) /\ f \in Seq(Nat)
      /\ k \in Seq(Nat) /\ e \in Seq(Nat) /\ c \in Seq(Nat) /\ g \in Seq(Nat)
      /\ Len(h) = Len(k)
  BY DEF Parts
<1>2. PICK u \in Seq(Nat), x \in Seq(Nat) :
        /\ Joins(u, h, d) /\ Joins(x, u, b) /\ Joins(w, x, f)
        /\ Len(u) = 3 + Len(d) /\ Len(x) = 3 + Len(d) + Len(d) /\ w[2] = Len(d)
  BY PartsJoin
<1>3. PICK v \in Seq(Nat), y \in Seq(Nat) :
        /\ Joins(v, k, e) /\ Joins(y, v, c) /\ Joins(w, y, g)
        /\ Len(v) = 3 + Len(e) /\ Len(y) = 3 + Len(e) + Len(e) /\ w[2] = Len(e)
  BY PartsJoin
<1>4. Len(u) = Len(v) /\ Len(x) = Len(y)
  BY <1>2, <1>3
<1>5. x = y /\ f = g
  <2>1. Joins(w, x, f) /\ Joins(w, y, g)
    BY <1>2, <1>3
  <2> QED
    BY <1>1, <1>4, <2>1, JoinsSplit
<1>6. u = v /\ b = c
  <2>1. Joins(x, u, b) /\ Joins(x, v, c)
    BY <1>2, <1>3, <1>5
  <2> QED
    BY <1>1, <1>4, <2>1, JoinsSplit
<1>7. h = k /\ d = e
  <2>1. Joins(u, h, d) /\ Joins(u, k, e)
    BY <1>2, <1>3, <1>6
  <2> QED
    BY <1>1, <2>1, JoinsSplit
<1> QED
  BY <1>5, <1>6, <1>7

\* Arrays with the same bytes are the same.
LEMMA ArraysApart ==
  ASSUME NEW s, NEW type, NEW x \in FloatArrays, NEW y \in FloatArrays,
         EncodeFloatArray(s, type, x) = EncodeFloatArray(s, type, y)
  PROVE  SameArray(s, x, y)
<1>1. /\ x.dims \in Seq(Nat) /\ x.lower_bounds \in Seq(Nat) /\ Len(x.dims) = Len(x.lower_bounds)
      /\ y.dims \in Seq(Nat) /\ y.lower_bounds \in Seq(Nat) /\ Len(y.dims) = Len(y.lower_bounds)
      /\ Len(x.dims) \in Nat /\ Len(x.elements) \in Nat
      /\ Len(y.dims) \in Nat /\ Len(y.elements) \in Nat
  BY DEF FloatArrays
<1>2. PICK size \in Nat : size = IF type = "float4[]" THEN 4 ELSE 8
  OBVIOUS
<1>3. PICK h, k : h = <<size, Len(x.dims), Len(x.elements)>> /\ k = <<size, Len(y.dims), Len(y.elements)>>
  OBVIOUS
<1>4. /\ h \in Seq(Nat) /\ Len(h) = 3 /\ h[2] = Len(x.dims) /\ h[3] = Len(x.elements)
      /\ k \in Seq(Nat) /\ Len(k) = 3 /\ k[2] = Len(y.dims) /\ k[3] = Len(y.elements)
  BY <1>1, <1>3, HeaderType
<1>5. PICK f, g : f = FlattenSeq(Elements(s, x)) /\ g = FlattenSeq(Elements(s, y))
  OBVIOUS
<1>6. f \in Seq(Nat) /\ g \in Seq(Nat)
  BY <1>5, ElementsType, FlattenType
<1>7. PICK w : /\ w = h \o x.dims \o x.lower_bounds \o f
               /\ w = k \o y.dims \o y.lower_bounds \o g
  <2>1. EncodeFloatArray(s, type, x) = h \o x.dims \o x.lower_bounds \o f
    BY <1>2, <1>3, <1>5, Zenon DEF EncodeFloatArray, Elements
  <2>2. EncodeFloatArray(s, type, y) = k \o y.dims \o y.lower_bounds \o g
    BY <1>2, <1>3, <1>5, Zenon DEF EncodeFloatArray, Elements
  <2> QED
    BY <2>1, <2>2
<1>8. h = k /\ x.dims = y.dims /\ x.lower_bounds = y.lower_bounds /\ f = g
  <2>1. Parts(w, h, x.dims, x.lower_bounds, f) /\ Parts(w, k, y.dims, y.lower_bounds, g)
    BY <1>1, <1>4, <1>6, <1>7, Zenon DEF Parts
  <2> QED
    BY <2>1, PartsApart
<1>9. Len(x.elements) = Len(y.elements)
  BY <1>4, <1>8
<1>10. FlattenSeq(Elements(s, x)) = FlattenSeq(Elements(s, y))
  BY <1>5, <1>8
<1>11. PICK n \in Nat : /\ n = Len(x.elements)
                        /\ Elements(s, x) \in [1..n -> Seq(Nat)]
                        /\ Len(Elements(s, x)) = n
                        /\ \A i \in 1..n : x.elements[i] \in Nullable(Nat)
  BY ElementsType
<1>12. /\ Elements(s, y) \in [1..n -> Seq(Nat)]
       /\ Len(Elements(s, y)) = n
       /\ \A i \in 1..n : y.elements[i] \in Nullable(Nat)
  BY <1>9, <1>11, ElementsType
<1>13. /\ \A i \in 1..n : Elements(s, x)[i] = EncodeElement(s, x.elements[i])
       /\ \A i \in 1..n : Elements(s, y)[i] = EncodeElement(s, y.elements[i])
  BY <1>9, <1>11 DEF Elements
<1>14. ASSUME NEW i \in 1..n, Agree(Elements(s, x)[i], Elements(s, y)[i])
       PROVE  /\ Elements(s, x)[i] = Elements(s, y)[i]
              /\ IF x.elements[i] = Null \/ y.elements[i] = Null
                 THEN x.elements[i] = y.elements[i]
                 ELSE SameFloat(s, x.elements[i][1], y.elements[i][1])
  BY <1>11, <1>12, <1>13, <1>14, ElementsApart
<1>15. Elements(s, x) = Elements(s, y)
  BY <1>10, <1>11, <1>12, <1>14, FlattenUnique
<1>16. \A i \in 1..n : Agree(Elements(s, x)[i], Elements(s, y)[i])
  BY <1>15 DEF Agree
<1> QED
  BY <1>8, <1>9, <1>11, <1>14, <1>16 DEF SameArray

\* What each kind of value is encoded as, in the mode its column has.
Datum(s, type, v, json_normalize) ==
  EncodeDatum(s, type, v, ColumnEncodingMode(type, json_normalize))

FloatKind(s, type, json_normalize) ==
  /\ ValueOf(type) = Nat
  /\ \A v : Datum(s, type, v, json_normalize) = <<Normalize(s, v)>>
  /\ \A x, y : session["local"] = s /\ SameFloat(s, x, y)
       => SameValue(session["local"], type, x, y)

ArrayKind(s, type, json_normalize) ==
  /\ ValueOf(type) = FloatArrays
  /\ \A v : Datum(s, type, v, json_normalize) = EncodeFloatArray(s, type, v)
  /\ \A x, y : session["local"] = s /\ SameArray(s, x, y)
       => SameValue(session["local"], type, x, y)

DocumentKind(s, type, json_normalize) ==
  /\ ValueOf(type) = [document : Nat, layout : Nat]
  /\ \A v : Datum(s, type, v, json_normalize) = <<1, v.document>>
  /\ \A x, y : options.json_normalize = json_normalize /\ x.document = y.document
       => SameValue(session["local"], type, x, y)

JsonTextKind(s, type, json_normalize) ==
  /\ ValueOf(type) = [document : Nat, layout : Nat]
  /\ \A v : Datum(s, type, v, json_normalize) = <<v.document, v.layout>>
  /\ \A x : options.json_normalize = json_normalize
       => SameValue(session["local"], type, x, x)

OtherKind(s, type, json_normalize) ==
  /\ ValueOf(type) = Seq(Nat)
  /\ \A v : Datum(s, type, v, json_normalize) = v
  /\ \A x : SameValue(session["local"], type, x, x)

LEMMA DatumOfKind ==
  ASSUME NEW s, NEW type, NEW json_normalize \in BOOLEAN
  PROVE  \/ FloatKind(s, type, json_normalize)
         \/ ArrayKind(s, type, json_normalize)
         \/ DocumentKind(s, type, json_normalize)
         \/ JsonTextKind(s, type, json_normalize)
         \/ OtherKind(s, type, json_normalize)
<1>1. CASE IsFloat(type)
  <2>1. ~IsFloatArray(type) /\ type # "json" /\ type # "numeric"
    BY <1>1 DEF IsFloat, IsFloatArray
  <2>2. ColumnEncodingMode(type, json_normalize) = EncodingMode.Send
    BY <2>1 DEF ColumnEncodingMode
  <2>3. \A v : Datum(s, type, v, json_normalize) = <<Normalize(s, v)>>
    BY <1>1, <2>1, <2>2 DEF Datum, EncodeDatum, EncodingMode, EncodeSend, NormalizeFloatDatum
  <2>4. ValueOf(type) = Nat
    BY <1>1, <2>1 DEF ValueOf
  <2>5. \A x, y : SameFloat(session["local"], x, y) => SameValue(session["local"], type, x, y)
    BY <1>1, <2>1 DEF SameValue
  <2> QED
    BY <2>3, <2>4, <2>5 DEF FloatKind
<1>2. CASE IsFloatArray(type)
  <2>1. ~IsFloat(type) /\ type # "json" /\ type # "numeric"
    BY <1>2 DEF IsFloat, IsFloatArray
  <2>2. ColumnEncodingMode(type, json_normalize) = EncodingMode.Send
    BY <2>1 DEF ColumnEncodingMode
  <2>3. \A v : Datum(s, type, v, json_normalize) = EncodeFloatArray(s, type, v)
    BY <1>2, <2>2 DEF Datum, EncodeDatum, EncodingMode
  <2>4. ValueOf(type) = FloatArrays
    BY <1>2, <2>1 DEF ValueOf, FloatArrays
  <2>5. \A x, y : SameArray(session["local"], x, y) => SameValue(session["local"], type, x, y)
    BY <1>2, <2>1 DEF SameValue
  <2> QED
    BY <2>3, <2>4, <2>5 DEF ArrayKind
<1>3. CASE type = "json"
  <2>1. ~IsFloat(type) /\ ~IsFloatArray(type)
    BY <1>3 DEF IsFloat, IsFloatArray
  <2>2. ValueOf(type) = [document : Nat, layout : Nat]
    BY <1>3, <2>1 DEF ValueOf
  <2>3. CASE json_normalize
    <3>1. ColumnEncodingMode(type, json_normalize) = EncodingMode.JsonbNormalize
      BY <1>3, <2>3 DEF ColumnEncodingMode
    <3>2. \A v : Datum(s, type, v, json_normalize) = <<1, v.document>>
      BY <2>1, <3>1 DEF Datum, EncodeDatum, NormalizeFloatDatum, EncodeJsonAsJsonb, EncodingMode
    <3>3. \A x, y : options.json_normalize /\ x.document = y.document
            => SameValue(session["local"], type, x, y)
      BY <1>3, <2>1 DEF SameValue
    <3> QED
      BY <2>2, <2>3, <3>2, <3>3 DEF DocumentKind
  <2>4. CASE ~json_normalize
    <3>1. ColumnEncodingMode(type, json_normalize) = EncodingMode.Text
      BY <1>3, <2>4 DEF ColumnEncodingMode
    <3>2. \A v : Datum(s, type, v, json_normalize) = <<v.document, v.layout>>
      BY <1>3, <2>1, <3>1 DEF Datum, EncodeDatum, NormalizeFloatDatum, EncodeText, EncodingMode
    <3>3. \A x : ~options.json_normalize => SameValue(session["local"], type, x, x)
      BY <1>3, <2>1 DEF SameValue
    <3> QED
      BY <2>2, <2>4, <3>2, <3>3 DEF JsonTextKind
  <2> QED
    BY <2>3, <2>4
<1>4. CASE ~IsFloat(type) /\ ~IsFloatArray(type) /\ type # "json"
  <2>1. /\ ColumnEncodingMode(type, json_normalize) \in {EncodingMode.Send, EncodingMode.Text}
        /\ EncodingMode.Send # EncodingMode.Text
    BY <1>4 DEF ColumnEncodingMode, EncodingMode
  <2>2. \A v : EncodeText(type, v) = v /\ EncodeSend(type, v) = v /\ NormalizeFloatDatum(s, type, v) = v
    BY <1>4 DEF EncodeText, EncodeSend, NormalizeFloatDatum
  <2>3. ASSUME NEW v
        PROVE  Datum(s, type, v, json_normalize) = v
    <3> DEFINE mode == ColumnEncodingMode(type, json_normalize)
    <3>1. CASE mode = EncodingMode.Send
      <4> HIDE DEF mode
      <4>1. EncodeDatum(s, type, v, mode) = EncodeSend(type, NormalizeFloatDatum(s, type, v))
        BY <1>4, <3>1 DEF EncodeDatum, EncodingMode
      <4> QED
        BY <2>2, <4>1 DEF Datum, mode
    <3>2. CASE mode = EncodingMode.Text
      <4> HIDE DEF mode
      <4>1. EncodeDatum(s, type, v, mode) = EncodeText(type, NormalizeFloatDatum(s, type, v))
        BY <1>4, <3>2 DEF EncodeDatum, EncodingMode
      <4> QED
        BY <2>2, <4>1 DEF Datum, mode
    <3> QED
      BY <2>1, <3>1, <3>2
  <2>4. ValueOf(type) = Seq(Nat)
    BY <1>4 DEF ValueOf
  <2>5. \A x : SameValue(session["local"], type, x, x)
    BY <1>4 DEF SameValue
  <2> QED
    BY <2>3, <2>4, <2>5 DEF OtherKind
<1> QED
  BY <1>1, <1>2, <1>3, <1>4

LEMMA ArrayType ==
  ASSUME NEW s, NEW type, NEW x \in FloatArrays
  PROVE  EncodeFloatArray(s, type, x) \in Seq(Nat)
<1>1. /\ x.dims \in Seq(Nat) /\ x.lower_bounds \in Seq(Nat)
      /\ Len(x.dims) \in Nat /\ Len(x.elements) \in Nat
  BY DEF FloatArrays
<1>2. PICK size \in Nat : size = IF type = "float4[]" THEN 4 ELSE 8
  OBVIOUS
<1>3. PICK h : h = <<size, Len(x.dims), Len(x.elements)>>
  OBVIOUS
<1>4. h \in Seq(Nat)
  BY <1>1, <1>3, HeaderType
<1>5. PICK f : f = FlattenSeq(Elements(s, x))
  OBVIOUS
<1>6. f \in Seq(Nat)
  BY <1>5, ElementsType, FlattenType
<1>7. EncodeFloatArray(s, type, x) = h \o x.dims \o x.lower_bounds \o f
  BY <1>2, <1>3, <1>5, Zenon DEF EncodeFloatArray, Elements
<1> QED
  BY <1>1, <1>4, <1>6, <1>7

LEMMA DatumType ==
  ASSUME NEW s, NEW type, NEW json_normalize \in BOOLEAN, NEW v \in ValueOf(type)
  PROVE  Datum(s, type, v, json_normalize) \in Seq(Nat)
<1>1. CASE FloatKind(s, type, json_normalize)
  <2>1. v \in Nat /\ Datum(s, type, v, json_normalize) = <<Normalize(s, v)>>
    BY <1>1 DEF FloatKind
  <2>2. Normalize(s, v) \in Nat
    BY <2>1, NormalizeType
  <2> QED
    BY <2>1, <2>2
<1>2. CASE ArrayKind(s, type, json_normalize)
  BY <1>2, ArrayType DEF ArrayKind
<1>3. CASE DocumentKind(s, type, json_normalize)
  <2>1. v.document \in Nat /\ Datum(s, type, v, json_normalize) = <<1, v.document>>
    BY <1>3 DEF DocumentKind
  <2> QED
    BY <2>1
<1>4. CASE JsonTextKind(s, type, json_normalize)
  <2>1. /\ v.document \in Nat /\ v.layout \in Nat
        /\ Datum(s, type, v, json_normalize) = <<v.document, v.layout>>
    BY <1>4 DEF JsonTextKind
  <2> QED
    BY <2>1
<1>5. CASE OtherKind(s, type, json_normalize)
  BY <1>5 DEF OtherKind
<1> QED
  BY <1>1, <1>2, <1>3, <1>4, <1>5, DatumOfKind

\* Values with the same bytes are the same.
LEMMA ValuesApart ==
  ASSUME NEW type, options.json_normalize \in BOOLEAN,
         NEW x \in ValueOf(type), NEW y \in ValueOf(type),
         Datum(session["local"], type, x, options.json_normalize)
           = Datum(session["local"], type, y, options.json_normalize)
  PROVE  SameValue(session["local"], type, x, y)
<1> DEFINE s == session["local"]
           j == options.json_normalize
<1>1. PICK a, b : a = Datum(s, type, x, j) /\ b = Datum(s, type, y, j) /\ a = b
  OBVIOUS
<1>2. CASE FloatKind(s, type, j)
  <2>1. x \in Nat /\ y \in Nat /\ a = <<Normalize(s, x)>> /\ b = <<Normalize(s, y)>>
    BY <1>1, <1>2 DEF FloatKind
  <2>2. Normalize(s, x) = Normalize(s, y)
    BY <1>1, <2>1
  <2>3. SameFloat(s, x, y)
    BY <2>1, <2>2, NormalizesSameFloat
  <2> QED
    BY <1>2, <2>3 DEF FloatKind
<1>3. CASE ArrayKind(s, type, j)
  <2>1. /\ x \in FloatArrays /\ y \in FloatArrays
        /\ EncodeFloatArray(s, type, x) = EncodeFloatArray(s, type, y)
    BY <1>1, <1>3 DEF ArrayKind
  <2>2. SameArray(s, x, y)
    BY <2>1, ArraysApart
  <2> QED
    BY <1>3, <2>2 DEF ArrayKind
<1>4. CASE DocumentKind(s, type, j)
  <2>1. a = <<1, x.document>> /\ b = <<1, y.document>>
    BY <1>1, <1>4 DEF DocumentKind
  <2>2. x.document = y.document
    BY <1>1, <2>1
  <2> QED
    BY <1>4, <2>2 DEF DocumentKind
<1>5. CASE JsonTextKind(s, type, j)
  <2>1. /\ x \in [document : Nat, layout : Nat] /\ y \in [document : Nat, layout : Nat]
        /\ a = <<x.document, x.layout>> /\ b = <<y.document, y.layout>>
    BY <1>1, <1>5 DEF JsonTextKind
  <2>2. x.document = y.document /\ x.layout = y.layout
    BY <1>1, <2>1
  <2>3. x = y
    BY <2>1, <2>2
  <2> QED
    BY <1>5, <2>3 DEF JsonTextKind
<1>6. CASE OtherKind(s, type, j)
  BY <1>1, <1>6 DEF OtherKind
<1> QED
  BY <1>2, <1>3, <1>4, <1>5, <1>6, DatumOfKind

\* The values a frame holds, and what the frame of one that is not NULL is.
Framable == {v \in Nullable(Seq(Nat)) : v # Null => Len(v[1]) < LengthSize}

IsFrame(x, w) ==
  /\ w \in Seq(Nat)
  /\ x \in Seq(Nat)
  /\ Len(x) = Len(w) + 2
  /\ x[1] = 1
  /\ x[2] = Len(w)
  /\ \A i \in 1..Len(w) : x[i + 2] = w[i]

LEMMA NullableShape ==
  ASSUME NEW S, NEW v \in Nullable(S), v # Null
  PROVE  v[1] \in S /\ v = <<v[1]>>
<1>1. v \in Seq(S) /\ Len(v) = 1
  <2>1. v \in Seq(S) /\ Len(v) \in Nat /\ Len(v) <= 1
    BY DEF Nullable
  <2>2. PICK k \in Nat : k = Len(v)
    BY <2>1
  <2>3. k # 0
    <3>1. PICK e : e = <<>>
      OBVIOUS
    <3>2. e \in Seq(S) /\ Len(e) = 0 /\ v # e
      BY <3>1 DEF Null
    <3> QED
      BY <2>1, <2>2, <3>2, SequencesEqual
  <2>4. k = 1
    BY <2>1, <2>2, <2>3
  <2> QED
    BY <2>1, <2>2, <2>4
<1>2. PICK u : u = <<v[1]>>
  OBVIOUS
<1>3. v[1] \in S
  BY <1>1
<1>4. u \in Seq(S) /\ Len(u) = 1 /\ u[1] = v[1]
  BY <1>2, <1>3
<1>5. u = v
  BY <1>1, <1>4, SequencesEqual
<1> QED
  BY <1>2, <1>3, <1>5

LEMMA FrameShape ==
  ASSUME NEW a \in Framable
  PROVE  \/ a = Null /\ FrameValue(a) = <<0>>
         \/ a # Null /\ \E w : a = <<w>> /\ IsFrame(FrameValue(a), w)
<1>1. CASE a = Null
  BY <1>1 DEF FrameValue
<1>2. CASE a # Null
  <2>1. PICK w \in Seq(Nat) : a = <<w>> /\ Len(w) < LengthSize
    <3>1. a \in Nullable(Seq(Nat)) /\ Len(a[1]) < LengthSize
      BY <1>2 DEF Framable
    <3>2. a[1] \in Seq(Nat) /\ a = <<a[1]>>
      BY <1>2, <3>1, NullableShape
    <3> QED
      BY <3>1, <3>2
  <2>2. PICK k \in Nat : k = Len(w)
    OBVIOUS
  <2>3. k % LengthSize = k
    <3>1. k \in 0..LengthSize - 1 /\ LengthSize \in Nat \ {0}
      BY <2>1, <2>2, LengthAssumption
    <3> QED
      BY <3>1
  <2>4. PICK h : h = <<1, k>>
    OBVIOUS
  <2>5. h \in Seq(Nat) /\ Len(h) = 2 /\ h[1] = 1 /\ h[2] = k
    BY <2>4
  <2>6. FrameValue(a) = h \o w
    BY <1>2, <2>1, <2>2, <2>3, <2>4 DEF FrameValue
  <2>7. Joins(FrameValue(a), h, w)
    BY <2>5, <2>6, Concatenation
  <2>8. IsFrame(FrameValue(a), w)
    BY <2>2, <2>5, <2>7 DEF IsFrame, Joins
  <2> QED
    BY <1>2, <2>1, <2>8
<1> QED
  BY <1>1, <1>2

LEMMA FrameType ==
  ASSUME NEW a \in Framable
  PROVE  FrameValue(a) \in Seq(Nat)
<1>1. CASE FrameValue(a) = <<0>>
  BY <1>1
<1>2. CASE \E w : IsFrame(FrameValue(a), w)
  BY <1>2 DEF IsFrame
<1> QED
  BY <1>1, <1>2, FrameShape

LEMMA SizedFramesApart ==
  ASSUME NEW x, NEW y, NEW w, NEW v, IsFrame(x, w), IsFrame(y, v), Agree(x, y)
  PROVE  w = v
<1>1. Len(w) = Len(v)
  BY DEF IsFrame, Agree
<1>2. \A i \in 1..Len(w) : w[i] = v[i]
  <2>1. ASSUME NEW i \in 1..Len(w) PROVE w[i] = v[i]
    <3>1. i + 2 \in 1..Len(x) /\ i + 2 <= Len(y) /\ i \in 1..Len(v)
      BY <1>1 DEF IsFrame
    <3>2. x[i + 2] = y[i + 2]
      BY <3>1 DEF Agree
    <3> QED
      BY <3>1, <3>2 DEF IsFrame
  <2> QED
    BY <2>1
<1> QED
  BY <1>1, <1>2, SequencesEqual DEF IsFrame

\* A frame cannot be mistaken for the beginning of another: NULL and an empty
\* value differ in the first byte, and the length says where a value ends.
LEMMA FramesApart ==
  ASSUME NEW a \in Framable, NEW b \in Framable, Agree(FrameValue(a), FrameValue(b))
  PROVE  a = b
<1>1. CASE FrameValue(a) = <<0>> /\ FrameValue(b) = <<0>>
  <2>1. \A x, w : IsFrame(x, w) => x # <<0>>
    BY DEF IsFrame
  <2> QED
    BY <1>1, <2>1, FrameShape
<1>2. ASSUME FrameValue(a) = << 0 >>, NEW v, IsFrame(FrameValue(b), v)
      PROVE  FALSE
  BY <1>2 DEF IsFrame, Agree
<1>3. ASSUME FrameValue(b) = << 0 >>, NEW w, IsFrame(FrameValue(a), w)
      PROVE  FALSE
  BY <1>3 DEF IsFrame, Agree
<1>4. ASSUME NEW w, a = <<w>>, IsFrame(FrameValue(a), w),
             NEW v, b = <<v>>, IsFrame(FrameValue(b), v)
      PROVE  a = b
  BY <1>4, SizedFramesApart
<1> QED
  BY <1>1, <1>2, <1>3, <1>4, FrameShape

\* What column c of a row is encoded as, before it is framed.
Encoded(row, c) ==
  IF row[c] = Null THEN Null
  ELSE <<Datum(session["local"], Columns[c], row[c][1], options.json_normalize)>>

LEMMA EncodedFramable ==
  ASSUME Typed, NEW t \in Tables, NEW i \in DOMAIN t, NEW c \in DOMAIN Columns
  PROVE  Encoded(t[i], c) \in Framable
<1> DEFINE s == session["local"]
           j == options.json_normalize
           v == t[i][c]
<1>1. j \in BOOLEAN /\ s \in Sessions
  BY DEF Typed, Node
<1>2. CASE v = Null
  BY <1>2 DEF Encoded, Framable, Nullable, Null
<1>3. CASE v # Null
  <2>1. v \in Nullable(ValueOf(Columns[c]))
    BY TablesAssumption
  <2>2. v[1] \in ValueOf(Columns[c])
    BY <1>3, <2>1, NullableShape
  <2>3. PICK datum : datum = Datum(s, Columns[c], v[1], j)
    OBVIOUS
  <2>4. datum \in Seq(Nat)
    BY <1>1, <2>2, <2>3, DatumType
  <2>5. Enc(j)[c] = ColumnEncodingMode(Columns[c], j)
    BY DEF Enc
  <2>6. Len(datum) < LengthSize
    BY <1>1, <1>3, <2>3, <2>5, LengthsAssumption DEF Datum
  <2>7. Encoded(t[i], c) = <<datum>>
    BY <1>3, <2>3 DEF Encoded
  <2> HIDE DEF v
  <2>8. <<datum>> \in Nullable(Seq(Nat))
    BY <2>4 DEF Nullable
  <2> QED
    BY <2>6, <2>7, <2>8 DEF Framable
<1> QED
  BY <1>2, <1>3

Frames(row) == [c \in DOMAIN Columns |-> FrameValue(Encoded(row, c))]

LEMMA MessageOfFrames ==
  ASSUME NEW row, DOMAIN row = DOMAIN Columns
  PROVE  Message(session["local"], Enc(options.json_normalize), Columns, row)
           = FlattenSeq(Frames(row))
<1>1. \A c \in DOMAIN Columns :
        Enc(options.json_normalize)[c] = ColumnEncodingMode(Columns[c], options.json_normalize)
  BY DEF Enc
<1>2. Frames(row)
        = [c \in DOMAIN row |->
             FrameValue(IF row[c] = Null THEN Null
                        ELSE <<EncodeDatum(session["local"], Columns[c], row[c][1],
                                           Enc(options.json_normalize)[c])>>)]
  BY <1>1 DEF Frames, Encoded, Datum
<1> QED
  BY <1>2 DEF Message

\* Rows with the same message are the same: no value can pass for another, or
\* for the end of one and the beginning of the next.
LEMMA RowsApart ==
  ASSUME Typed, NEW t \in Tables, NEW u \in Tables, NEW i \in DOMAIN t, NEW k \in DOMAIN u,
         Message(session["local"], Enc(options.json_normalize), Columns, t[i])
           = Message(session["local"], Enc(options.json_normalize), Columns, u[k])
  PROVE  SameRow(t[i], u[k])
<1>1. PICK n \in Nat : n = Len(Columns) /\ DOMAIN Columns = 1..n
  BY TablesAssumption
<1>2. DOMAIN t[i] = DOMAIN Columns /\ DOMAIN u[k] = DOMAIN Columns
  BY TablesAssumption
<1>3. FlattenSeq(Frames(t[i])) = FlattenSeq(Frames(u[k]))
  BY <1>2, MessageOfFrames
<1>4. \A c \in 1..n : Encoded(t[i], c) \in Framable /\ Encoded(u[k], c) \in Framable
  BY <1>1, EncodedFramable
<1>5. /\ \A c \in 1..n : Frames(t[i])[c] = FrameValue(Encoded(t[i], c))
      /\ \A c \in 1..n : Frames(u[k])[c] = FrameValue(Encoded(u[k], c))
  BY <1>1 DEF Frames
<1>6. /\ Frames(t[i]) \in [1..n -> Seq(Nat)] /\ Len(Frames(t[i])) = n
      /\ Frames(u[k]) \in [1..n -> Seq(Nat)] /\ Len(Frames(u[k])) = n
  <2>1. ASSUME NEW row, \A c \in 1..n : Encoded(row, c) \in Framable
        PROVE  Frames(row) \in [1..n -> Seq(Nat)] /\ Len(Frames(row)) = n
    <3>1. Frames(row) = [c \in 1..n |-> FrameValue(Encoded(row, c))]
      BY <1>1 DEF Frames
    <3>2. \A c \in 1..n : FrameValue(Encoded(row, c)) \in Seq(Nat)
      BY <2>1, FrameType
    <3> QED
      BY <3>1, <3>2
  <2> QED
    BY <1>4, <2>1
<1>7. ASSUME NEW c \in 1..n, Agree(Frames(t[i])[c], Frames(u[k])[c])
      PROVE  Frames(t[i])[c] = Frames(u[k])[c] /\ Encoded(t[i], c) = Encoded(u[k], c)
  BY <1>4, <1>5, <1>7, FramesApart
<1>8. Frames(t[i]) = Frames(u[k])
  BY <1>3, <1>6, <1>7, FlattenUnique
<1>9. ASSUME NEW c \in DOMAIN Columns
      PROVE  IF t[i][c] = Null \/ u[k][c] = Null THEN t[i][c] = u[k][c]
             ELSE SameValue(session["local"], Columns[c], t[i][c][1], u[k][c][1])
  <2>1. Encoded(t[i], c) = Encoded(u[k], c)
    <3>1. Agree(Frames(t[i])[c], Frames(u[k])[c])
      BY <1>8 DEF Agree
    <3> QED
      BY <1>1, <1>7, <3>1
  <2>2. CASE t[i][c] = Null \/ u[k][c] = Null
    BY <2>1, <2>2 DEF Encoded, Null
  <2>3. CASE t[i][c] # Null /\ u[k][c] # Null
    <3>1. Datum(session["local"], Columns[c], t[i][c][1], options.json_normalize)
            = Datum(session["local"], Columns[c], u[k][c][1], options.json_normalize)
      BY <2>1, <2>3 DEF Encoded
    <3>2. t[i][c] \in Nullable(ValueOf(Columns[c])) /\ u[k][c] \in Nullable(ValueOf(Columns[c]))
      BY TablesAssumption
    <3>3. t[i][c][1] \in ValueOf(Columns[c]) /\ u[k][c][1] \in ValueOf(Columns[c])
      BY <2>3, <3>2, NullableShape
    <3>4. SameValue(session["local"], Columns[c], t[i][c][1], u[k][c][1])
      BY <3>1, <3>3, ValuesApart DEF Typed
    <3> QED
      BY <2>3, <3>4
  <2> QED
    BY <2>2, <2>3
<1> QED
  BY <1>9 DEF SameRow

------------------------------------------------------------------------------
(* The state that adds digests up one by one. *)

\* f holds the state after each of the first n digests of ds.
Adding(ds, n, f) ==
  f = [i \in 0..n |-> IF i = 0 THEN Default ELSE AddRowDigest(f[i - 1], ds[i])]

LEMMA AddingExists ==
  ASSUME NEW ds, NEW n \in Nat
  PROVE  \E f : Adding(ds, n, f)
<1> DEFINE T == {k \in Nat : \E f : Adding(ds, k, f)}
<1>1. 0 \in T
  <2> DEFINE f == [i \in 0..0 |-> Default]
  <2>1. \A i \in 0..0 : i = 0
    OBVIOUS
  <2>2. f = [i \in 0..0 |-> IF i = 0 THEN Default ELSE AddRowDigest(f[i - 1], ds[i])]
    BY <2>1, Zenon
  <2>3. Adding(ds, 0, f)
    BY <2>2 DEF Adding
  <2> HIDE DEF f
  <2> QED
    BY <2>3
<1>2. ASSUME NEW k \in Nat, k \in T
      PROVE  k + 1 \in T
  <2>1. PICK f : Adding(ds, k, f)
    BY <1>2
  <2> DEFINE g == [i \in 0..k + 1 |-> IF i = 0 THEN Default ELSE AddRowDigest(f[i - 1], ds[i])]
  <2>2. \A i \in 0..k : g[i] = f[i]
    <3>1. \A i \in 0..k : f[i] = IF i = 0 THEN Default ELSE AddRowDigest(f[i - 1], ds[i])
      BY <2>1 DEF Adding
    <3>2. \A i \in 0..k : g[i] = IF i = 0 THEN Default ELSE AddRowDigest(f[i - 1], ds[i])
      OBVIOUS
    <3> QED
      BY <3>1, <3>2
  <2>3. \A i \in 0..k + 1 : i # 0 => i - 1 \in 0..k
    OBVIOUS
  <2>4. \A i \in 0..k + 1 :
          (IF i = 0 THEN Default ELSE AddRowDigest(f[i - 1], ds[i]))
            = (IF i = 0 THEN Default ELSE AddRowDigest(g[i - 1], ds[i]))
    BY <2>2, <2>3
  <2>5. g = [i \in 0..k + 1 |-> IF i = 0 THEN Default ELSE AddRowDigest(g[i - 1], ds[i])]
    BY <2>4
  <2> HIDE DEF g
  <2>6. \E h : Adding(ds, k + 1, h)
    BY <2>5 DEF Adding
  <2>7. k + 1 \in Nat
    OBVIOUS
  <2> QED
    BY <2>6, <2>7, Zenon
<1> HIDE DEF T
<1>3. n \in T
  BY <1>1, <1>2, NatSetInduction
<1> QED
  BY <1>3 DEF T

LEMMA StateSteps ==
  ASSUME NEW ds, NEW n \in Nat, Len(ds) = n
  PROVE  \E f : Adding(ds, n, f) /\ StateOf(ds) = f[n]
<1> DEFINE F == CHOOSE f :
                  f = [i \in 0..Len(ds) |-> IF i = 0 THEN Default ELSE AddRowDigest(f[i - 1], ds[i])]
<1>1. \E f : f = [i \in 0..Len(ds) |-> IF i = 0 THEN Default ELSE AddRowDigest(f[i - 1], ds[i])]
  BY AddingExists DEF Adding
<1>2. F = [i \in 0..Len(ds) |-> IF i = 0 THEN Default ELSE AddRowDigest(F[i - 1], ds[i])]
  BY <1>1
<1>3. StateOf(ds) = F[Len(ds)]
  BY DEF StateOf
<1> HIDE DEF F
<1>4. Adding(ds, n, F)
  BY <1>2 DEF Adding
<1> QED
  BY <1>3, <1>4

\* Each lane of that state is what the digests add up to in it.
LEMMA StateLanes ==
  ASSUME NEW n \in Nat, NEW ds, Len(ds) = n, \A i \in 1..n : ds[i] \in Digest,
         NEW l \in Lane, NEW e, \A i \in 1..n : e[i] = Addend(ds[i], l),
         NEW sum, Adds(sum, e, 1..n)
  PROVE  StateOf(ds) \in LtHashCore /\ StateOf(ds)[l] = sum[1..n] % LaneSize
<1>1. PICK f : Adding(ds, n, f) /\ StateOf(ds) = f[n]
  BY StateSteps
<1> DEFINE T == {k \in Nat : k <= n => f[k] \in LtHashCore /\ f[k][l] = sum[1..k] % LaneSize}
<1>2. 0 \in T
  <2>1. f[0] = Default
    <3>1. 0 \in 0..n
      OBVIOUS
    <3> QED
      BY <1>1, <3>1 DEF Adding
  <2>2. 1..0 = {} /\ sum[{}] = 0
    BY DEF Adds
  <2>3. 0 % LaneSize = 0
    BY LaneSizeType
  <2>4. Default[l] = 0
    BY DEF Default
  <2> QED
    BY <2>1, <2>2, <2>3, <2>4, DefaultType
<1>3. ASSUME NEW k \in Nat, k \in T
      PROVE  k + 1 \in T
  <2> SUFFICES ASSUME k + 1 <= n
               PROVE  f[k + 1] \in LtHashCore /\ f[k + 1][l] = sum[1..k + 1] % LaneSize
    OBVIOUS
  <2>1. f[k] \in LtHashCore /\ f[k][l] = sum[1..k] % LaneSize
    BY <1>3
  <2>2. f[k + 1] = AddRowDigest(f[k], ds[k + 1])
    <3>1. k + 1 \in 0..n /\ k + 1 # 0 /\ (k + 1) - 1 = k
      OBVIOUS
    <3> QED
      BY <1>1, <3>1 DEF Adding
  <2>3. k + 1 \in 1..n /\ ds[k + 1] \in Digest
    OBVIOUS
  <2>4. /\ f[k + 1] \in LtHashCore
        /\ f[k + 1][l] = WrappingAdd(f[k][l], Addend(ds[k + 1], l))
    BY <2>1, <2>2, <2>3, AddRowDigestType
  <2>5. 1..k \in SUBSET (1..n) /\ k + 1 \in (1..n) \ (1..k) /\ 1..k + 1 = (1..k) \cup {k + 1}
    OBVIOUS
  <2>6. sum[1..k + 1] = sum[1..k] + e[k + 1] /\ sum[1..k] \in Int
    <3>1. PICK S, U, x : S = 1..n /\ U = 1..k /\ x = k + 1
      OBVIOUS
    <3>2. U \in SUBSET S /\ x \in S \ U /\ Adds(sum, e, S)
      BY <2>5, <3>1
    <3>3. sum[U \cup {x}] = sum[U] + e[x] /\ sum[U] \in Int
      BY <3>2 DEF Adds
    <3> QED
      BY <2>5, <3>1, <3>3
  <2>7. PICK a \in Int, b \in Int : a = sum[1..k] /\ b = Addend(ds[k + 1], l)
    BY <2>3, <2>6, AddendType
  <2>8. WrappingAdd(a % LaneSize, b) = (a + b) % LaneSize
    BY LaneSizeType, ReducedSum DEF WrappingAdd
  <2> QED
    BY <2>1, <2>3, <2>4, <2>6, <2>7, <2>8
<1> HIDE DEF T
<1>4. n \in T
  BY <1>2, <1>3, NatSetInduction
<1> QED
  BY <1>1, <1>4 DEF T

------------------------------------------------------------------------------
(* A match means the same rows. *)

LEMMA BytesApart ==
  ASSUME NEW c \in LtHashCore, NEW d \in LtHashCore, ToBytes(c) = ToBytes(d)
  PROVE  c = d
<1>1. \A l \in Lane : c[l] = d[l]
  BY BytesOfLane
<1> QED
  BY <1>1 DEF LtHashCore

\* The coordinator matches two answers only if they are one, and plans the
\* statement only if it knows the algorithm.
Matched ==
  /\ at # "over" => verdict = "none"
  /\ verdict = "match" => at = "over" /\ result["peer"] = result["local"]
  /\ at # "plan" /\ verdict # "error" => ParseAlgorithm(session["local"].hash_algorithm) # {}

LEMMA AlwaysMatched == Spec => []Matched
<1>1. Init => Matched
  BY DEF Init, Matched
<1>2. Typed /\ Matched /\ [Next]_vars => Matched'
  <2> SUFFICES ASSUME Typed, Matched, [Next]_vars
               PROVE  Matched'
    OBVIOUS
  <2>0. session'["local"] = session["local"]
    BY Kept
  <2>1. CASE PlanChunkSql
    BY <2>0, <2>1 DEF PlanChunkSql, Start, Matched
  <2>2. ASSUME NEW w \in Worker, Scan(w)
        PROVE  Matched'
    BY <2>0, <2>2 DEF Scan, Matched, Node
  <2>3. CASE Return
    <3>1. verdict' = verdict /\ at \in Node /\ at' # "over" /\ at' # "plan"
      BY <2>3 DEF Return, Start, Node
    <3> QED
      BY <2>0, <3>1 DEF Matched, Node
  <2>4. CASE Compare
    BY <2>0, <2>4 DEF Compare, Matched
  <2>5. CASE UNCHANGED vars
    BY <2>5 DEF vars, Matched
  <2> QED
    BY <2>1, <2>2, <2>3, <2>4, <2>5 DEF Next
<1> QED
  BY <1>1, <1>2, AlwaysTyped, PTL DEF Spec

\* The digests of n's rows, in the order the table holds them.
DigestsOfRows(n) == DigestsOf(session["local"], options.json_normalize, table[n])

LEMMA DigestsOfRowsAre ==
  ASSUME Typed, NEW n \in Node
  PROVE  /\ DOMAIN DigestsOfRows(n) = Rows(n)
         /\ Len(DigestsOfRows(n)) = Len(table[n])
         /\ \A i \in Rows(n) : DigestsOfRows(n)[i] = DigestOf(n, i)
<1>1. PICK k \in Nat : k = Len(table[n]) /\ Rows(n) = 1..k
  BY RowsFinite
<1>2. DigestsOfRows(n) = [i \in 1..k |-> DigestOf(n, i)]
  BY <1>1 DEF DigestsOfRows, DigestsOf, DigestOf, Rows
<1> QED
  BY <1>1, <1>2

\* What n answered is the state of its rows' digests.
LEMMA AnsweredState ==
  ASSUME Typed, NEW n \in Node, Answered(n)
  PROVE  \E core \in LtHashCore :
           /\ core = StateOf(DigestsOfRows(n))
           /\ result[n][1].lthash = ToBytes(core)
<1>1. PICK core \in LtHashCore :
        \E h :
          /\ result[n] = <<[n_rows |-> Len(table[n]), lthash |-> ToBytes(core), set_hash |-> h]>>
          /\ \A l \in Lane : \A sum : Adds(sum, Addends(n, l), Rows(n)) =>
               core[l] = sum[Rows(n)] % LaneSize
  BY DEF Answered
<1>2. result[n][1].lthash = ToBytes(core)
  BY <1>1
<1>3. PICK k \in Nat : k = Len(table[n]) /\ Rows(n) = 1..k
  BY RowsFinite
<1>4. PICK ds : ds = DigestsOfRows(n)
  OBVIOUS
<1>5. Len(ds) = k /\ \A i \in 1..k : ds[i] = DigestOf(n, i) /\ ds[i] \in Digest
  BY <1>3, <1>4, DigestsOfRowsAre DEF Answered
<1>6. ASSUME NEW l \in Lane
      PROVE  StateOf(ds) \in LtHashCore /\ StateOf(ds)[l] = core[l]
  <2>1. PICK e : e = Addends(n, l)
    OBVIOUS
  <2>2. e \in [1..k -> Int] /\ \A i \in 1..k : e[i] = Addend(ds[i], l)
    BY <1>3, <1>5, <2>1, AddendsType DEF Addends
  <2>3. IsFiniteSet(1..k)
    BY <1>3, RowsFinite
  <2>4. PICK sum : Adds(sum, e, 1..k)
    <3>1. PICK S : S = 1..k
      OBVIOUS
    <3>2. \E sum : Adds(sum, e, S)
      BY <2>2, <2>3, <3>1, SumExists
    <3> QED
      BY <3>1, <3>2
  <2>5. StateOf(ds) \in LtHashCore /\ StateOf(ds)[l] = sum[1..k] % LaneSize
    BY <1>5, <2>2, <2>4, StateLanes
  <2>6. core[l] = sum[1..k] % LaneSize
    BY <1>1, <1>3, <2>1, <2>4
  <2> QED
    BY <2>5, <2>6
<1>7. 1 \in Lane
  BY LanesAssumption DEF Lane
<1>8. StateOf(ds) \in LtHashCore
  BY <1>6, <1>7
<1>9. \A l \in Lane : StateOf(ds)[l] = core[l]
  BY <1>6
<1>10. StateOf(ds) = core
  BY <1>8, <1>9 DEF LtHashCore
<1> QED
  BY <1>2, <1>4, <1>10

\* Rows are the same if and only if their digests are.
LEMMA DigestsTellRows ==
  ASSUME Typed, NEW m \in Node, NEW k \in Rows(m), NEW n \in Node, NEW i \in Rows(n)
  PROVE  SameRow(table[m][k], table[n][i]) <=> DigestOf(n, i) = DigestOf(m, k)
<1>1. /\ table[m] \in Tables /\ table[n] \in Tables
      /\ options.json_normalize \in BOOLEAN
      /\ k \in DOMAIN table[m] /\ i \in DOMAIN table[n]
  BY DEF Typed, Rows
<1>2. DOMAIN table[m][k] = DOMAIN Columns /\ DOMAIN table[n][i] = DOMAIN Columns
  BY RowsFinite
<1>3. ASSUME SameRow(table[m][k], table[n][i])
      PROVE  DigestOf(n, i) = DigestOf(m, k)
  BY <1>1, <1>2, <1>3, SameRowMessage DEF DigestOf
<1>4. ASSUME DigestOf(n, i) = DigestOf(m, k)
      PROVE  SameRow(table[m][k], table[n][i])
  <2>1. Message(session["local"], Enc(options.json_normalize), Columns, table[m][k])
          = Message(session["local"], Enc(options.json_normalize), Columns, table[n][i])
    BY <1>4 DEF DigestOf, Finalize
  <2> QED
    BY <1>1, <2>1, RowsApart
<1> QED
  BY <1>3, <1>4

\* So a row has as many copies as its digest occurs.
LEMMA CopiesAreOccurrences ==
  ASSUME Typed, NEW m \in Node, NEW k \in Rows(m), NEW n \in Node
  PROVE  Copies(table[m][k], table[n]) = Occurrences(DigestOf(m, k), DigestsOfRows(n))
<1>1. {i \in DOMAIN table[n] : SameRow(table[m][k], table[n][i])}
        = {i \in DOMAIN DigestsOfRows(n) : DigestsOfRows(n)[i] = DigestOf(m, k)}
  <2>1. \A i \in Rows(n) :
          SameRow(table[m][k], table[n][i]) <=> DigestsOfRows(n)[i] = DigestOf(m, k)
    BY DigestsTellRows, DigestsOfRowsAre
  <2> QED
    BY <2>1, DigestsOfRowsAre DEF Rows
<1> QED
  BY <1>1 DEF Copies, Occurrences

\* No digest occurs as often as a lane has values if no row does.
LEMMA FewOccurrences ==
  ASSUME Typed, \A n \in Node : \A row \in RowsOfBoth : Copies(row, table[n]) < LaneSize,
         NEW n \in Node, NEW d
  PROVE  Occurrences(d, DigestsOfRows(n)) < LaneSize
<1>1. CASE \E k \in Rows(n) : DigestsOfRows(n)[k] = d
  <2>1. PICK k \in Rows(n) : DigestOf(n, k) = d
    BY <1>1, DigestsOfRowsAre
  <2>2. table[n][k] \in RowsOfBoth
    BY DEF RowsOfBoth, Rows
  <2>3. Copies(table[n][k], table[n]) < LaneSize
    BY <2>2
  <2> QED
    BY <2>1, <2>3, CopiesAreOccurrences
<1>2. CASE ~ \E k \in Rows(n) : DigestsOfRows(n)[k] = d
  <2>1. {i \in DOMAIN DigestsOfRows(n) : DigestsOfRows(n)[i] = d} = {}
    BY <1>2, DigestsOfRowsAre
  <2>2. Occurrences(d, DigestsOfRows(n)) = 0
    BY <2>1, FS_EmptySet DEF Occurrences
  <2> QED
    BY <2>2, LaneSizeType
<1> QED
  BY <1>1, <1>2

LEMMA EqualAnswers ==
  ASSUME Typed, \A n \in Node : Answered(n), result["peer"] = result["local"],
         ParseAlgorithm(session["local"].hash_algorithm) # {},
         \A n \in Node : \A row \in RowsOfBoth : Copies(row, table[n]) < LaneSize
  PROVE  SameTables
<1> DEFINE a == DigestsOfRows("local")
           b == DigestsOfRows("peer")
<1>1. StateOf(a) = StateOf(b)
  BY AnsweredState, BytesApart DEF Node
<1>2. \A d \in Digest : Occurrences(d, a) < LaneSize /\ Occurrences(d, b) < LaneSize
  BY FewOccurrences DEF Node
<1>3. /\ session["local"] \in Sessions /\ options.json_normalize \in BOOLEAN
      /\ table["local"] \in Tables /\ table["peer"] \in Tables
  BY DEF Typed, Node
<1>4. \A d \in Digest : Occurrences(d, a) = Occurrences(d, b)
  BY <1>1, <1>2, <1>3, CollisionFree DEF DigestsOfRows
<1> HIDE DEF a, b
<1>5. ASSUME NEW row \in RowsOfBoth
      PROVE  Copies(row, table["local"]) = Copies(row, table["peer"])
  <2>0. PICK m \in Node : \E k \in Rows(m) : row = table[m][k]
    BY DEF RowsOfBoth, Rows
  <2>1. PICK k \in Rows(m) : row = table[m][k]
    BY <2>0
  <2>2. DigestOf(m, k) \in Digest
    BY DEF Answered
  <2>3. /\ Copies(row, table["local"]) = Occurrences(DigestOf(m, k), a)
        /\ Copies(row, table["peer"]) = Occurrences(DigestOf(m, k), b)
    BY <2>1, CopiesAreOccurrences DEF Node, a, b
  <2> QED
    BY <1>4, <2>2, <2>3
<1> QED
  BY <1>5 DEF SameTables

\* A match means the same rows the same number of times, as long as no row
\* occurs so often that its sum wraps to zero in every lane (lthash.rs:37) and
\* no two tables collide in every lane.
THEOREM MatchMeansSameRows == Spec => []EqualMeansSame
<1>1. Typed /\ Progress /\ Matched => EqualMeansSame
  <2> SUFFICES ASSUME Typed, Progress, Matched, verdict = "match",
                      \A n \in Node : \A row \in RowsOfBoth : Copies(row, table[n]) < LaneSize
               PROVE  SameTables
    BY DEF EqualMeansSame
  <2>1. at = "over" /\ result["peer"] = result["local"]
    BY DEF Matched
  <2>2. \A n \in Node : Answered(n)
    BY <2>1 DEF Progress
  <2>3. ParseAlgorithm(session["local"].hash_algorithm) # {}
    BY <2>1 DEF Matched
  <2> QED
    BY <2>1, <2>2, <2>3, EqualAnswers
<1> QED
  BY <1>1, AlwaysTyped, AlwaysProgress, AlwaysMatched, PTL
==============================================================================
