----------------------------- MODULE TableChecksum -----------------------------
(***************************************************************************)
(* The checksum statement the coordinator plans for a table and runs on    *)
(* itself and then on a peer, each in a session of its own: the statement  *)
(* sets the coordinator's settings, digests the rows in whatever order the *)
(* node reads them, in one or two partial aggregates, and the coordinator  *)
(* compares the two results.                                               *)
(***************************************************************************)
EXTENDS RowDigest, LtHash, FiniteSets, Functions

CONSTANTS
  Columns,    \* types of the columns, in name order
  Tables,     \* what a table may hold: sequences of rows, as they lie on disk
  Sessions    \* settings a session may start with

Node == {"local", "peer"}
Worker == {1, 2}

ColumnEncodingMode(type, json_normalize) ==
  CASE type = "json" -> IF json_normalize THEN EncodingMode.JsonbNormalize
                        ELSE EncodingMode.Text
    [] type = "numeric" -> EncodingMode.Text
    [] OTHER -> EncodingMode.Send

Enc(json_normalize) ==
  [i \in DOMAIN Columns |-> ColumnEncodingMode(Columns[i], json_normalize)]

\* What the validation is told of a value of each type.
Nullable(S) == {v \in Seq(S) : Len(v) <= 1}

ValueOf(type) ==
  CASE IsFloat(type) -> Nat
    [] IsFloatArray(type) ->
         {a \in [dims : Seq(Nat), lower_bounds : Seq(Nat), elements : Seq(Nullable(Nat))] :
            Len(a.dims) = Len(a.lower_bounds)}
    [] type = "json" -> [document : Nat, layout : Nat]
    [] OTHER -> Seq(Nat)

ASSUME TablesAssumption ==
  /\ Columns \in Seq(STRING)
  /\ \A t \in Tables : t \in Seq(Range(t))
  /\ \A t \in Tables : \A i \in DOMAIN t :
       /\ DOMAIN t[i] = DOMAIN Columns
       /\ \A c \in DOMAIN Columns : t[i][c] \in Nullable(ValueOf(Columns[c]))
  /\ Digest \subseteq [bytes : Nat, message : Seq(Nat)]
  /\ \A s \in Sessions, j \in BOOLEAN, t \in Tables : \A i \in DOMAIN t :
       RowDigests(s, Enc(j), Columns, t[i]) \subseteq Digest

\* PostgreSQL's limit of 1 GB on a value keeps the length of each under 2^32.
ASSUME LengthsAssumption ==
  \A s \in Sessions, j \in BOOLEAN, t \in Tables : \A i \in DOMAIN t, c \in DOMAIN Columns :
    t[i][c] # Null => Len(EncodeDatum(s, Columns[c], t[i][c][1], Enc(j)[c])) < LengthSize

VARIABLES
  table,        \* the rows of each node
  session,      \* settings in force in each node's session
  options,      \* the run's json_normalize and paranoid_confirm
  at,           \* the node whose statement runs, or a step of the coordinator
  left,         \* positions of the rows that node has not read
  partial,      \* the partial aggregate of each worker
  digests,      \* the row digests, in the order they were made, for set_hash
  result,       \* what each node answered
  verdict

vars == <<table, session, options, at, left, partial, digests, result, verdict>>

Init ==
  /\ table \in [Node -> Tables]
  /\ session \in [Node -> Sessions]
  /\ options \in [json_normalize : BOOLEAN, paranoid_confirm : BOOLEAN]
  /\ at = "plan"
  /\ left = {}
  /\ partial = [w \in Worker |-> InitialState]
  /\ digests = <<>>
  /\ result = [n \in Node |-> Null]
  /\ verdict = "none"

\* Mutant of SettingsCte: the algorithm stays what the session has.
SettingsCteWithoutAlgorithm(n) ==
  [session["local"] EXCEPT !.hash_algorithm = session[n].hash_algorithm]

\* The settings a generated statement gives the session it runs in.
SettingsCte(n) == session["local"]

\* The statement starts on n; its settings are a materialized CTE before the scan.
Start(n) ==
  /\ at' = n
  /\ session' = [session EXCEPT ![n] = SettingsCte(n)]
  /\ left' = DOMAIN table[n]
  /\ partial' = [w \in Worker |-> InitialState]
  /\ digests' = <<>>

PlanChunkSql ==
  /\ at = "plan"
  /\ \/ /\ ParseAlgorithm(session["local"].hash_algorithm) = {}
        /\ at' = "over"
        /\ verdict' = "error"
        /\ UNCHANGED <<session, left, partial, digests>>
     \/ /\ ParseAlgorithm(session["local"].hash_algorithm) # {}
        /\ Start("local")
        /\ UNCHANGED verdict
  /\ UNCHANGED <<table, options, result>>

\* Worker w reads some row, digests it and adds the digest to its aggregate.
Scan(w) ==
  /\ at \in Node
  /\ \E i \in left :
       \E digest \in RowDigests(session[at], Enc(options.json_normalize),
                                Columns, table[at][i]) :
         /\ left' = left \ {i}
         /\ partial' = [partial EXCEPT ![w] = AggregateState(@, digest)]
         /\ digests' = IF options.paranoid_confirm THEN Append(digests, digest)
                       ELSE digests
  /\ UNCHANGED <<table, session, options, at, result, verdict>>

\* Byte order of two digests.
Precedes(d, e) ==
  \E k \in 1..Len(e.message) :
    /\ k <= Len(d.message) + 1
    /\ \A i \in 1..k - 1 : d.message[i] = e.message[i]
    /\ k <= Len(d.message) => d.message[k] < e.message[k]

\* The digests of ds in byte order: equal ones are told apart by no order.
Sorted(ds) ==
  {[k \in DOMAIN ds |-> ds[order[k]]] :
     order \in {o \in Bijection(DOMAIN ds, DOMAIN ds) :
                \A i, j \in DOMAIN ds : i < j => ~Precedes(ds[o[j]], ds[o[i]])}}

\* The hash of the sorted digests; {} is an error.
HashDigestArray(name, ds) ==
  {Finalize(algorithm, sorted) : algorithm \in ParseAlgorithm(name), sorted \in Sorted(ds)}

\* The row the statement returns; after the coordinator's comes the peer's.
Return ==
  /\ at \in Node
  /\ left = {}
  /\ \E set_hash \in IF options.paranoid_confirm
                     THEN {<<h>> : h \in HashDigestArray(session[at].hash_algorithm, digests)}
                     ELSE {Null} :
       result' = [result EXCEPT ![at] =
         <<[n_rows |-> Len(table[at]),
            lthash |-> LthashBytes(AggregateCombine(partial[1], partial[2])),
            set_hash |-> set_hash]>>]
  /\ \/ at = "local" /\ Start("peer")
     \/ /\ at = "peer"
        /\ at' = "compare"
        /\ UNCHANGED <<session, left, partial, digests>>
  /\ UNCHANGED <<table, options, verdict>>

Compare ==
  /\ at = "compare"
  /\ at' = "over"
  /\ verdict' = IF result["peer"] = result["local"] THEN "match" ELSE "differ"
  /\ UNCHANGED <<table, session, options, left, partial, digests, result>>

Next == PlanChunkSql \/ (\E w \in Worker : Scan(w)) \/ Return \/ Compare

Spec == Init /\ [][Next]_vars

------------------------------------------------------------------------------

\* The lanes of every partial aggregate stay 16-bit (lthash.rs:37): a lane that
\* grew would lose its high bits in the text and bytes it is sent as.
TypeOK ==
  /\ at \in Node \cup {"plan", "compare", "over"}
  /\ verdict \in {"none", "match", "differ", "error"}
  /\ \A n \in Node : session[n].hash_algorithm \in {s.hash_algorithm : s \in Sessions}
  /\ \A w \in Worker : ToCore(partial[w]) \in LtHashCore

\* What two values the validation is to take as the same are.
SameFloat(s, x, y) ==
  \/ x = y
  \/ IsZero(x) /\ IsZero(y) /\ ~s.float_signed_zero_distinct
  \/ IsNaN(x) /\ IsNaN(y) /\ ~s.float_nan_distinct

SameArray(s, x, y) ==
  /\ x.dims = y.dims
  /\ x.lower_bounds = y.lower_bounds
  /\ Len(x.elements) = Len(y.elements)
  /\ \A i \in 1..Len(x.elements) :
       LET a == x.elements[i]
           b == y.elements[i]
       IN IF a = Null \/ b = Null THEN a = b ELSE SameFloat(s, a[1], b[1])

SameValue(s, type, x, y) ==
  CASE IsFloat(type) -> SameFloat(s, x, y)
    [] IsFloatArray(type) -> SameArray(s, x, y)
    [] type = "json" /\ options.json_normalize -> x.document = y.document
    [] OTHER -> x = y

SameRow(r, q) ==
  \A i \in DOMAIN Columns :
    IF r[i] = Null \/ q[i] = Null THEN r[i] = q[i]
    ELSE SameValue(session["local"], Columns[i], r[i][1], q[i][1])

Copies(row, t) == Cardinality({i \in DOMAIN t : SameRow(row, t[i])})

RowsOfBoth == UNION {{table[n][i] : i \in DOMAIN table[n]} : n \in Node}

SameTables ==
  \A row \in RowsOfBoth : Copies(row, table["local"]) = Copies(row, table["peer"])

\* Tables with the same rows match, whatever order and partial aggregates each
\* node reads them in and whatever its session was set to (040:389, lthash.rs:22).
SameTablesAgree == at = "over" /\ SameTables => verdict \in {"match", "error"}

\* The digests of table t's rows, and the state that adds them up one by one.
DigestsOf(s, json_normalize, t) ==
  [i \in DOMAIN t |-> Finalize(s.hash_algorithm, Message(s, Enc(json_normalize), Columns, t[i]))]

StateOf(ds) ==
  LET state[i \in 0..Len(ds)] ==
        IF i = 0 THEN Default ELSE AddRowDigest(state[i - 1], ds[i])
  IN state[Len(ds)]

Occurrences(d, ds) == Cardinality({i \in DOMAIN ds : ds[i] = d})

\* What BLAKE3's XOF and the lanes are trusted with: of tables that hold no digest
\* often enough for its sum to wrap to zero, two with one state hold the same.
ASSUME CollisionFree ==
  \A s \in Sessions, j \in BOOLEAN, t, u \in Tables :
    ParseAlgorithm(s.hash_algorithm) # {} =>
      LET a == DigestsOf(s, j, t)
          b == DigestsOf(s, j, u)
      IN /\ \A d \in Digest : Occurrences(d, a) < LaneSize /\ Occurrences(d, b) < LaneSize
         /\ StateOf(a) = StateOf(b)
         => \A d \in Digest : Occurrences(d, a) = Occurrences(d, b)

\* A match means the same rows the same number of times, as long as no row
\* occurs so often that its sum wraps to zero in every lane (lthash.rs:37).
EqualMeansSame ==
  /\ verdict = "match"
  /\ \A n \in Node : \A row \in RowsOfBoth : Copies(row, table[n]) < LaneSize
  => SameTables

\* An aggregate state sent as text (to a worker, or stored) and read back is the
\* state that was sent, with "\x" before it or not (lthash.rs:61-118).
TextKeepsState ==
  \A w \in Worker, prefix \in {"", "\\x"} :
    Input(Text(prefix, Output(partial[w]).digits)) = {partial[w]}
==============================================================================
