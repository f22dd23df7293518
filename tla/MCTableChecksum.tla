---------------------------- MODULE MCTableChecksum ----------------------------
(***************************************************************************)
(* The TLC run of TableChecksum: a row and its near misses, the tables they*)
(* make, and an expansion that gives each digest a lane of its own.        *)
(***************************************************************************)
EXTENDS TableChecksum

MCColumns == <<"bytea", "bytea", "float8", "json", "float8[]">>

Json(document, layout) == <<[document |-> document, layout |-> layout]>>

Array(lower, elements) ==
  <<[dims |-> <<Len(elements)>>, lower_bounds |-> <<lower>>, elements |-> elements]>>

\* A row with a value in the first column only.
Base == << << <<1>> >>, Null, Null, Null, Null>>

Float(x) == [Base EXCEPT ![3] = <<x>>]

Elements(lower, elements) == [Base EXCEPT ![5] = Array(lower, elements)]

\* The byte in the other column, NULL and empty, +0 and -0, two NaNs, two
\* layouts of a document, bounds, elements and NULLs of arrays.
Variants == {
  Base,
  [Base EXCEPT ![1] = << <<>> >>, ![2] = << <<1>> >>],
  [Base EXCEPT ![2] = << <<>> >>],
  Float(0), Float(8), Float(7), Float(15),
  [Base EXCEPT ![4] = Json(1, 1)],
  [Base EXCEPT ![4] = Json(1, 2)],
  Elements(1, << <<0>> >>), Elements(0, << <<0>> >>), Elements(1, << <<8>> >>),
  Elements(1, <<Null>>)}

\* Four copies of a row wrap to zero when a lane holds 0..3.
MCTables == {<<row>> : row \in Variants} \cup {
  <<>>, <<Base, Float(0)>>, <<Float(8), Base>>,
  <<Base, Base, Base, Base>>, <<Float(0), Float(0), Float(0), Float(0)>>}

Setting(algorithm, zero, nan) ==
  [hash_algorithm |-> algorithm, float_signed_zero_distinct |-> zero,
   float_nan_distinct |-> nan]

MCSessions == {
  Setting("blake3_256", FALSE, FALSE), Setting("blake3_512", TRUE, TRUE),
  Setting("sha256", FALSE, FALSE)}

MCDigest ==
  UNION {RowDigests(Setting(s.hash_algorithm, zero, nan), Enc(j), MCColumns, row) :
           s \in MCSessions, zero, nan, j \in BOOLEAN, row \in Variants}

\* How many digests come before d.
Rank(d) ==
  Cardinality({e \in MCDigest : \/ e.bytes < d.bytes
                                \/ e.bytes = d.bytes /\ Precedes(e, d)})

MCLanes == 2 * ((Cardinality(MCDigest) + 1) \div 2)

MCExpand ==
  [d \in MCDigest |->
     LET first == 2 * Rank(d) + 1
     IN [i \in 1..2 * MCLanes |-> IF i = first THEN 1 ELSE 0]]
==============================================================================
