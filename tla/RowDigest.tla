------------------------------- MODULE RowDigest -------------------------------
(***************************************************************************)
(* row_digest: the canonical bytes of a row and their hash.  Bytes are     *)
(* numbers, and a fixed-width integer or float is one of them; BLAKE3 is   *)
(* taken as free of collisions, so a digest is its width and its message.  *)
(* A nullable value is <<>> or <<v>>.                                      *)
(***************************************************************************)
EXTENDS Integers, Sequences, SequencesExt

CONSTANT LengthSize    \* a length is a u32: 2^32

ASSUME LengthAssumption == LengthSize \in Nat \ {0}

Null == <<>>

IsFloat(type) == type \in {"float4", "float8"}

IsFloatArray(type) == type \in {"float4[]", "float8[]"}

------------------------------------------------------------------------------
(* hash_algorithm.  {} is an error. *)

OutputBytes == [blake3_256 |-> 32, blake3_512 |-> 64]

ParseAlgorithm(name) == {name} \cap DOMAIN OutputBytes

Finalize(algorithm, message) ==
  [bytes |-> OutputBytes[algorithm], message |-> message]

------------------------------------------------------------------------------
(* Floats: a sign bit over three bits, of which 6 is infinity and 7 a NaN. *)

IsNaN(x) == x % 8 = 7

IsZero(x) == x % 8 = 0

NormalizeWithPolicy(x, signed_zero_distinct, nan_distinct) ==
  CASE IsNaN(x) /\ ~nan_distinct -> 7
    [] IsZero(x) /\ ~signed_zero_distinct -> 0
    [] OTHER -> x

Normalize(s, x) ==
  NormalizeWithPolicy(x, s.float_signed_zero_distinct, s.float_nan_distinct)

------------------------------------------------------------------------------
(* Values. *)

EncodingMode == [Send |-> 1, Text |-> 2, JsonbNormalize |-> 3]

TryFrom(value) == {EncodingMode[m] : m \in DOMAIN EncodingMode} \cap {value}

\* A json value is a document in some layout; jsonb keeps the document.
EncodeText(type, v) ==
  CASE IsFloat(type) -> IF IsNaN(v) THEN <<7>> ELSE <<v>>
    [] type = "json" -> <<v.document, v.layout>>
    [] OTHER -> v

EncodeSend(type, v) == IF IsFloat(type) THEN <<v>> ELSE EncodeText(type, v)

EncodeJsonAsJsonb(v) == <<1, v.document>>

NormalizeFloatDatum(s, type, v) == IF IsFloat(type) THEN Normalize(s, v) ELSE v

EncodeElement(s, element) ==
  IF element = Null THEN <<0>> ELSE <<1, Normalize(s, element[1])>>

EncodeFloatArray(s, type, array) ==
  <<IF type = "float4[]" THEN 4 ELSE 8, Len(array.dims), Len(array.elements)>>
    \o array.dims \o array.lower_bounds
    \o FlattenSeq([i \in 1..Len(array.elements) |-> EncodeElement(s, array.elements[i])])

EncodeDatum(s, type, v, mode) ==
  LET datum == NormalizeFloatDatum(s, type, v) IN
  CASE mode = EncodingMode.Send /\ IsFloatArray(type) -> EncodeFloatArray(s, type, v)
    [] mode = EncodingMode.Send /\ ~IsFloatArray(type) -> EncodeSend(type, datum)
    [] mode = EncodingMode.Text -> EncodeText(type, datum)
    [] mode = EncodingMode.JsonbNormalize -> EncodeJsonAsJsonb(datum)

\* Mutant of FrameValue: values are not preceded by their length.
FrameUnsized(value) == IF value = Null THEN <<0>> ELSE <<1>> \o value[1]

FrameValue(value) ==
  IF value = Null THEN <<0>>
  ELSE <<1, Len(value[1]) % LengthSize>> \o value[1]

------------------------------------------------------------------------------

\* One mode for each value, known, and of the values only json goes as jsonb.
Accepts(enc, types, values) ==
  /\ Len(enc) = Len(values)
  /\ \A i \in DOMAIN enc :
       /\ TryFrom(enc[i]) # {}
       /\ enc[i] = EncodingMode.JsonbNormalize /\ values[i] # Null => types[i] = "json"

Message(s, enc, types, values) ==
  FlattenSeq([i \in DOMAIN values |->
    FrameValue(IF values[i] = Null THEN Null
               ELSE <<EncodeDatum(s, types[i], values[i][1], enc[i])>>)])

\* The digests a call may return: none when it raises.
RowDigests(s, enc, types, values) ==
  {Finalize(algorithm, Message(s, enc, types, values)) :
     algorithm \in IF Accepts(enc, types, values) THEN ParseAlgorithm(s.hash_algorithm)
                   ELSE {}}
==============================================================================
