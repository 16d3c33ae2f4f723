------------------------------- MODULE FieldCodec -------------------------------
(***************************************************************************)
(* internal/codec/row, as far as no type is in another: integers and their *)
(* bytes, the fields that are not collections, keys, and how a row is put  *)
(* together of its fields and taken apart, in the indexed layout (fixed    *)
(* widths, a table of lengths for the other fields) and in the compacted   *)
(* one (variable-length integers, no table).  Bytes are small, so that     *)
(* every width, sign and length matters at small values.                   *)
(*                                                                         *)
(* Kinds of fields stand for the types that are encoded alike: "int8" for  *)
(* those of one width in both layouts (booleans, int8, int16, floats),     *)
(* "int32" also for dates and times, "bytes" also for strings,             *)
(* "timestamp" for both kinds of timestamps.  A timestamp is a pair of     *)
(* milliseconds and nanoseconds, a decimal its unscaled value.  An integer *)
(* that its field cannot hold is of a wider Go type; Misfit stands for a   *)
(* value whose Go type, or scale, the field does not take at all.          *)
(***************************************************************************)
EXTENDS Integers, FiniteSets, Sequences, SequencesExt

CONSTANTS
  Bits,             \* bits of a byte
  W32, W64,         \* bytes of a 32-bit and of a 64-bit integer
  Null,             \* the value of a field that is null
  Misfit,           \* a value of a Go type that its field does not take
  Failed            \* what a decoder returns with an error

(* nil, and what is returned with an error, are no values. *)
ASSUME FieldCodecAssumption ==
  /\ Bits \in Nat \ {0, 1} /\ W32 \in Nat \ {0} /\ W64 \in Nat /\ W64 >= W32
  /\ Cardinality({Null, Failed, Misfit}) = 3
  /\ \A none \in {Null, Failed, Misfit} :
       /\ none \notin Int \cup Seq(Int) \cup Seq(Seq(Int) \cup {Null})
       /\ none \notin [value : Nat, size : Nat] \cup [bytes : Seq(Int), end : Nat]
       /\ none \notin [off : Nat] \cup [off : Nat, lengths : Seq(Nat)]

(* Go on with x unless it is an error. *)
Then(x, F(_)) == IF x = Failed THEN Failed ELSE F(x)

(* The items of a sequence, unless one of them is an error. *)
AllOrFailed(items) == IF \E i \in DOMAIN items : items[i] = Failed THEN Failed ELSE items

After(bytes, n) == SubSeq(bytes, n + 1, Len(bytes))
First(bytes, n) == SubSeq(bytes, 1, n)

-------------------------------------------------------------------------------
(* Integers *)

Power(b, n) ==
  LET power[k \in 0 .. n] == IF k = 0 THEN 1 ELSE b * power[k - 1] IN power[n]

Base == Power(2, Bits)
Half == Power(2, Bits - 1)

(* The digits of u, the least first. *)
Digit(u, b, i) == (u \div Power(b, i - 1)) % b

(* How many there are, none of zero. *)
DigitCount(u, b) ==
  CHOOSE n \in 0 .. u : u < Power(b, n) /\ (n = 0 \/ Power(b, n - 1) <= u)

(* The number of these digits, of each what is less than b. *)
Number(digits, b) ==
  LET upTo[i \in 0 .. Len(digits)] ==
        IF i = 0 THEN 0 ELSE upTo[i - 1] + (digits[i] % b) * Power(b, i - 1)
  IN upTo[Len(digits)]

(* Two's complement, the least byte first. *)
Fixed(v, width) == [i \in 1 .. width |-> Digit(v, Base, i)]

Unsigned(bytes) == Number(bytes, Base)

Wrap(v, width) ==
  LET range == Power(Base, width) IN ((v + range \div 2) % range) - range \div 2

Signed(bytes) == Wrap(Unsigned(bytes), Len(bytes))

(* Every byte but the last is large. *)
Uvarint(u) ==
  LET size == IF u = 0 THEN 1 ELSE DigitCount(u, Half) IN
  [i \in 1 .. size |-> Digit(u, Half, i) + (IF i < size THEN Half ELSE 0)]

(* Signed integers become unsigned ones of their width: no zigzag. *)
Varint(v, width) == Uvarint(v % Power(Base, width))

MaxVarintLen == (Bits * W64 + Bits - 2) \div (Bits - 1)

(* The integer that ends with the byte at size, the first that is small. *)
UvarintUpTo(bytes, size) ==
  LET value == Number(First(bytes, size), Half) IN
  IF size \in 1 .. MaxVarintLen /\ value < Power(Base, W64)
  THEN [value |-> value, size |-> size]
  ELSE Failed

ReadUvarint(bytes) == UvarintUpTo(bytes, SelectInSeq(bytes, LAMBDA b : b < Half))

ReadUint32(bytes) ==
  Then(ReadUvarint(bytes),
       LAMBDA read : [value |-> read.value % Power(Base, W32), size |-> read.size])

(* big.Int.Bytes: the magnitude, the greatest byte first. *)
Magnitude(v) ==
  LET m == IF v < 0 THEN -v ELSE v IN Reverse(Fixed(m, DigitCount(m, Base)))

SetBytes(bytes) == Unsigned(Reverse(bytes))

(* A length, and as many bytes after it. *)
Chunk(bytes, off) ==
  LET end == off + W32 + Unsigned(SubSeq(bytes, off + 1, off + W32)) IN
  IF off + W32 > Len(bytes) \/ end > Len(bytes) THEN Failed
  ELSE [bytes |-> SubSeq(bytes, off + W32 + 1, end), end |-> end]

-------------------------------------------------------------------------------
(* Types *)

Int8Type == [kind |-> "int8"]
Int32Type == [kind |-> "int32"]
Int64Type == [kind |-> "int64"]
BytesType == [kind |-> "bytes"]
DecimalType(precision) == [kind |-> "decimal", length |-> precision]
TimestampType(precision) == [kind |-> "timestamp", length |-> precision]

ShortDecimal(t) == t.kind = "decimal" /\ t.length <= 18
Coarse(t) == t.kind = "timestamp" /\ t.length <= 3

IsFixed(t) == t.kind \in {"int8", "int32", "int64"} \/ ShortDecimal(t) \/ Coarse(t)

FixedSize(t) == CASE t.kind = "int8" -> 1 [] t.kind = "int32" -> W32 [] OTHER -> W64

(* asInt8, asInt16 and asInt32 cut wider integers.  Rounding a float64 to  *)
(* a float32, and a short decimal with more than 18 digits, are left out.  *)
Narrowed(t, v) == IF t.kind \in {"int8", "int32"} THEN Wrap(v, FixedSize(t)) ELSE v

-------------------------------------------------------------------------------
(* Fields *)

(* Faulty variant: compacted bytes without their length. *)
EncodeBytesBare(raw, indexed) ==
  IF indexed THEN Fixed(Len(raw), W32) \o raw ELSE raw

EncodeBytes(raw, indexed) ==
  (IF indexed THEN Fixed(Len(raw), W32) ELSE Varint(Len(raw), W32)) \o raw

(* Decimals and timestamps are encoded the same in both layouts. *)
EncodeDecimal(t, v, indexed) ==
  IF ShortDecimal(t) THEN Fixed(v, W64) ELSE EncodeBytes(Magnitude(v), indexed)

EncodeTimestamp(t, v) ==
  Fixed(v[1], W64) \o (IF Coarse(t) THEN <<>> ELSE Fixed(v[2], W32))

EncodeField(t, v, indexed) ==
  CASE t.kind = "int8" -> Fixed(Narrowed(t, v), 1)
    [] t.kind \in {"int32", "int64"} ->
         IF indexed THEN Fixed(Narrowed(t, v), FixedSize(t))
         ELSE Varint(Narrowed(t, v), FixedSize(t))
    [] t.kind = "bytes" -> EncodeBytes(v, indexed)
    [] t.kind = "decimal" -> EncodeDecimal(t, v, indexed)
    [] t.kind = "timestamp" -> EncodeTimestamp(t, v)

DecodeBytes(bytes, indexed) ==
  IF indexed THEN IF Len(bytes) < W32 THEN Failed ELSE After(bytes, W32)
  ELSE Then(ReadUint32(bytes), LAMBDA r :
         IF r.size + r.value > Len(bytes) THEN Failed
         ELSE SubSeq(bytes, r.size + 1, r.size + r.value))

DecodeInteger(bytes, width, indexed) ==
  IF indexed THEN IF Len(bytes) < width THEN Failed ELSE Signed(First(bytes, width))
  ELSE Then(ReadUvarint(bytes), LAMBDA r : Wrap(r.value, width))

DecodeDecimal(t, bytes, indexed) ==
  IF ShortDecimal(t) THEN DecodeInteger(bytes, W64, indexed)
  ELSE Then(DecodeBytes(bytes, indexed), SetBytes)

DecodeTimestamp(t, bytes, indexed) ==
  IF Coarse(t) THEN Then(DecodeInteger(bytes, W64, indexed), LAMBDA ms : <<ms, 0>>)
  ELSE IF Len(bytes) < W64 + W32 THEN Failed
  ELSE <<Signed(First(bytes, W64)), Signed(SubSeq(bytes, W64 + 1, W64 + W32))>>

DecodeFieldValue(t, bytes, indexed) ==
  CASE t.kind = "int8" -> IF bytes = <<>> THEN Failed ELSE Signed(First(bytes, 1))
    [] t.kind \in {"int32", "int64"} -> DecodeInteger(bytes, FixedSize(t), indexed)
    [] t.kind = "bytes" -> DecodeBytes(bytes, indexed)
    [] t.kind = "decimal" -> DecodeDecimal(t, bytes, indexed)
    [] t.kind = "timestamp" -> DecodeTimestamp(t, bytes, indexed)

-------------------------------------------------------------------------------
(* Keys *)

EncodeDecimalCompact(t, v) ==
  IF ShortDecimal(t) THEN Varint(v, W64) ELSE EncodeBytes(Magnitude(v), FALSE)

EncodeCompactedTimestamp(t, v) ==
  Varint(v[1], W64) \o (IF Coarse(t) THEN <<>> ELSE Varint(v[2], W32))

(* A key is compacted throughout, its decimals and timestamps too. *)
EncodeKeyValue(t, v) ==
  CASE t.kind = "decimal" -> EncodeDecimalCompact(t, v)
    [] t.kind = "timestamp" -> EncodeCompactedTimestamp(t, v)
    [] OTHER -> EncodeField(t, v, FALSE)

CanBeKey(t, v) == v \notin {Null, Misfit} /\ t.kind \notin {"array", "map", "row"}

EncodeLookupKey(fields, values, columns) ==
  IF columns # <<>> /\ \A i \in DOMAIN columns : CanBeKey(fields[columns[i]], values[columns[i]])
  THEN FlattenSeq([i \in DOMAIN columns |->
                     EncodeKeyValue(fields[columns[i]], values[columns[i]])])
  ELSE Failed

-------------------------------------------------------------------------------
(* Rows of parts: of each field its bytes, or Null *)

NullBitsSize(n) == (n + Bits - 1) \div Bits

NullBits(parts) ==
  LET flag(i) == IF i \in DOMAIN parts /\ parts[i] = Null THEN 1 ELSE 0 IN
  [k \in 1 .. NullBitsSize(Len(parts)) |->
     Number([j \in 1 .. Bits |-> flag((k - 1) * Bits + j)], 2)]

IsNull(bytes, i) == Digit(bytes[(i - 1) \div Bits + 1], 2, ((i - 1) % Bits) + 1) = 1

(* The table of lengths of the indexed layout; a null field has no entry. *)
LengthTable(fields, parts) ==
  FlattenSeq([i \in DOMAIN parts |->
    IF parts[i] = Null \/ IsFixed(fields[i]) THEN <<>> ELSE Fixed(Len(parts[i]), W32)])

JoinRow(fields, parts, indexed) ==
  NullBits(parts)
    \o (IF indexed THEN LengthTable(fields, parts) ELSE <<>>)
    \o FlattenSeq([i \in DOMAIN parts |-> IF parts[i] = Null THEN <<>> ELSE parts[i]])

(* What a field takes of the bytes that are left, in the compacted layout. *)
CompactedSize(t, rest) ==
  CASE t.kind = "int8" -> 1
    [] t.kind \in {"int32", "int64"} \/ ShortDecimal(t) \/ Coarse(t) ->
         Then(ReadUvarint(rest), LAMBDA r : r.size)
    [] t.kind = "bytes" \/ (t.kind = "decimal" /\ ~ShortDecimal(t)) ->
         Then(ReadUint32(rest), LAMBDA r : r.size + r.value)
    [] t.kind = "timestamp" /\ ~Coarse(t) ->
         Then(ReadUvarint(rest), LAMBDA r :
           Then(ReadUvarint(After(rest, r.size)), LAMBDA nanos : r.size + nanos.size))
    [] OTHER -> Failed

(* Types that are decoded in the compacted layout as they are encoded. *)
Compactable(t) ==
  t.kind \in {"int8", "int32", "int64", "bytes"} \/ (t.kind = "decimal" /\ ~ShortDecimal(t))

(* Faulty variant: an entry is read for a null field as well. *)
LengthsOfAll(fields, bytes) ==
  LET ends[i \in 0 .. Len(fields)] ==
        IF i = 0 THEN NullBitsSize(Len(fields))
        ELSE ends[i - 1] + (IF IsFixed(fields[i]) THEN 0 ELSE W32)
  IN IF ends[Len(fields)] > Len(bytes) THEN Failed
     ELSE [off |-> ends[Len(fields)],
           lengths |-> [i \in DOMAIN fields |->
             IF IsFixed(fields[i]) THEN FixedSize(fields[i])
             ELSE Unsigned(SubSeq(bytes, ends[i - 1] + 1, ends[i]))]]

(* The lengths that the table has an entry for, and where it ends. *)
Lengths(fields, bytes) ==
  LET ends[i \in 0 .. Len(fields)] ==
        IF i = 0 THEN NullBitsSize(Len(fields))
        ELSE ends[i - 1] + (IF IsFixed(fields[i]) \/ IsNull(bytes, i) THEN 0 ELSE W32)
  IN IF ends[Len(fields)] > Len(bytes) THEN Failed
     ELSE [off |-> ends[Len(fields)],
           lengths |-> [i \in DOMAIN fields |->
             IF IsFixed(fields[i]) THEN FixedSize(fields[i])
             ELSE Unsigned(SubSeq(bytes, ends[i - 1] + 1, ends[i]))]]

(* Where a field ends that starts at off, as its entry in the table or its *)
(* own bytes say.                                                          *)
FieldEnd(fields, i, bytes, off, table, indexed) ==
  IF IsNull(bytes, i) THEN off
  ELSE Then(IF indexed THEN table.lengths[i] ELSE CompactedSize(fields[i], After(bytes, off)),
            LAMBDA size : IF off + size > Len(bytes) THEN Failed ELSE off + size)

(* Bytes left over are ignored. *)
SplitFields(fields, bytes, table, indexed) ==
  LET ends[i \in 0 .. Len(fields)] ==
        IF i = 0 THEN table.off
        ELSE Then(ends[i - 1], LAMBDA off : FieldEnd(fields, i, bytes, off, table, indexed))
  IN IF ends[Len(fields)] = Failed THEN Failed
     ELSE [i \in DOMAIN fields |->
             IF IsNull(bytes, i) THEN Null ELSE SubSeq(bytes, ends[i - 1] + 1, ends[i])]

SplitRow(fields, bytes, indexed) ==
  IF Len(bytes) < NullBitsSize(Len(fields)) THEN Failed
  ELSE Then(IF indexed THEN Lengths(fields, bytes) ELSE [off |-> NullBitsSize(Len(fields))],
            LAMBDA table : SplitFields(fields, bytes, table, indexed))
===============================================================================
