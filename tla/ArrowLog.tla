-------------------------------- MODULE ArrowLog --------------------------------
(***************************************************************************)
(* internal/codec/arrow: rows as log batches of the Arrow format.  What    *)
(* the Arrow library serializes, a record batch, is its cells, column by   *)
(* column; a cell stands for its bytes.  The header is cut down to its     *)
(* length field, the magic byte, the checksum, the attributes and the      *)
(* count of records.  A checksum tells all contents apart.                 *)
(*                                                                         *)
(* The readers are given a schema of as many columns as were written.      *)
(***************************************************************************)
EXTENDS RowCodec, ArrowTimestamps

-------------------------------------------------------------------------------
(* Arrow's types of columns *)

RECURSIVE DataTypeFromFieldType(_)
DataTypeFromFieldType(t) ==
  CASE t.kind = "timestamp" -> TimestampTypeForPrecision(t.length)
    [] t.kind = "decimal" -> [is |-> "decimal128", precision |-> t.length]
    [] t.kind = "array" -> [is |-> "list", of |-> <<DataTypeFromFieldType(t.element)>>]
    [] t.kind = "map" ->
         [is |-> "map", of |-> <<DataTypeFromFieldType(t.key), DataTypeFromFieldType(t.value)>>]
    [] t.kind = "row" ->
         [is |-> "struct",
          of |-> [i \in DOMAIN t.fields |-> DataTypeFromFieldType(t.fields[i])]]
    [] OTHER -> [is |-> t.kind]

SchemaFromRowSchema(fields) ==
  IF ValidSchema(fields)
  THEN [i \in DOMAIN fields |-> DataTypeFromFieldType(fields[i])] ELSE Failed

(* What a cell of a column is to others that read it, a timestamp a pair   *)
(* that is the same instant.                                               *)
ArrowValue(type, cell) ==
  IF type.is = "timestamp" /\ cell # Null THEN <<0, cell * type.unit>> ELSE cell

-------------------------------------------------------------------------------
(* Record batches *)

RECURSIVE Digits(_)
Digits(magnitude) == IF magnitude < 10 THEN 1 ELSE 1 + Digits(magnitude \div 10)

(* This package's own asBool, asInt8 and so on: no other Go type than the  *)
(* field's, however small the value, and no more digits than its precision.*)
(* Precisions above 38, whose decimals may not fit into the 128 bits of    *)
(* decimal128, which panics, are left out.                                 *)
AcceptedByArrow(t, v) ==
  /\ v # Misfit
  /\ v = Narrowed(t, v)
  /\ t.kind = "decimal" => Digits(IF v < 0 THEN -v ELSE v) <= t.length

(* Columns of collections exist, but nothing other than null can be put in. *)
AppendValue(t, v) ==
  CASE v = Null -> Null
    [] v # Null /\ t.kind \in {"array", "map", "row"} -> Failed
    [] v # Null /\ t.kind = "timestamp" /\ v # Misfit -> TimestampValueForField(t, v)
    [] OTHER -> IF AcceptedByArrow(t, v) THEN v ELSE Failed

ExtractValue(t, cell) ==
  IF t.kind = "timestamp" /\ cell # Null THEN TimestampParts(t, cell) ELSE cell

(* The columns, unless a value cannot be appended. *)
EncodeRecordBatch(fields, rows) ==
  LET cell(c, r) == AppendValue(fields[c], rows[r][c]) IN
  IF \/ SchemaFromRowSchema(fields) = Failed
     \/ \E c \in DOMAIN fields, r \in DOMAIN rows : cell(c, r) = Failed
  THEN Failed
  ELSE [c \in DOMAIN fields |-> [r \in DOMAIN rows |-> cell(c, r)]]

DecodeRecordBatch(fields, message) ==
  LET count == Len(message) \div Len(fields) IN
  [r \in 1 .. count |->
     [c \in DOMAIN fields |-> ExtractValue(fields[c], message[(c - 1) * count + r])]]

-------------------------------------------------------------------------------
(* Log batches *)

ArrowHeaderSize == 2 * W32 + 3

(* What the checksum is of.  A batch that does not only append tells of    *)
(* each record how it changed the table.                                   *)
ArrowRecords(columns, appendOnly) ==
  LET count == Len(columns[1]) IN
  <<IF appendOnly THEN 1 ELSE 0>> \o Fixed(count, W32)
    \o (IF appendOnly THEN <<>> ELSE [r \in 1 .. count |-> 0])
    \o FlattenSeq(columns)

EncodeArrowBatch(records, checksum) ==
  Fixed(2 + Len(records), W32) \o <<0, checksum>> \o records

(* The first batch of a payload: the bytes of its record batch, or Failed. *)
DecodeArrowBatch(bytes, validateCRC) ==
  LET size == W32 + Unsigned(First(bytes, W32))
      records == SubSeq(bytes, W32 + 3, size)
      changeTypes == IF records[1] = 1 THEN 0 ELSE Unsigned(SubSeq(records, 2, W32 + 1))
  IN IF Len(bytes) < ArrowHeaderSize THEN Failed
     ELSE IF bytes[W32 + 1] # 0 \/ size > Len(bytes) THEN Failed
     ELSE IF validateCRC /\ bytes[W32 + 2] # records THEN Failed
     ELSE IF Len(records) < 1 + W32 + changeTypes THEN Failed
     ELSE [size |-> size, message |-> After(records, 1 + W32 + changeTypes)]

RECURSIVE DecodeArrowBatches(_, _, _)
DecodeArrowBatches(fields, bytes, validateCRC) ==
  IF bytes = <<>> THEN <<>>
  ELSE Then(DecodeArrowBatch(bytes, validateCRC), LAMBDA batch :
         Then(DecodeArrowBatches(fields, After(bytes, batch.size), validateCRC), LAMBDA rest :
           DecodeRecordBatch(fields, batch.message) \o rest))

DecodeArrowRows(fields, bytes, validateCRC) ==
  IF ValidSchema(fields) THEN DecodeArrowBatches(fields, bytes, validateCRC) ELSE Failed
===============================================================================
