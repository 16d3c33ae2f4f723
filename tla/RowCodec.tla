-------------------------------- MODULE RowCodec --------------------------------
(***************************************************************************)
(* internal/codec/row: how a row becomes bytes, and bytes a row, whatever  *)
(* its fields hold.  Collections hold items of other types: arrays, maps   *)
(* (sequences of pairs, in the order Go happens to iterate over them) and  *)
(* rows.                                                                   *)
(***************************************************************************)
EXTENDS FieldCodec

-------------------------------------------------------------------------------
(* Types *)

ArrayType(t) == [kind |-> "array", element |-> t]
MapType(key, value) == [kind |-> "map", key |-> key, value |-> value]
RowType(fields) == [kind |-> "row", fields |-> fields]

(* The types of a collection's items: those of a map's entries alternate. *)
ItemType(t, i) ==
  IF t.kind = "array" THEN t.element ELSE IF i % 2 = 1 THEN t.key ELSE t.value

(* FieldType.Validate and Schema.Validate: of a schema that was described  *)
(* or built by the constructors above, whatever is wrong is a precision.   *)
RECURSIVE Valid(_)
Valid(t) ==
  CASE t.kind = "decimal" -> t.length > 0
    [] t.kind = "timestamp" -> t.length \in 0 .. 9
    [] t.kind = "array" -> Valid(t.element)
    [] t.kind = "map" -> Valid(t.key) /\ Valid(t.value)
    [] t.kind = "row" -> \A i \in DOMAIN t.fields : Valid(t.fields[i])
    [] OTHER -> TRUE

ValidSchema(fields) == \A i \in DOMAIN fields : Valid(fields[i])

(* asBool, asInt8 and so on give no error for the value or, of a           *)
(* collection, for what is in it.                                          *)
RECURSIVE Accepted(_, _)
Accepted(t, v) ==
  /\ v # Misfit
  /\ v # Null =>
       CASE t.kind = "array" -> \A i \in DOMAIN v : Accepted(t.element, v[i])
         [] t.kind = "map" ->
              \A i \in DOMAIN v : Accepted(t.key, v[i][1]) /\ Accepted(t.value, v[i][2])
         [] t.kind = "row" -> \A i \in DOMAIN v : Accepted(t.fields[i], v[i])
         [] OTHER -> TRUE

-------------------------------------------------------------------------------
(* Encoding *)

RECURSIVE EncodeValue(_, _, _), EncodeRow(_, _, _)

(* An item of a collection: a byte that tells whether it is null. *)
EncodeGeneric(t, v) == IF v = Null THEN <<1>> ELSE <<0>> \o EncodeValue(t, v, TRUE)

EncodeItems(t, count, items) ==
  Fixed(count, W32) \o
  FlattenSeq([i \in DOMAIN items |->
    LET item == EncodeGeneric(ItemType(t, i), items[i]) IN Fixed(Len(item), W32) \o item])

EncodeValue(t, v, indexed) ==
  CASE t.kind = "array" -> EncodeItems(t, Len(v), v)
    [] t.kind = "map" -> EncodeItems(t, Len(v), FlattenSeq(v))
    [] t.kind = "row" -> EncodeRow(t.fields, v, indexed)
    [] OTHER -> EncodeField(t, v, indexed)

(* The rows in a row are of valid types if it is. *)
EncodeRow(fields, values, indexed) ==
  LET part(i) == IF values[i] = Null THEN Null ELSE EncodeValue(fields[i], values[i], indexed)
      accepted == \A i \in DOMAIN fields : Accepted(fields[i], values[i])
  IN IF ~ValidSchema(fields) \/ ~accepted THEN Failed
     ELSE JoinRow(fields, [i \in DOMAIN fields |-> part(i)], indexed)

-------------------------------------------------------------------------------
(* Decoding *)

RECURSIVE DecodeValue(_, _, _), DecodeRow(_, _, _)

DecodeGeneric(t, bytes) ==
  CASE bytes = <<>> -> Failed
    [] bytes # <<>> /\ bytes[1] = 1 -> Null
    [] OTHER -> DecodeValue(t, Tail(bytes), TRUE)

(* The next of a collection's items, after those in acc. *)
DecodeItem(t, bytes, acc, i) ==
  Then(Chunk(bytes, acc.off), LAMBDA c :
    Then(DecodeGeneric(ItemType(t, i), c.bytes), LAMBDA item :
      [off |-> c.end, items |-> Append(acc.items, item)]))

DecodeItems(t, bytes, perEntry) ==
  IF Len(bytes) < W32 THEN Failed
  ELSE Then(FoldLeft(LAMBDA acc, i : Then(acc, LAMBDA a : DecodeItem(t, bytes, a, i)),
                     [off |-> W32, items |-> <<>>],
                     [i \in 1 .. perEntry * Unsigned(First(bytes, W32)) |-> i]),
            LAMBDA all : all.items)

Entries(items) ==
  [i \in 1 .. Len(items) \div 2 |-> <<items[2 * i - 1], items[2 * i]>>]

DecodeValue(t, bytes, indexed) ==
  CASE t.kind = "array" -> DecodeItems(t, bytes, 1)
    [] t.kind = "map" -> Then(DecodeItems(t, bytes, 2), Entries)
    [] t.kind = "row" -> DecodeRow(t.fields, bytes, indexed)
    [] OTHER -> DecodeFieldValue(t, bytes, indexed)

DecodeRow(fields, bytes, indexed) ==
  IF ~ValidSchema(fields) THEN Failed
  ELSE Then(SplitRow(fields, bytes, indexed), LAMBDA parts :
         AllOrFailed([i \in DOMAIN fields |->
           IF parts[i] = Null THEN Null ELSE DecodeValue(fields[i], parts[i], indexed)]))
===============================================================================
