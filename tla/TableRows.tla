------------------------------- MODULE TableRows -------------------------------
(***************************************************************************)
(* The way of rows to a table and back: encoded into log batches           *)
(* (AppendIndexedRow, AppendArrowRows) or into batches of a key and a row  *)
(* (UpsertRow), kept by a tablet server under the bytes of their key, and  *)
(* read: in a batch that a fetch or a scan returns, which may be cut short *)
(* or, of an Arrow log, reduced to some columns; by their keys             *)
(* (LookupRows); or from a snapshot, as of the types that the coordinator  *)
(* describes the columns with.                                             *)
(***************************************************************************)
EXTENDS ArrowLog, LogBatches, SchemaDescriptor

CONSTANT Inputs     \* the schemas, key columns and rows of an instance

VARIABLES
  input,            \* the schema's fields and their names, the positions of
                    \* its key, and the changes made: rows written or deleted
  layout,           \* "log", "arrow", "indexed" or "compacted"
  together,         \* the rows are given to one call, or put into one batch
  compression,      \* what the table says of its batches, "" if nothing
  step,             \* "write", "fetch", "read", and "done", or "found" by a
                    \* lookup, or "refused"
  batches,          \* the batches of a log, each the rows' bytes or, of an
                    \* Arrow log, columns; of a table one, the records it keeps
  columns,          \* the columns that are read
  payload,          \* the bytes returned
  cut,              \* TRUE iff the payload was cut short
  result            \* the rows decoded, or Failed

inputVars == <<input, layout, together, compression>>
vars == <<inputVars, step, batches, columns, payload, cut, result>>

Init ==
  /\ input \in Inputs
  /\ layout \in {"indexed", "compacted"}
               \cup (IF \E i \in DOMAIN input.changes : input.changes[i].delete
                     THEN {} ELSE {"log", "arrow"})
  /\ together \in IF layout \in {"log", "arrow"} THEN BOOLEAN ELSE {FALSE}
  /\ compression \in IF layout = "arrow" THEN {"", "LZ4_FRAME", "GZIP"} ELSE {""}
  /\ input.changes = <<>> => layout = "arrow" /\ together
  /\ step = "write"
  /\ batches = <<>> /\ columns = [i \in DOMAIN input.fields |-> i]
  /\ payload = <<>> /\ cut = FALSE /\ result = Null

-------------------------------------------------------------------------------
(* The table's description *)

(* What the coordinator answers: of the properties two matter here, and    *)
(* tables need not have them.                                              *)
TableDescriptor ==
  LET format == "table.kv.format"
      compressed == "table.log.arrow.compression.type" IN
  [columns |-> input.names,
   primaryKey |-> [k \in DOMAIN input.keys |-> input.names[input.keys[k]]],
   properties |-> [p \in {f \in {format} : layout = "compacted"}
                          \cup {c \in {compressed} : compression # ""}
                     |-> IF p = format THEN layout ELSE compression]]

ParseTableProperties(descriptor) == descriptor.properties

(* kvEncoding.  Rows that are not compacted are indexed. *)
Indexed ==
  LET properties == ParseTableProperties(TableDescriptor) IN
  ~("table.kv.format" \in DOMAIN properties /\ properties["table.kv.format"] = "compacted")

KeyColumnsByName(columnNames, names) ==
  AllOrFailed([k \in DOMAIN names |->
    LET i == SelectInSeq(columnNames, LAMBDA column : column = names[k]) IN
    IF i = 0 THEN Failed ELSE i])

KeyColumns == KeyColumnsByName(TableDescriptor.columns, TableDescriptor.primaryKey)

-------------------------------------------------------------------------------
(* The rows of a log *)

(* Always decoded as indexed. *)
DecodeLogRecords(fields, records) ==
  AllOrFailed([r \in DOMAIN records |-> DecodeRow(fields, records[r], TRUE)])

DecodeLogRecordBatchRows(fields, bytes) ==
  Then(SplitLogBatches(bytes), LAMBDA split :
    Then(AllOrFailed([i \in DOMAIN split |-> DecodeLogRecords(fields, split[i])]), FlattenSeq))

-------------------------------------------------------------------------------
(* Records of a key and a row *)

(* UpsertRow and DeleteRow, called once for each change: of a schema that  *)
(* is not valid, or without a key, the call fails and nothing is sent.  A  *)
(* delete carries the key alone.                                           *)
EncodeKvRecord(change) ==
  LET row == IF change.delete THEN <<>> ELSE EncodeRow(input.fields, change.row, Indexed)
      columnsOfKey == IF KeyColumns = <<>> THEN <<1>> ELSE KeyColumns
      record(key) == Uvarint(Len(key)) \o key \o row
  IN IF ~ValidSchema(input.fields) THEN Failed
     ELSE Then(row, LAMBDA r :
            Then(EncodeLookupKey(input.fields, change.row, columnsOfKey), LAMBDA key :
              Fixed(Len(record(key)), W32) \o record(key)))

EncodeKvBatch(record) ==
  Fixed(2 + Len(record), W32) \o <<0>> \o Checksum(record) \o record

(* The server's view of a batch. *)
KvRecord(batch) ==
  LET record == After(batch, HeaderSize + W32)
      keyLength == ReadUvarint(record)
      row == After(record, keyLength.size + keyLength.value)
  IN [key |-> SubSeq(record, keyLength.size + 1, keyLength.size + keyLength.value),
      row |-> row, delete |-> row = <<>>]

(* What a table keeps of puts and deletes: the last put of each key, unless *)
(* a delete came later.                                                    *)
Kept(changes) ==
  LET last(i) == \A j \in DOMAIN changes : j > i => changes[j].key # changes[i].key
      kept(i) == last(i) /\ ~changes[i].delete
  IN FlattenSeq([i \in DOMAIN changes |-> IF kept(i) THEN <<changes[i]>> ELSE <<>>])

-------------------------------------------------------------------------------
(* Values: rows after the ID of their schema *)

SchemaID == <<1, 0>>

(* Of a value too short for the ID, the batch's decoder panics (row.go:162) *)
(* where that of a lookup returns an error; neither is ever sent.          *)
DecodeValuePayload(fields, value) ==
  IF Len(value) < Len(SchemaID) THEN Failed
  ELSE DecodeRow(fields, After(value, Len(SchemaID)), Indexed)

ValueBatch(records) ==
  LET values == FlattenSeq([i \in DOMAIN records |->
                  Fixed(2 + Len(records[i].row), W32) \o SchemaID \o records[i].row])
  IN Fixed(1 + W32 + Len(values), W32) \o <<0>> \o Fixed(Len(records), W32) \o values

(* Decodes n values, and nothing else. *)
RECURSIVE DecodeValues(_, _, _)
DecodeValues(fields, bytes, n) ==
  IF n = 0 THEN IF bytes = <<>> THEN <<>> ELSE Failed
  ELSE Then(Chunk(bytes, 0), LAMBDA value :
         Then(DecodeValuePayload(fields, value.bytes), LAMBDA row :
           Then(DecodeValues(fields, After(bytes, value.end), n - 1), LAMBDA rest :
             <<row>> \o rest)))

DecodeValueRecordBatchRows(fields, bytes) ==
  LET limit == W32 + Unsigned(First(bytes, W32))
      count == Unsigned(SubSeq(bytes, W32 + 2, 2 * W32 + 1))
  IN IF ~ValidSchema(fields) \/ Len(bytes) < 2 * W32 + 1 THEN Failed
     ELSE IF limit \notin 2 * W32 + 1 .. Len(bytes) \/ bytes[W32 + 1] # 0 THEN Failed
     ELSE DecodeValues(fields, SubSeq(bytes, 2 * W32 + 2, limit), count)

-------------------------------------------------------------------------------
(* The table *)

Rows == [i \in DOMAIN input.changes |-> input.changes[i].row]

(* The rows of each call. *)
Calls == IF together THEN <<Rows>> ELSE [i \in DOMAIN Rows |-> <<Rows[i]>>]

(* AppendIndexedRow makes a batch of each row; other clients may put       *)
(* several into one.                                                       *)
AppendRows ==
  /\ step = "write" /\ layout = "log"
  /\ LET rows(i) == AllOrFailed([r \in DOMAIN Calls[i] |->
                                   EncodeRow(input.fields, Calls[i][r], TRUE)])
     IN batches' = SelectSeq([i \in DOMAIN Calls |-> rows(i)], LAMBDA batch : batch # Failed)
  /\ step' = "fetch"
  /\ UNCHANGED <<inputVars, columns, payload, cut, result>>

(* How a batch is compressed does not matter here, but the table may say   *)
(* what is not supported.                                                  *)
Compressible ==
  LET properties == ParseTableProperties(TableDescriptor)
      compressed == "table.log.arrow.compression.type" IN
  compressed \in DOMAIN properties
    => properties[compressed] \in {"", "ZSTD", "LZ4_FRAME", "NONE"}

ArrowBatches == [i \in DOMAIN Calls |-> EncodeRecordBatch(input.fields, Calls[i])]

(* AppendArrowRows makes a batch of a call's rows, all or none. *)
AppendArrowRows ==
  /\ step = "write" /\ layout = "arrow"
  /\ Rows # <<>> /\ Compressible
  /\ batches' = SelectSeq(ArrowBatches, LAMBDA batch : batch # Failed)
  /\ step' = "fetch"
  /\ UNCHANGED <<inputVars, columns, payload, cut, result>>

AppendArrowRefused ==
  /\ step = "write" /\ layout = "arrow"
  /\ Rows = <<>> \/ ~Compressible
  /\ step' = "refused"
  /\ UNCHANGED <<inputVars, batches, columns, payload, cut, result>>

Upsert ==
  /\ step = "write" /\ layout \in {"indexed", "compacted"}
  /\ LET records == [i \in DOMAIN input.changes |-> EncodeKvRecord(input.changes[i])]
         sent == SelectSeq(records, LAMBDA record : record # Failed)
     IN batches' = <<Kept([i \in DOMAIN sent |-> KvRecord(EncodeKvBatch(sent[i]))])>>
  /\ step' = "fetch"
  /\ UNCHANGED <<inputVars, columns, payload, cut, result>>

Fetch ==
  /\ step = "fetch" /\ layout # "arrow"
  /\ payload' = IF layout = "log"
                THEN FlattenSeq([i \in DOMAIN batches |-> EncodeLogBatch(batches[i])])
                ELSE ValueBatch(batches[1])
  /\ step' = "read"
  /\ UNCHANGED <<inputVars, batches, columns, cut, result>>

(* A server puts change types into what it serves of a table's changes,    *)
(* and leaves out columns without computing the checksum again.            *)
FetchArrow ==
  /\ step = "fetch" /\ layout = "arrow"
  /\ \E appendOnly \in BOOLEAN, kept \in SUBSET DOMAIN input.fields \ {{}} :
       LET batch(i) ==
             EncodeArrowBatch(
               ArrowRecords([c \in DOMAIN columns' |-> batches[i][columns'[c]]], appendOnly),
               ArrowRecords(batches[i], appendOnly))
       IN /\ columns' = SelectSeq(columns, LAMBDA c : c \in kept)
          /\ payload' = FlattenSeq([i \in DOMAIN batches |-> batch(i)])
  /\ step' = "read"
  /\ UNCHANGED <<inputVars, batches, cut, result>>

CutShort ==
  /\ step = "read" /\ ~cut
  /\ \E n \in 0 .. Len(payload) - 1 : payload' = First(payload, n)
  /\ cut' = TRUE
  /\ UNCHANGED <<inputVars, step, batches, columns, result>>

Returned(rows, how) ==
  /\ result' = rows /\ step' = how
  /\ UNCHANGED <<inputVars, batches, columns, payload, cut>>

ReadLog ==
  /\ step = "read" /\ layout = "log"
  /\ Returned(DecodeLogRecordBatchRows(input.fields, payload), "done")

(* What a projection left of a batch is not checked. *)
ReadArrow ==
  /\ step = "read" /\ layout = "arrow"
  /\ LET fields == [c \in DOMAIN columns |-> input.fields[columns[c]]] IN
     Returned(DecodeArrowRows(fields, payload, Len(columns) = Len(input.fields)), "done")

ReadValues ==
  /\ step = "read" /\ layout \in {"indexed", "compacted"}
  /\ Returned(DecodeValueRecordBatchRows(input.fields, payload), "done")

(* Of each key the value, or Null. *)
LookupRows ==
  /\ step = "fetch" /\ layout \in {"indexed", "compacted"}
  /\ LET key(i) == EncodeLookupKey(input.fields, Rows[i], KeyColumns)
         found(i) == SelectSeq(batches[1], LAMBDA record : record.key = key(i))
         row(i) == IF key(i) = Failed THEN Failed
                   ELSE IF found(i) = <<>> THEN Null
                   ELSE DecodeValuePayload(input.fields, SchemaID \o found(i)[1].row)
     IN Returned(AllOrFailed([i \in DOMAIN Rows |-> row(i)]), "found")

(* Rows of a schema that is not the one that is cached. *)
ReadSnapshot ==
  /\ step = "fetch" /\ layout \in {"indexed", "compacted"}
  /\ \E how \in {"text", "object", "mixed"} :
       LET fields == ParseSchema([i \in DOMAIN input.fields |-> Described(input.fields[i], how)])
           value(i) == SchemaID \o batches[1][i].row
       IN Returned(
            Then(fields, LAMBDA types : AllOrFailed(
                   [i \in DOMAIN batches[1] |-> DecodeValuePayload(types, value(i))])),
            "done")

(* Others, that read an Arrow log's columns as of Arrow's types for them.  *)
ReadElsewhere ==
  /\ step = "fetch" /\ layout = "arrow" /\ batches # <<>>
  /\ LET types == SchemaFromRowSchema(input.fields)
         rows(i) == [r \in DOMAIN batches[i][1] |->
                       [c \in DOMAIN columns |-> ArrowValue(types[c], batches[i][c][r])]]
     IN Returned(FlattenSeq([i \in DOMAIN batches |-> rows(i)]), "done")

Next ==
  \/ AppendRows \/ AppendArrowRows \/ AppendArrowRefused \/ Upsert
  \/ Fetch \/ FetchArrow \/ CutShort
  \/ ReadLog \/ ReadArrow \/ ReadValues \/ LookupRows \/ ReadSnapshot
  \/ ReadElsewhere

Spec == Init /\ [][Next]_vars

-------------------------------------------------------------------------------
(* Safety *)

(* What a table of values, not of bytes, keeps of the changes. *)
KeyOf(row) == [i \in DOMAIN input.keys |-> row[input.keys[i]]]

HasKey(row) ==
  \A i \in DOMAIN input.keys : CanBeKey(input.fields[input.keys[i]], row[input.keys[i]])

(* Nothing of a schema that is not valid is written or deleted. *)
Writable == ValidSchema(input.fields)

(* Rows with values that their fields do not take are refused, and with    *)
(* them the others of their call; in an Arrow log also those of            *)
(* collections.                                                            *)
Appendable(rows) ==
  \A r \in DOMAIN rows, c \in DOMAIN input.fields :
     LET t == input.fields[c]  v == rows[r][c] IN
     IF layout = "arrow"
     THEN v # Null => t.kind \notin {"array", "map", "row"} /\ AcceptedByArrow(t, v)
     ELSE Accepted(t, v)

(* Integers that are too wide are cut, in keys as in rows. *)
Cut(row) ==
  [i \in DOMAIN row |-> IF row[i] \in {Null, Misfit} THEN row[i]
                         ELSE Narrowed(input.fields[i], row[i])]

Expected ==
  LET keyed == SelectSeq(input.changes, LAMBDA c : HasKey(c.row) /\ Writable
                               /\ (c.delete \/ Appendable(<<c.row>>)))
      changes == [i \in DOMAIN keyed |->
                    [key |-> KeyOf(Cut(keyed[i].row)), row |-> Cut(keyed[i].row),
                     delete |-> keyed[i].delete]]
      written == IF Writable THEN SelectSeq(Calls, Appendable) ELSE <<>>
  IN CASE layout \in {"log", "arrow"} ->
            [i \in DOMAIN written |-> [r \in DOMAIN written[i] |-> Cut(written[i][r])]]
       [] OTHER -> <<[i \in DOMAIN Kept(changes) |-> Kept(changes)[i].row]>>

(* The magnitude of a long decimal is all that is encoded in a row. *)
LosesSign(t, v) == t.kind = "decimal" /\ ~ShortDecimal(t) /\ v \notin {Null, Misfit} /\ v < 0

(* The nanoseconds that a precision tells apart: those of a second, or of  *)
(* the multiple of three digits above it.                                  *)
Tick(t) == Power(Thousand, 3 - (t.length + 2) \div 3)

(* Ticks since 1970 are an integer of 64 bits. *)
Overflows(t, v) ==
  /\ Writable /\ t.kind = "timestamp" /\ v \notin {Null, Misfit}
  /\ Instant(v) \div Tick(t) # TimestampValueForField(t, v)

SignsHeld ==
  \A i \in DOMAIN input.fields, r \in DOMAIN Rows : ~LosesSign(input.fields[i], Rows[r][i])

(* Values that a layout can hold. *)
Held ==
  IF layout = "arrow"
  THEN \A i \in DOMAIN input.fields, r \in DOMAIN Rows : ~Overflows(input.fields[i], Rows[r][i])
  ELSE SignsHeld /\ (layout = "compacted" => \A i \in DOMAIN input.fields : Compactable(input.fields[i]))

(* A timestamp of an Arrow log is the instant it was, to its precision.    *)
Same(t, got, put) ==
  IF layout = "arrow" /\ t.kind = "timestamp" /\ put # Null
  THEN got # Null /\ Instant(got) = (Instant(put) \div Tick(t)) * Tick(t)
  ELSE got = put

SameRows(got, put) ==
  /\ got # Failed /\ Len(got) = Len(put)
  /\ \A r \in DOMAIN put : \A c \in DOMAIN columns :
       Same(input.fields[columns[c]], got[r][c], put[r][columns[c]])

(* What a lookup of changed rows finds: the last put of the key, or Null.  *)
ExpectedFound ==
  LET kept(row) == SelectSeq(Expected[1], LAMBDA put : KeyOf(put) = KeyOf(Cut(row)))
      found(row) == IF kept(row) = <<>> THEN Null ELSE kept(row)[1]
  IN IF \A r \in DOMAIN Rows : HasKey(Rows[r])
     THEN [r \in DOMAIN Rows |-> found(Rows[r])] ELSE Failed

AsWritten ==
  /\ step = "done" => \/ SameRows(result, FlattenSeq(Expected))
                      \/ ~Writable /\ result = Failed
  /\ step = "found" => result = ExpectedFound

(* Rows come back as they were written, whatever their types, nulls and    *)
(* lengths: of a log all in order, of a table the last of each key, of an  *)
(* Arrow log the columns asked for, here or by others, of a snapshot as of *)
(* the types that are described, of a lookup for the keys asked for; none  *)
(* if the schema is not valid.  Integers that are too wide come back cut,  *)
(* and are found by what cuts alike.  Not so negative decimals of more than 18   *)
(* digits in a row, nor, compacted, other decimals, timestamps and         *)
(* collections, nor, in an Arrow log, timestamps far from 1970.            *)
RowsSurvive == ~cut /\ Held => AsWritten

(* What CLIENT_SUPPORT_MATRIX.md:63 says of DECIMAL(p, s): decimals        *)
(* survive, of any precision and in all three layouts of rows.  It is      *)
(* false: the long ones lose their sign, and compacted the short ones are  *)
(* written with a fixed width and read as varints.                         *)
DecimalsSurvive ==
  /\ ~cut /\ layout # "arrow"
  /\ layout = "compacted"
       => \A i \in DOMAIN input.fields :
            input.fields[i].kind = "decimal" \/ Compactable(input.fields[i])
  => AsWritten

(* Two keys never share their bytes, of however many columns and whatever  *)
(* types they are: no row takes another's place, and none is kept twice,   *)
(* unless it was cut to the same.                                          *)
KeysDistinct ==
  layout \in {"indexed", "compacted"} /\ step = "fetch" /\ SignsHeld
    => Len(batches[1]) = Len(Expected[1])

(* Of a payload that was cut short no row is returned that is not whole,   *)
(* and none of a batch that is not; a table's batch is refused altogether. *)
CutRefused ==
  step = "done" /\ cut /\ Held
    => \/ result = Failed
       \/ \E n \in 0 .. Len(Expected) - 1 :
            /\ layout \in {"log", "arrow"}
            /\ SameRows(result, FlattenSeq(SubSeq(Expected, 1, n)))
===============================================================================
