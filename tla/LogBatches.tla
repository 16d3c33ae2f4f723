------------------------------- MODULE LogBatches -------------------------------
(***************************************************************************)
(* internal/codec/row: the batches of a log, and the records in each, as   *)
(* bytes.  A batch's header is cut down to its length field, the magic     *)
(* byte, and a checksum of what follows; what is in a record, the bytes of *)
(* a row, is not looked at here.  A record of length zero, and a batch     *)
(* shorter than its header, which no encoder makes, panic in the decoders  *)
(* (row.go:261, 621); here they are Failed.                                *)
(***************************************************************************)
EXTENDS FieldCodec

(* What is returned with an error is none of the results below. *)
ASSUME LogBatchesAssumption == Failed \notin [off : Nat, pieces : Seq(Seq(Int))]

Checksum(bytes) ==
  LET sum[i \in 0 .. Len(bytes)] ==
        IF i = 0 THEN 0 ELSE (sum[i - 1] + bytes[i]) % Base
  IN <<sum[Len(bytes)]>>

HeaderSize == W32 + 2

(* The pieces of size bytes, of at least one byte each; read tells of the  *)
(* one that starts at an offset what it holds and how long it is.          *)
Pieces(size, read) ==
  LET upTo[k \in 0 .. size] ==
        IF k = 0 THEN [off |-> 0, pieces |-> <<>>]
        ELSE Then(upTo[k - 1], LAMBDA before :
               IF before.off = size THEN before
               ELSE Then(read[before.off], LAMBDA piece :
                      [off |-> before.off + piece.end,
                       pieces |-> Append(before.pieces, piece.bytes)]))
  IN Then(upTo[size], LAMBDA all : all.pieces)

-------------------------------------------------------------------------------
(* Records *)

EncodeLogRecord(row) == Fixed(1 + Len(row), W32) \o <<0>> \o row

DecodeLogRecord(bytes) ==
  Then(Chunk(bytes, 0), LAMBDA record :
    IF record.bytes = <<>> \/ record.bytes[1] # 0 THEN Failed
    ELSE [bytes |-> Tail(record.bytes), end |-> record.end])

(* The bytes of the rows. *)
SplitLogRecords(records) ==
  Pieces(Len(records),
         [off \in 0 .. Len(records) |-> DecodeLogRecord(After(records, off))])

-------------------------------------------------------------------------------
(* Batches *)

EncodeLogBatch(rows) ==
  LET records == FlattenSeq([i \in DOMAIN rows |-> EncodeLogRecord(rows[i])]) IN
  Fixed(2 + Len(records), W32) \o <<0>> \o Checksum(records) \o records

(* Faulty variant: what there is of a batch cut short is taken for it. *)
DecodeLogBatchInPart(bytes) ==
  LET size == W32 + Unsigned(First(bytes, W32)) IN
  IF Len(bytes) < HeaderSize THEN Failed
  ELSE IF size > Len(bytes) THEN [bytes |-> After(bytes, HeaderSize), end |-> Len(bytes)]
  ELSE [bytes |-> SubSeq(bytes, HeaderSize + 1, size), end |-> size]

(* The first batch of a payload: its records, or Failed. *)
DecodeLogBatch(bytes) ==
  LET size == W32 + Unsigned(First(bytes, W32))
      records == SubSeq(bytes, HeaderSize + 1, size)
  IN IF Len(bytes) < HeaderSize THEN Failed
     ELSE IF bytes[W32 + 1] # 0 \/ size > Len(bytes) THEN Failed
     ELSE IF <<bytes[W32 + 2]>> # Checksum(records) THEN Failed
     ELSE [bytes |-> records, end |-> size]

(* Of each batch the bytes of its rows. *)
SplitLogBatches(bytes) ==
  Then(Pieces(Len(bytes), [off \in 0 .. Len(bytes) |-> DecodeLogBatch(After(bytes, off))]),
       LAMBDA batches :
         AllOrFailed([i \in DOMAIN batches |-> SplitLogRecords(batches[i])]))
===============================================================================
