------------------------------ MODULE MCTableRows ------------------------------
(***************************************************************************)
(* Schemas and rows on which TLC checks TableRows: bytes of two bits, so   *)
(* that the flags of three fields take two bytes, and for each type values *)
(* of both signs or of no and of some length.                              *)
(***************************************************************************)
EXTENDS TableRows

(* Values that tell the widths, signs and lengths apart. *)
Values(t) ==
  CASE t = Int8Type -> {-2, 1}
    [] t = Int32Type -> {-1, 100}
    [] t = Int64Type -> {-300, 3}
    [] t = BytesType -> {<<>>, <<1>>, <<1, 1>>}
    [] t = DecimalType(18) -> {-5, 300}
    [] t = DecimalType(19) -> {-5, 5, 300}
    [] t = TimestampType(3) -> {<<-5, 0>>, <<300, 0>>}
    [] t = TimestampType(0) -> {<<-5, 0>>, <<300, 0>>}
    [] t = TimestampType(6) -> {<<-5, 7>>, <<100, 9>>}
    [] t = TimestampType(10) -> {<<-5, 0>>}
    [] t = TimestampType(9) -> {<<-5, 7>>, <<100, 1>>}
    [] t = ArrayType(Int32Type) -> {<<>>, <<-1, Null>>}
    [] t = MapType(BytesType, Int8Type) -> {<<<<<<1>>, 1>>>>, <<<<<<>>, Null>>, <<<<1, 1>>, -2>>>>}
    [] t = RowType(<<BytesType, Int8Type, BytesType>>) -> {<<<<1>>, Null, <<>>>>, <<Null, 1, <<1, 1>>>>}

Nullable(t) == Values(t) \cup {Null}

RowsOf(fields) ==
  {<<a, b, c>> : a \in Nullable(fields[1]), b \in Nullable(fields[2]), c \in Nullable(fields[3])}

Put(row) == [row |-> row, delete |-> FALSE]
Delete(row) == [row |-> row, delete |-> TRUE]

(* One change, or two to keys of the first columns that may be the same.   *)
InputsOver(fields, keys, rows) ==
  {[fields |-> fields, names |-> <<"a", "b", "c">>, keys |-> keys, changes |-> changes] :
     changes \in {<<Put(r)>> : r \in rows}
             \cup {<<Put(<<r[1], r[2], Null>>), change>> : r \in rows,
                   change \in {Put(s) : s \in rows}
                      \cup {Delete(<<s[1], s[2], Null>>) : s \in rows}}}

InputsOf(fields, keys) == InputsOver(fields, keys, RowsOf(fields))

(* 5 is 1 as an integer of one byte, 255 is -1 as one of four, and 100 is  *)
(* no decimal of two digits.                                               *)
RowsNotFitting ==
  {<<a, b, c>> : a \in {1, 5, Null, Misfit}, b \in {-1, 255, Misfit}, c \in {7, 100, Misfit}}

(* A call without rows. *)
NoRows ==
  {[fields |-> <<BytesType>>, names |-> <<"a">>, keys |-> <<1>>, changes |-> <<>>]}

MCInputs ==
  NoRows
    \cup InputsOf(<<BytesType, BytesType, Int8Type>>, <<1, 2>>)
    \cup InputsOf(<<Int64Type, DecimalType(19), Int32Type>>, <<2, 1>>)
    \cup InputsOf(<<TimestampType(6), DecimalType(18), BytesType>>, <<1, 2>>)
    \cup InputsOf(<<TimestampType(0), TimestampType(9), Int8Type>>, <<1, 2>>)
    \cup InputsOf(<<Int8Type, BytesType, TimestampType(10)>>, <<1>>)
    \cup InputsOver(<<Int8Type, Int32Type, DecimalType(2)>>, <<1, 2>>, RowsNotFitting)
    \cup InputsOf(<<Int32Type, ArrayType(Int32Type), TimestampType(3)>>, <<1>>)
    \cup InputsOf(<<DecimalType(18), MapType(BytesType, Int8Type), RowType(<<BytesType, Int8Type, BytesType>>)>>, <<1>>)
===============================================================================
