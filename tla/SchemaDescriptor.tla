---------------------------- MODULE SchemaDescriptor ----------------------------
(***************************************************************************)
(* internal/metadata/schema_descriptor.go: the types of a table's columns  *)
(* as the coordinator describes them, in JSON objects or in text, parsed   *)
(* into the types of RowCodec.  A text is a sequence of tokens: names,     *)
(* numbers and marks; spaces and case are left out.  A column is described *)
(* in one way.                                                             *)
(***************************************************************************)
EXTENDS RowCodec

ByteTypes == {"BOOLEAN", "TINYINT", "SMALLINT", "FLOAT", "DOUBLE"}
TextTypes == {"STRING", "VARCHAR", "CHAR", "BYTES", "BINARY", "VARBINARY"}

(* Types that are their names, with what follows left out. *)
NamedType(name) ==
  CASE name \in ByteTypes -> Int8Type
    [] name \in {"INT", "INTEGER", "DATE", "TIME", "TIME_WITHOUT_TIME_ZONE"} -> Int32Type
    [] name = "BIGINT" -> Int64Type
    [] name \in TextTypes -> BytesType
    [] OTHER -> Failed

-------------------------------------------------------------------------------
(* Text.  A parser returns what it parsed and the tokens that are left.    *)

Mark(tokens, mark) == tokens # <<>> /\ tokens[1].is = "mark" /\ tokens[1].v = mark
Name(tokens) == IF tokens # <<>> /\ tokens[1].is = "name" THEN tokens[1].v ELSE ""
SkipName(tokens) == IF Name(tokens) = "" THEN tokens ELSE Tail(tokens)
Expect(tokens, mark) == IF Mark(tokens, mark) THEN Tail(tokens) ELSE Failed

(* n numbers in parentheses: neither more nor fewer. *)
IntArgs(tokens, n) ==
  IF /\ Mark(tokens, "(") /\ Len(tokens) > 2 * n
     /\ \A i \in 1 .. n : /\ tokens[2 * i].is = "number"
                          /\ Mark(After(tokens, 2 * i), IF i = n THEN ")" ELSE ",")
  THEN [parsed |-> [i \in 1 .. n |-> tokens[2 * i].v], rest |-> After(tokens, 2 * n + 1)]
  ELSE Failed

OptionalArg(tokens, default) ==
  IF Mark(tokens, "(") THEN IntArgs(tokens, 1) ELSE [parsed |-> <<default>>, rest |-> tokens]

(* Go on with what is left after a mark. *)
Parsed(parsed, rest) == IF rest = Failed THEN Failed ELSE [parsed |-> parsed, rest |-> rest]

RECURSIVE ParseType(_), ParseTypes(_, _)

(* One type or more, up to the closing mark.  A row's have names. *)
ParseTypes(tokens, named) ==
  Then(ParseType(IF named THEN SkipName(tokens) ELSE tokens), LAMBDA first :
    IF Mark(first.rest, ">") THEN Parsed(<<first.parsed>>, Tail(first.rest))
    ELSE Then(Expect(first.rest, ","), LAMBDA more :
           Then(ParseTypes(more, named), LAMBDA others :
             Parsed(<<first.parsed>> \o others.parsed, others.rest))))

(* A type made of others: Make of as many as it has. *)
ParseNested(tokens, named, counts, Make(_)) ==
  Then(Expect(tokens, "<"), LAMBDA inner :
    Then(ParseTypes(inner, named), LAMBDA types :
      IF Len(types.parsed) \in counts THEN Parsed(Make(types.parsed), types.rest) ELSE Failed))

ParseType(tokens) ==
  LET name == Name(tokens)
      rest == SkipName(tokens)
  IN CASE name = "DECIMAL" ->
            Then(IntArgs(rest, 2), LAMBDA args : Parsed(DecimalType(args.parsed[1]), args.rest))
       [] name \in {"TIMESTAMP", "TIMESTAMP_LTZ"} ->
            Then(OptionalArg(rest, 6), LAMBDA args :
              Parsed(TimestampType(args.parsed[1]), args.rest))
       [] name = "ARRAY" -> ParseNested(rest, FALSE, {1}, LAMBDA types : ArrayType(types[1]))
       [] name = "MAP" ->
            ParseNested(rest, FALSE, {2}, LAMBDA types : MapType(types[1], types[2]))
       [] name = "ROW" -> ParseNested(rest, TRUE, Nat \ {0}, RowType)
       [] name \in TextTypes \cup {"TIME"} ->
            Then(OptionalArg(rest, 0), LAMBDA args : Parsed(NamedType(name), args.rest))
       [] name = "TIME_WITHOUT_TIME_ZONE" -> Failed
       [] OTHER -> Then(NamedType(name), LAMBDA type : Parsed(type, rest))

ParseFieldType(tokens) ==
  Then(ParseType(tokens), LAMBDA all : IF all.rest = <<>> THEN all.parsed ELSE Failed)

-------------------------------------------------------------------------------
(* Objects: the name of the type, its precision, or Null, and the types it *)
(* is made of.  A row's may be texts.                                      *)

ValueOrDefault(value, default) == IF value = Null THEN default ELSE value

RECURSIVE ToFieldType(_)

FieldTypeOf(d) == IF d.form = "text" THEN ParseFieldType(d.tokens) ELSE ToFieldType(d)

ToFieldType(d) ==
  CASE d.type = "DECIMAL" -> DecimalType(ValueOrDefault(d.precision, 0))
    [] d.type \in {"TIMESTAMP", "TIMESTAMP_WITHOUT_TIME_ZONE",
                   "TIMESTAMP_LTZ", "TIMESTAMP_WITH_LOCAL_TIME_ZONE"} ->
         TimestampType(ValueOrDefault(d.precision, 6))
    [] d.type = "ARRAY" -> Then(ToFieldType(d.of[1]), ArrayType)
    [] d.type = "MAP" ->
         Then(ToFieldType(d.of[1]), LAMBDA key :
           Then(ToFieldType(d.of[2]), LAMBDA value : MapType(key, value)))
    [] d.type = "ROW" -> Then(AllOrFailed([i \in DOMAIN d.of |-> FieldTypeOf(d.of[i])]), RowType)
    [] OTHER -> NamedType(d.type)

(* ParseSchema *)
ParseSchema(columns) == AllOrFailed([i \in DOMAIN columns |-> FieldTypeOf(columns[i])])

-------------------------------------------------------------------------------
(* The coordinator *)

(* The coordinator's description of a type: in text, in objects, or in     *)
(* objects with the fields of rows in text.                                *)
RECURSIVE TextOf(_), Described(_, _)
TextOf(t) ==
  LET name(v) == [is |-> "name", v |-> v]
      mark(v) == [is |-> "mark", v |-> v]
      number(v) == [is |-> "number", v |-> v]
      nested(types) ==
        <<mark("<")>> \o types[1]
          \o FlattenSeq([i \in 1 .. Len(types) - 1 |-> <<mark(",")>> \o types[i + 1]])
          \o <<mark(">")>>
  IN CASE t.kind = "int8" -> <<name("TINYINT")>>
       [] t.kind = "int32" -> <<name("INT")>>
       [] t.kind = "int64" -> <<name("BIGINT")>>
       [] t.kind = "bytes" -> <<name("STRING")>>
       [] t.kind = "decimal" ->
            <<name("DECIMAL"), mark("("), number(t.length), mark(","), number(0), mark(")")>>
       [] t.kind = "timestamp" ->
            <<name("TIMESTAMP")>> \o (IF t.length = 6 THEN <<>>
                                      ELSE <<mark("("), number(t.length), mark(")")>>)
       [] t.kind = "array" -> <<name("ARRAY")>> \o nested(<<TextOf(t.element)>>)
       [] t.kind = "map" -> <<name("MAP")>> \o nested(<<TextOf(t.key), TextOf(t.value)>>)
       [] t.kind = "row" ->
            <<name("ROW")>> \o nested([i \in DOMAIN t.fields |->
                                         <<name("f")>> \o TextOf(t.fields[i])])

Described(t, how) ==
  LET object(type, precision, of) ==
        [form |-> "object", type |-> type, precision |-> precision, of |-> of]
  IN CASE how = "text" -> [form |-> "text", tokens |-> TextOf(t)]
       [] t.kind = "int8" -> object("TINYINT", Null, <<>>)
       [] t.kind = "int32" -> object("INTEGER", Null, <<>>)
       [] t.kind = "int64" -> object("BIGINT", Null, <<>>)
       [] t.kind = "bytes" -> object("STRING", Null, <<>>)
       [] t.kind = "decimal" -> object("DECIMAL", t.length, <<>>)
       [] t.kind = "timestamp" -> object("TIMESTAMP_WITHOUT_TIME_ZONE", t.length, <<>>)
       [] t.kind = "array" -> object("ARRAY", Null, <<Described(t.element, "object")>>)
       [] t.kind = "map" ->
            object("MAP", Null, <<Described(t.key, "object"), Described(t.value, "object")>>)
       [] t.kind = "row" ->
            object("ROW", Null, [i \in DOMAIN t.fields |->
              Described(t.fields[i], IF how = "mixed" THEN "text" ELSE "object")])
===============================================================================
