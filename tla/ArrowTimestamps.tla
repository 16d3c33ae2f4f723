----------------------------- MODULE ArrowTimestamps -----------------------------
(***************************************************************************)
(* internal/codec/arrow: timestamps as the columns of the Arrow format     *)
(* hold them, a number of ticks since 1970.  How long a tick is depends on *)
(* the precision of the field.                                             *)
(***************************************************************************)
EXTENDS FieldCodec

CONSTANT Thousand   \* milliseconds of a second, microseconds of one, ...

ASSUME ArrowTimestampsAssumption == Thousand \in Nat \ {0, 1}

Million == Thousand * Thousand

Instant(v) == v[1] * Million + v[2]

(* Ticks are counted down to before the instant, as time.Unix does, ...    *)
TimestampValueForField(t, v) ==
  LET ticks(unit) == Wrap(Instant(v) \div unit, W64) IN
  CASE t.length <= 0 -> ticks(Thousand * Million)
    [] t.length \in 1 .. 3 -> ticks(Million)
    [] t.length \in 4 .. 6 -> ticks(Thousand)
    [] OTHER -> ticks(1)

(* ... but Go divides them towards zero. *)
Quotient(a, b) == IF a < 0 THEN -((-a) \div b) ELSE a \div b

Remainder(a, b) == a - Quotient(a, b) * b

TimestampParts(t, ticks) ==
  CASE t.length <= 0 -> <<Wrap(ticks * Thousand, W64), 0>>
    [] t.length \in 1 .. 3 -> <<ticks, 0>>
    [] t.length \in 4 .. 6 ->
         <<Quotient(ticks, Thousand), Remainder(ticks, Thousand) * Thousand>>
    [] OTHER -> <<Quotient(ticks, Million), Remainder(ticks, Million)>>

(* The nanoseconds of a tick of a column of timestamps. *)
TimestampTypeForPrecision(precision) ==
  [is |-> "timestamp",
   unit |-> CASE precision <= 0 -> Thousand * Million
              [] precision \in 1 .. 3 -> Million
              [] precision \in 4 .. 6 -> Thousand
              [] OTHER -> 1]
===============================================================================
