----------------------------- MODULE NumericCast -----------------------------
(***************************************************************************)
(* DataValue::cast (src/src/types/value.rs) from Null, Boolean and the     *)
(* eight integer variants, to every LogicalType those arms name.           *)
(*                                                                         *)
(* A value is its variant and its number (a Boolean its truth value).  A   *)
(* target is a LogicalType: its name, and for Char and Varchar the length *)
(* and for Decimal the precision (-1 for None).  Strings are sequences of ASCII codes, so     *)
(* Characters and Octets count them alike and the unit is left out.       *)
(* Numbers stay within TLC's integers, below 2^31 in magnitude: the       *)
(* boundaries of the 8- and 16-bit types are inside, those of the 32- and *)
(* 64-bit ones are not.                                                    *)
(***************************************************************************)
EXTENDS Integers, Sequences

(* The integer LogicalTypes and the DataValue variant each one holds      *)
(* (DataValue::logical_type read backwards).                               *)
Variant == [Tinyint |-> "Int8", Smallint |-> "Int16", Integer |-> "Int32", Bigint |-> "Int64",
            UTinyint |-> "UInt8", USmallint |-> "UInt16", UInteger |-> "UInt32", UBigint |-> "UInt64"]
IntTypes == DOMAIN Variant
IntVariants == {Variant[t] : t \in IntTypes}
IntWidth == [Tinyint |-> 8, Smallint |-> 16, Integer |-> 32, Bigint |-> 64,
             UTinyint |-> 8, USmallint |-> 16, UInteger |-> 32, UBigint |-> 64]
Unsigned == {"UTinyint", "USmallint", "UInteger", "UBigint"}

(* n fits the integer type ty. *)
InRange(n, ty) ==
  IF ty \in Unsigned THEN n >= 0 /\ (IntWidth[ty] >= 32 \/ n < 2 ^ IntWidth[ty])
  ELSE IntWidth[ty] >= 32 \/ (-(2 ^ (IntWidth[ty] - 1)) <= n /\ n < 2 ^ (IntWidth[ty] - 1))

Val(variant, x) == [ty |-> variant, v |-> x]
NullVal == Val("Null", 0)
CastError(e) == Val("Err", e)

(* Mutant of TryFrom: `value as T`, which wraps instead of failing. *)
AsWrap(n, to) ==
  LET w == IntWidth[to]
      u == n % (2 ^ w)
  IN IF w >= 32 THEN Val(Variant[to], n)
     ELSE Val(Variant[to], IF to \in Unsigned \/ u < 2 ^ (w - 1) THEN u ELSE u - 2 ^ w)

(* T::try_from(value)?: the value, or the TryFromIntError turned into a  *)
(* DatabaseError by `?`.                                                    *)
TryFrom(n, to) == IF InRange(n, to) THEN Val(Variant[to], n) ELSE CastError("TryFromInt")

(* The integer targets each integer arm reaches with try_from; the other  *)
(* integer targets are the variant itself or a widening .into().          *)
TryTargets ==
  [Int8   |-> Unsigned,
   Int16  |-> Unsigned \cup {"Tinyint"},
   Int32  |-> Unsigned \cup {"Tinyint", "Smallint"},
   Int64  |-> IntTypes \ {"Bigint"},
   UInt8  |-> {"Tinyint"},
   UInt16 |-> {"Tinyint", "UTinyint", "Smallint"},
   UInt32 |-> {"Tinyint", "UTinyint", "Smallint", "USmallint", "Integer"},
   UInt64 |-> IntTypes \ {"UBigint"}]

(* The arms that convert to Float with `value as f32` (no From into f32). *)
AsF32 == {"Int32", "Int64", "UInt32", "UInt64"}

(* `n as f32`: the nearest f32, ties to the even significand.  Below     *)
(* 2^24 every integer is exact.                                            *)
RECURSIVE BitLen(_)
BitLen(m) == IF m = 0 THEN 0 ELSE 1 + BitLen(m \div 2)
RoundF32(n) ==
  LET m == IF n < 0 THEN -n ELSE n
      k == BitLen(m) - 24
  IN IF k <= 0 THEN n
     ELSE LET q == m \div 2 ^ k
              r == m % 2 ^ k
              h == 2 ^ (k - 1)
              q2 == IF r > h \/ (r = h /\ q % 2 = 1) THEN q + 1 ELSE q
          IN IF n < 0 THEN -(q2 * 2 ^ k) ELSE q2 * 2 ^ k

(* to_string of an integer and of a bool, as ASCII codes. *)
RECURSIVE Digits(_)
Digits(m) == IF m < 10 THEN <<48 + m>> ELSE Digits(m \div 10) \o <<48 + (m % 10)>>
IntString(n) == IF n < 0 THEN <<45>> \o Digits(-n) ELSE Digits(n)
BoolString(b) == IF b THEN <<116, 114, 117, 101>> ELSE <<102, 97, 108, 115, 101>>

(* varchar_cast!: TooLong when the string is longer than the length; a   *)
(* Char always has one, a Varchar may not (-1).                            *)
VarcharCast(s, to) ==
  IF to.len >= 0 /\ Len(s) > to.len THEN CastError("TooLong")
  ELSE [ty |-> "Utf8", v |-> s, fixed |-> to.t = "Char"]

(* numeric_to_boolean! *)
NumericToBoolean(n) ==
  CASE n = 0 -> Val("Boolean", FALSE)
    [] n = 1 -> Val("Boolean", TRUE)
    [] OTHER -> CastError("CastFail")

(* The arm of an integer variant: try_from or .into() to the integers,   *)
(* into() or `as` to the floats, Decimal::from (decimal_round_i keeps an  *)
(* integer), to_string to the strings, numeric_to_boolean! to Boolean.    *)
CastInt(x, to) ==
  CASE to.t = "SqlNull" -> NullVal
    [] to.t \in IntTypes ->
         IF to.t \in TryTargets[x.ty] THEN TryFrom(x.v, to.t) ELSE Val(Variant[to.t], x.v)
    [] to.t = "Float" -> Val("Float32", IF x.ty \in AsF32 THEN RoundF32(x.v) ELSE x.v)
    [] to.t = "Double" -> Val("Float64", x.v)
    [] to.t = "Decimal" -> Val("Decimal", x.v)
    [] to.t \in {"Char", "Varchar"} -> VarcharCast(IntString(x.v), to)
    [] to.t = "Boolean" -> NumericToBoolean(x.v)
    [] OTHER -> CastError("CastFail")

(* The Boolean arm: bool into every integer and float, to_string to the  *)
(* strings; no Decimal.                                                    *)
CastBool(x, to) ==
  CASE to.t = "SqlNull" -> NullVal
    [] to.t = "Boolean" -> x
    [] to.t \in IntTypes -> Val(Variant[to.t], IF x.v THEN 1 ELSE 0)
    [] to.t \in {"Float", "Double"} ->
         Val(IF to.t = "Float" THEN "Float32" ELSE "Float64", IF x.v THEN 1 ELSE 0)
    [] to.t \in {"Char", "Varchar"} -> VarcharCast(BoolString(x.v), to)
    [] OTHER -> CastError("CastFail")

(* check_len after the match: a string longer than the length, or a      *)
(* Decimal whose non-zero mantissa has more digits than the precision     *)
(* (an integer keeps scale 0), is TooLong.                                 *)
CheckLen(r, to) ==
  LET over == CASE r.ty = "Utf8" -> to.len >= 0 /\ Len(r.v) > to.len
                [] r.ty = "Decimal" /\ to.t = "Decimal" ->
                     to.len >= 0 /\ r.v # 0 /\ Len(IntString(IF r.v < 0 THEN -r.v ELSE r.v)) > to.len
                [] OTHER -> FALSE
  IN IF over THEN CastError("TooLong") ELSE r

(* DataValue::cast from Null, Boolean or an integer: the arm, then       *)
(* check_len of its value.                                                 *)
CastValue(x, to) ==
  LET r == CASE x.ty = "Null" -> NullVal
             [] x.ty = "Boolean" -> CastBool(x, to)
             [] OTHER -> CastInt(x, to)
  IN IF r.ty = "Err" THEN r ELSE CheckLen(r, to)
================================================================================
