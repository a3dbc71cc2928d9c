------------------------------- MODULE KeyCodec -------------------------------
(***************************************************************************)
(* DataValue::memcomparable_encode (src/src/types/value.rs): the bytes a   *)
(* value contributes to a storage key, appended to a buffer that already   *)
(* holds the key's prefix.  Modelled for the key types the engine accepts *)
(* in primary keys and indexes that matter to order: Int8 (Tinyint),      *)
(* Utf8 strings, Decimal, Null and Tuple (composite keys, with the        *)
(* is_upper flag).  A Decimal is its sign, the decimal digits of its      *)
(* mantissa (no leading zero; <<>> for zero) and its scale, so that       *)
(* mantissas of 20 digits and more, which reach the large exponents, fit. *)
(* A string is the sequence of its UTF-8 bytes; a byte is an integer in   *)
(* 0..255.                                                                 *)
(*                                                                         *)
(* ValueLt is the logical order the encoding must preserve (spec 8.1):     *)
(* Null first, integers by value, strings by bytes, tuples element by      *)
(* element.                                                                *)
(***************************************************************************)
EXTENDS Integers, Sequences, SequencesExt, Bitwise

ENCODE_GROUP_SIZE == 8
ENCODE_MARKER == 255
BOUND_MIN_TAG == 0
BOUND_MAX_TAG == 255

NullV == [ty |-> "Null", v |-> 0, upper |-> FALSE]
Int8(n) == [ty |-> "Int8", v |-> n, upper |-> FALSE]
Utf8(s) == [ty |-> "Utf8", v |-> s, upper |-> FALSE]
Decimal(neg, digits, scale) ==
  [ty |-> "Decimal", v |-> [neg |-> neg, digits |-> digits, scale |-> scale], upper |-> FALSE]
TupleV(vs, isUpper) == [ty |-> "Tuple", v |-> vs, upper |-> isUpper]

(* DataValue::is_null: only the Null variant. *)
IsNullValue(x) == x.ty = "Null"

(* DataValue::logical_type, for the variants the model has (a Utf8 value *)
(* is a Varchar one; the Tuple's element types are not needed).          *)
LogicalTypeOf(x) ==
  CASE x.ty = "Null"    -> "SqlNull"
    [] x.ty = "Int8"    -> "Tinyint"
    [] x.ty = "Utf8"    -> "Varchar"
    [] x.ty = "Decimal" -> "Decimal"
    [] x.ty = "Time32"  -> "Time"
    [] x.ty = "Tuple"   -> "Tuple"

Zeros(n) == [i \in 1..n |-> 0]

(* realloc_bytes: b.resize(size, 0) when the buffer is shorter than size. *)
ReallocBytes(b, size) == IF size > Len(b) THEN b \o Zeros(size - Len(b)) ELSE b

(* The loop of encode_bytes: groups of ENCODE_GROUP_SIZE bytes, the last  *)
(* one zero-padded, each followed by ENCODE_MARKER - pad_count.           *)
RECURSIVE EncodeGroups(_, _, _)
EncodeGroups(b, data, idx) ==
  IF idx > Len(data) THEN b
  ELSE LET remain == Len(data) - idx
           pad == IF remain >= ENCODE_GROUP_SIZE THEN 0 ELSE ENCODE_GROUP_SIZE - remain
           group == SubSeq(data, idx + 1, idx + ENCODE_GROUP_SIZE - pad) \o Zeros(pad)
       IN EncodeGroups(b \o group \o <<ENCODE_MARKER - pad>>, data, idx + ENCODE_GROUP_SIZE)

(* DataValue::encode_bytes *)
EncodeBytes(b, data) ==
  LET reallocSize == (Len(data) \div ENCODE_GROUP_SIZE + 1) * (ENCODE_GROUP_SIZE + 1)
  IN EncodeGroups(ReallocBytes(b, reallocSize), data, 0)

(* Mutant of EncodeI8: the sign bit is not flipped. *)
EncodeI8NoFlip(n) == <<(n + 256) % 256>>

(* Int8: *v as u8 ^ 0x80_u8, big-endian. *)
EncodeI8(n) == <<((n + 256) % 256) ^^ 128>>

(* The number of trailing zero digits of a mantissa. *)
TrailingZeros(d) ==
  CHOOSE t \in 0..Len(d) :
    /\ \A k \in (Len(d) - t + 1)..Len(d) : d[k] = 0
    /\ t < Len(d) => d[Len(d) - t] # 0

(* The loops of decimal_e_m: base-100 digits of the mantissa from the     *)
(* least significant, each as digit * 2 + 1.                              *)
RECURSIVE Base100(_)
Base100(m) ==
  IF m = <<>> THEN <<>>
  ELSE LET n == Len(m)
           pair == IF n > 1 THEN m[n - 1] * 10 + m[n] ELSE m[n]
       IN <<pair * 2 + 1>> \o Base100(SubSeq(m, 1, n - 2))

(* Mutant of DecimalEM: the last significand byte is not decremented. *)
DecimalEMNoDecrement(d, scale) ==
  LET prec == Len(d)
      e10 == prec - scale
      e100 == IF e10 >= 0 THEN (e10 + 1) \div 2 ELSE -((-e10) \div 2)
      tz == TrailingZeros(d)
      digitNum == (IF e10 = 2 * e100 THEN prec ELSE prec + 1) - tz
      m == SubSeq(d, 1, prec - tz) \o (IF digitNum % 2 = 1 THEN <<0>> ELSE <<>>)
  IN [e |-> e100, m |-> Reverse(Base100(m))]

(* decimal_e_m for a non-zero decimal: the base-100 exponent (e10 / 2      *)
(* rounded up for e10 >= 0, toward zero below) and the significand bytes: *)
(* trailing zeros removed, a 0 appended when the digit count, with the    *)
(* leading 0 that aligns the pairs, is odd, the first byte of the loops   *)
(* (the last pair) decremented, and the array reversed.                   *)
DecimalEM(d, scale) ==
  LET prec == Len(d)
      e10 == prec - scale
      e100 == IF e10 >= 0 THEN (e10 + 1) \div 2 ELSE -((-e10) \div 2)
      tz == TrailingZeros(d)
      digitNum == (IF e10 = 2 * e100 THEN prec ELSE prec + 1) - tz
      m == SubSeq(d, 1, prec - tz) \o (IF digitNum % 2 = 1 THEN <<0>> ELSE <<>>)
      bytes == Base100(m)
  IN [e |-> e100, m |-> Reverse([bytes EXCEPT ![1] = @ - 1])]

(* serialize_decimal: zero is 0x15; otherwise an exponent tag (and byte),  *)
(* then the significand, complemented for a negative value.  !x as u8 of  *)
(* an i8 x is 255 - x.                                                    *)
SerializeDecimal(x) ==
  IF x.digits = <<>> THEN <<21>>
  ELSE LET em == DecimalEM(x.digits, x.scale)
           e == em.e
       IN IF ~x.neg
          THEN (CASE e >= 11 -> <<34, e>>
                  [] e >= 0  -> <<23 + e>>
                  [] OTHER   -> <<22, 255 + e>>) \o em.m
          ELSE (CASE e >= 11 -> <<8, 255 - e>>
                  [] e >= 0  -> <<19 - e>>
                  [] OTHER   -> <<20, -e>>) \o [k \in DOMAIN em.m |-> 255 - em.m[k]]

(* DataValue::memcomparable_encode; a Tuple element is followed by          *)
(* BOUND_MAX_TAG when it is Null or the last one of an upper tuple, and by  *)
(* BOUND_MIN_TAG otherwise.                                                  *)
RECURSIVE MemcomparableEncode(_, _), EncodeElems(_, _, _, _)
MemcomparableEncode(b, x) ==
  CASE x.ty = "Int8"  -> b \o EncodeI8(x.v)
    [] x.ty = "Utf8"  -> EncodeBytes(b, x.v)
    [] IsNullValue(x) -> b
    [] x.ty = "Decimal" -> b \o SerializeDecimal(x.v)
    [] x.ty = "Tuple" -> EncodeElems(b, x.v, 1, x.upper)

EncodeElems(b, vs, i, isUpper) ==
  IF i > Len(vs) THEN b
  ELSE LET sep == IF (vs[i].ty = "Null" \/ i = Len(vs)) /\ isUpper
                  THEN BOUND_MAX_TAG ELSE BOUND_MIN_TAG
       IN EncodeElems(MemcomparableEncode(b, vs[i]) \o <<sep>>, vs, i + 1, isUpper)

----------------------------------------------------------------------------
(* Lexicographic byte order, the order of the key-value store. *)
BytesLt(a, b) ==
  \E i \in 0..Len(a) :
    /\ i <= Len(b)
    /\ SubSeq(a, 1, i) = SubSeq(b, 1, i)
    /\ \/ i = Len(a) /\ i < Len(b)
       \/ i < Len(a) /\ i < Len(b) /\ a[i + 1] < b[i + 1]

(* A decimal in scientific form: the exponent of 10 of 0.d1d2... and the *)
(* digits without trailing zeros.                                         *)
Sci(x) == LET tz == TrailingZeros(x.digits)
          IN [e10 |-> Len(x.digits) - x.scale, ds |-> SubSeq(x.digits, 1, Len(x.digits) - tz)]

(* |x| < |y| for non-zero decimals: by exponent, then by digits. *)
MagLt(x, y) ==
  Sci(x).e10 < Sci(y).e10 \/ (Sci(x).e10 = Sci(y).e10 /\ BytesLt(Sci(x).ds, Sci(y).ds))

Signum(x) == IF x.digits = <<>> THEN 0 ELSE IF x.neg THEN -1 ELSE 1

DecimalLt(x, y) ==
  \/ Signum(x) < Signum(y)
  \/ Signum(x) = 1 /\ Signum(y) = 1 /\ MagLt(x, y)
  \/ Signum(x) = -1 /\ Signum(y) = -1 /\ MagLt(y, x)

DecimalEq(x, y) == Signum(x) = Signum(y) /\ (Signum(x) = 0 \/ Sci(x) = Sci(y))

(* Equality of values of possibly different types (the v fields of two   *)
(* types are not comparable).                                             *)
RECURSIVE ValueEq(_, _)
ValueEq(x, y) ==
  /\ x.ty = y.ty
  /\ CASE x.ty = "Tuple" -> /\ Len(x.v) = Len(y.v)
                            /\ \A k \in 1..Len(x.v) : ValueEq(x.v[k], y.v[k])
       [] x.ty = "Decimal" -> DecimalEq(x.v, y.v)
       [] OTHER -> x.v = y.v

(* The logical order of key values (reference for spec 8.1). *)
RECURSIVE ValueLt(_, _)
ValueLt(x, y) ==
  CASE x.ty = "Null" -> y.ty # "Null"
    [] y.ty = "Null" -> FALSE
    [] x.ty = "Int8" /\ y.ty = "Int8" -> x.v < y.v
    [] x.ty = "Utf8" /\ y.ty = "Utf8" -> BytesLt(x.v, y.v)
    [] x.ty = "Decimal" /\ y.ty = "Decimal" -> DecimalLt(x.v, y.v)
    [] x.ty = "Tuple" /\ y.ty = "Tuple" ->
         \E i \in 1..Len(x.v) :
           /\ i <= Len(y.v)
           /\ \A k \in 1..(i - 1) : ValueEq(x.v[k], y.v[k])
           /\ ValueLt(x.v[i], y.v[i])
    [] OTHER -> FALSE
================================================================================
