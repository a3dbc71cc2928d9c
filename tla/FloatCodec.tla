------------------------------ MODULE FloatCodec ------------------------------
(***************************************************************************)
(* The Float32 and Float64 values of DataValue (src/src/types/value.rs):   *)
(* OrderedFloat<f32> and OrderedFloat<f64>, their equality and order       *)
(* (PartialEq and PartialOrd of DataValue, through OrderedFloat), and the  *)
(* bytes memcomparable_encode writes for them.                             *)
(*                                                                         *)
(* A float is its IEEE-754 bit pattern, most significant bit first:        *)
(* the sign, the exponent and the mantissa (f.to_bits()).                  *)
(***************************************************************************)
EXTENDS TimeCodec, KeyCodec

(* The widths of the exponent and the mantissa of each float type. *)
ExpWidth == [Float32 |-> 8, Float64 |-> 11]
MantWidth == [Float32 |-> 23, Float64 |-> 52]

(* The float of type ty with the given sign bit, biased exponent and      *)
(* leading mantissa bits (the rest are zero).                               *)
FloatV(ty, sign, exp, mant) ==
  [ty |-> ty,
   v  |-> <<sign>> \o NatBits(exp, ExpWidth[ty]) \o mant \o Zeros(MantWidth[ty] - Len(mant))]

(* The exponent and mantissa bits: the magnitude of a float. *)
Magnitude(x) == Tail(x.v)

IsZeroBits(bs) == \A k \in DOMAIN bs : bs[k] = 0

FloatIsNaN(x) ==
  /\ \A k \in 2..(ExpWidth[x.ty] + 1) : x.v[k] = 1
  /\ ~IsZeroBits(SubSeq(x.v, ExpWidth[x.ty] + 2, Len(x.v)))

(* The sign of a float that is not NaN: 0 for both zeros. *)
FloatSignum(x) == IF IsZeroBits(Magnitude(x)) THEN 0 ELSE IF x.v[1] = 1 THEN -1 ELSE 1

(* OrderedFloat's eq (DataValue::eq on two floats of a type): every NaN    *)
(* equals every NaN, and -0.0 equals 0.0.                                  *)
FloatEq(x, y) ==
  IF FloatIsNaN(x) \/ FloatIsNaN(y)
  THEN FloatIsNaN(x) /\ FloatIsNaN(y)
  ELSE FloatSignum(x) = FloatSignum(y) /\ (FloatSignum(x) = 0 \/ x.v = y.v)

(* OrderedFloat's partial_cmp (DataValue::partial_cmp on two floats of a  *)
(* type): NaN is greater than every other float; the others by value,     *)
(* and the magnitudes of IEEE-754 floats compare as their bits do.        *)
FloatLt(x, y) ==
  CASE FloatIsNaN(x) -> FALSE
    [] FloatIsNaN(y) -> TRUE
    [] OTHER ->
         \/ FloatSignum(x) < FloatSignum(y)
         \/ FloatSignum(x) = 1 /\ FloatSignum(y) = 1 /\ BytesLt(Magnitude(x), Magnitude(y))
         \/ FloatSignum(x) = -1 /\ FloatSignum(y) = -1 /\ BytesLt(Magnitude(y), Magnitude(x))

(* f.0 >= 0.0: true for both zeros, false for NaN and the negatives. *)
NonNegative(x) == ~FloatIsNaN(x) /\ FloatSignum(x) >= 0

BitNot(bs) == [k \in DOMAIN bs |-> 1 - bs[k]]

(* Mutant of FloatKeyBits: the test is f.0 > 0.0. *)
FloatKeyBitsStrict(x) ==
  IF ~FloatIsNaN(x) /\ FloatSignum(x) > 0 THEN <<1>> \o Tail(x.v) ELSE BitNot(x.v)

(* The u of the Float32 and Float64 arms of memcomparable_encode: the bits *)
(* with the top bit set when f.0 >= 0.0, all bits flipped otherwise.       *)
FloatKeyBits(x) ==
  IF NonNegative(x) THEN <<1>> \o Tail(x.v) ELSE BitNot(x.v)

(* to_be_bytes: the bits in groups of 8, the most significant first. *)
ToBeBytes(bs) == [i \in 1..(Len(bs) \div 8) |-> BitsNat(SubSeq(bs, 8 * i - 7, 8 * i))]

(* memcomparable_encode of a float: encode_u!(b, u). *)
EncodeFloat(b, x) == b \o ToBeBytes(FloatKeyBits(x))
================================================================================
