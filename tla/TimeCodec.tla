------------------------------- MODULE TimeCodec -------------------------------
(***************************************************************************)
(* Time32, the TIME(p) value of DataValue (src/src/types/value.rs): the   *)
(* seconds from midnight and the fraction of a second, packed into a u32   *)
(* by DataValue::pack with a bit layout chosen by the precision p, read    *)
(* back by unpack, and the casts that create and display it.  The u32 is   *)
(* its 32 bits, most significant first (TLC's integers stop at 2^31 - 1).  *)
(*                                                                         *)
(* A time string is the time chrono's NaiveTime::parse_from_str gives for  *)
(* it: [secs, nanos, frac], nanos reaching 10^9 and more in a leap second, *)
(* frac telling whether the string has a fractional part.                  *)
(***************************************************************************)
EXTENDS Integers, Sequences, SequencesExt

ONE_SEC_TO_NANO == 1000000000
ONE_DAY_TO_SEC == 86400

RECURSIVE NatBits(_, _)
NatBits(n, w) == IF w = 0 THEN <<>> ELSE NatBits(n \div 2, w - 1) \o <<n % 2>>

(* A u32 of a natural below 2^31. *)
U32Bits(n) == NatBits(n, 32)

(* The natural a bit string of at most 31 significant bits denotes. *)
BitsNat(bs) == FoldLeft(LAMBDA acc, x : 2 * acc + x, 0, bs)

(* u32 << p: the bits shifted past the top are lost. *)
Shl(x, p) == SubSeq(x, p + 1, 32) \o [k \in 1..p |-> 0]

(* u32 >> p *)
Shr(x, p) == [k \in 1..p |-> 0] \o SubSeq(x, 1, 32 - p)

BitOr(x, y) == [k \in 1..32 |-> IF x[k] + y[k] > 0 THEN 1 ELSE 0]

(* x & (2_u32.pow(p) - 1) *)
LowBits(x, p) == [k \in 1..32 |-> IF k > 32 - p THEN x[k] ELSE 0]

(* The order of two u32: partial_cmp of the integers, and of the big-     *)
(* endian bytes memcomparable_encode writes for them (encode_u!).          *)
U32Lt(x, y) == \E k \in 1..32 : SubSeq(x, 1, k - 1) = SubSeq(y, 1, k - 1) /\ x[k] < y[k]

(* 1000000000 / 10_u32.pow(precision) *)
Scale(precision) == ONE_SEC_TO_NANO \div 10^precision

(* Mutant of FracShift: precision 4 keeps 19 bits for the seconds. *)
FracShiftWide4(precision) ==
  CASE precision = 1 -> 28 [] precision = 2 -> 25 [] precision = 3 -> 22
    [] precision = 4 -> 19 [] OTHER -> 31

(* The match on precision shared by pack and unpack: where the fraction   *)
(* starts.                                                                 *)
FracShift(precision) ==
  CASE precision = 1 -> 28 [] precision = 2 -> 25 [] precision = 3 -> 22
    [] precision = 4 -> 18 [] OTHER -> 31

(* The assertions of pack: b <= ONE_SEC_TO_NANO and a <= ONE_DAY_TO_SEC. *)
PackPanics(a, b) == b > ONE_SEC_TO_NANO \/ a > ONE_DAY_TO_SEC

(* DataValue::pack: (b scaled down to the precision) << p | a. *)
Pack(a, b, precision) ==
  BitOr(Shl(U32Bits(b \div Scale(precision)), FracShift(precision)), U32Bits(a))

(* DataValue::unpack: <<seconds, nanoseconds>>. *)
Unpack(c, precision) ==
  << BitsNat(LowBits(c, FracShift(precision))),
     BitsNat(Shr(c, FracShift(precision))) * Scale(precision) >>

Time32(v, precision) == [ty |-> "Time32", v |-> v, p |-> precision]
TimeErr(e) == [ty |-> "Err", e |-> e]

(* DataValue::cast of a Utf8 value to Time(precision): parsed with        *)
(* TIME_FMT, which takes no fraction, at precision 0 (nanoseconds 0), and *)
(* with TIME_FMT_WITHOUT_ZONE otherwise; then packed.                      *)
CastUtf8ToTime(s, precision) ==
  LET nano == IF precision = 0 THEN 0 ELSE s.nanos
  IN CASE precision = 0 /\ s.frac   -> TimeErr("Parse")
       [] PackPanics(s.secs, nano)  -> TimeErr("Panic")
       [] OTHER -> Time32(Pack(s.secs, nano, precision), precision)

(* DataValue::time_format (format_time): unpack, then                     *)
(* NaiveTime::from_num_seconds_from_midnight_opt, which has no time for    *)
(* 86400 seconds or more or 2 * 10^9 nanoseconds or more (CastFail).       *)
FormatTime(v, precision) ==
  LET u == Unpack(v, precision)
  IN IF u[1] >= ONE_DAY_TO_SEC \/ u[2] >= 2 * ONE_SEC_TO_NANO
     THEN TimeErr("CastFail")
     ELSE [ty |-> "Time", secs |-> u[1], nanos |-> u[2]]

(* DataValue::cast of a Time32 to Varchar(None): the formatted time. *)
CastTimeToVarchar(x) == FormatTime(x.v, x.p)

(* DataValue::cast of a Time32 to Time(to_precision): the packed bits are *)
(* kept and relabelled.                                                    *)
CastTimeToTime(x, toPrecision) == Time32(x.v, toPrecision)

(* From<&NaiveTime>: packed at precision 4, labelled 6. *)
FromNaiveTime(secs, nanos) == Time32(Pack(secs, nanos, 4), 6)

(* The order of Time32 values: partial_cmp and the index key order. *)
Time32Lt(x, y) == U32Lt(x.v, y.v)
================================================================================
