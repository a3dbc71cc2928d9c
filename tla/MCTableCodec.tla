----------------------------- MODULE MCTableCodec -----------------------------
(***************************************************************************)
(* Tables for checking TableCodec.  Rows are sequences of values; a row    *)
(* whose key column is Null exercises check_primary_key's NotNull path.   *)
(***************************************************************************)
EXTENDS TableCodec, TimeCodec, FloatCodec, NumericCast

a == Utf8(<<97>>)
b == Utf8(<<98>>)

(* (id TINYINT PRIMARY KEY, name VARCHAR, score TINYINT NULL) with a       *)
(* composite index on (name, score).                                       *)
MainTypes == <<"Tinyint", "Varchar", "Tinyint">>
MainPk == <<0>>
MainIndexCols == <<1, 2>>
MainRows ==
  { <<Int8(-1), a, Int8(5)>>, <<Int8(1), a, NullV>>, <<Int8(-128), Utf8(<<>>), Int8(-1)>>,
    <<Int8(0), b, Int8(5)>>, <<NullV, b, Int8(1)>> }
MainProjections == { <<0, 1, 2>>, <<0, 2>>, <<1, 2>>, <<0, 1>> }
MainScanValues ==
  { TupleV(<<a, Int8(5)>>, FALSE), TupleV(<<a, NullV>>, FALSE),
    TupleV(<<b, Int8(5)>>, FALSE), TupleV(<<Utf8(<<>>), Int8(-1)>>, FALSE) }

(* (name VARCHAR PRIMARY KEY, score TINYINT): one key of 8 bytes or more. *)
LongTypes == <<"Varchar", "Tinyint">>
LongRows == { <<a, Int8(1)>>, <<Utf8([i \in 1..8 |-> 97]), Int8(2)>> }

(* (id TINYINT PRIMARY KEY, score TINYINT NULL) with a Normal index on   *)
(* score, looked up for NULL.                                             *)
NullTypes == <<"Tinyint", "Tinyint">>
NullIndexCols == <<1>>
NullRows == { <<Int8(1), NullV>>, <<Int8(2), Int8(-1)>> }
NullScanValues == { NullV, Int8(-1) }

(* (id TINYINT PRIMARY KEY, note TINYINT NULL, name VARCHAR) read through *)
(* the projection (id, name).                                             *)
SparseTypes == <<"Tinyint", "Tinyint", "Varchar">>
SparseRows == { <<Int8(1), NullV, a>>, <<Int8(2), Int8(3), b>> }
SparseProjections == { <<0, 2>> }

(* DECIMAL key values: both signs, zeros of two scales, mantissas with     *)
(* trailing zeros and of one, two and three digits, and 22-digit ones     *)
(* (10^21 and 1.2 * 10^21), at scales that give base-100 exponents from    *)
(* -2 to 11, across the one-byte and two-byte exponent tags.              *)
DecimalDigits ==
  { <<1>>, <<1, 0>>, <<1, 1>>, <<1, 1, 1>>, <<9, 9>>, <<2, 5, 0>>, <<1, 0, 1>>,
    <<1>> \o Zeros(21), <<1, 2>> \o Zeros(20) }
DecimalKeys ==
  { Decimal(n, d, s) : n \in BOOLEAN, d \in DecimalDigits, s \in {0, 1, 2, 3, 5} }
  \cup { Decimal(FALSE, <<>>, 0), Decimal(TRUE, <<>>, 2) }

DecimalBytes == [x \in DecimalKeys |-> MemcomparableEncode(<<>>, x)]

(* Time strings: midnight, a half second, the last nanosecond of the day, *)
(* a leap second (nanoseconds 10^9) and a time with every fraction digit. *)
TimeInputs ==
  { [secs |-> 0, nanos |-> 0, frac |-> FALSE],
    [secs |-> 1, nanos |-> 500000000, frac |-> TRUE],
    [secs |-> 86399, nanos |-> 999999999, frac |-> TRUE],
    [secs |-> 86399, nanos |-> 1000000000, frac |-> FALSE],
    [secs |-> 45296, nanos |-> 123456789, frac |-> TRUE] }
TimePrecisions == 0..4

(* Float keys of each width and sign: the zero, the least and the        *)
(* greatest subnormal, 1.0, 1.5, 2.0, the greatest finite value and the  *)
(* infinity; and two NaNs, the quiet NaN of either sign.                  *)
FloatKeysOf(ty) ==
  LET M == MantWidth[ty]
      Top == 2 ^ ExpWidth[ty] - 1
      Bias == 2 ^ (ExpWidth[ty] - 1) - 1
      Ones == [i \in 1..M |-> 1]
  IN {FloatV(ty, s, e[1], e[2]) :
        s \in {0, 1},
        e \in {<<0, <<>>>>, <<0, Zeros(M - 1) \o <<1>>>>, <<0, Ones>>, <<Bias, <<>>>>,
              <<Bias, <<1>>>>, <<Bias + 1, <<>>>>, <<Top - 1, Ones>>, <<Top, <<>>>>}}
FloatNaNsOf(ty) == {FloatV(ty, s, 2 ^ ExpWidth[ty] - 1, <<1>>) : s \in {0, 1}}
FloatKeys == FloatKeysOf("Float32") \cup FloatKeysOf("Float64")
FloatKeysNaN == FloatKeysOf("Float32") \cup FloatKeysOf("Float64") \cup FloatNaNsOf("Float32") \cup FloatNaNsOf("Float64")

(* Numbers cast from each integer variant that holds them: the edges of  *)
(* the 8- and 16-bit types, 0, 1, 2 and 10 (numeric_to_boolean!, one and  *)
(* two digits), and 2^24 + 1 and 2^24 + 3, the first integers an f32      *)
(* rounds (down, then up to the even significand).  The targets: every    *)
(* integer type, Boolean, SqlNull, both floats, Decimal without a         *)
(* precision and with 1 and 3 digits, CHAR(1), CHAR(4), VARCHAR and       *)
(* VARCHAR(2), and Date for the arms' fallback.                            *)
CastInputs ==
  {-16777217, -32769, -32768, -129, -128, -1, 0, 1, 2, 10, 127, 128, 255, 256,
   32767, 32768, 65535, 65536, 16777217, 16777219}
CastTargets ==
  {[t |-> t, len |-> -1] : t \in IntTypes \cup {"SqlNull", "Boolean", "Float", "Double", "Date"}}
  \cup {[t |-> "Decimal", len |-> p] : p \in {-1, 1, 3}}
  \cup {[t |-> "Char", len |-> l] : l \in {1, 4}} \cup {[t |-> "Varchar", len |-> l] : l \in {-1, 2}}

(* The reference: the ranges of the integer types (as far as TLC's        *)
(* integers reach), and the f32 nearest to n for |n| < 2^25, where the    *)
(* f32 values are the integers below 2^24 and the even ones above.        *)
TypeMin == [Tinyint |-> -128, Smallint |-> -32768, Integer |-> -2147483647 - 1,
            Bigint |-> -2147483647 - 1, UTinyint |-> 0, USmallint |-> 0, UInteger |-> 0, UBigint |-> 0]
TypeMax == [Tinyint |-> 127, Smallint |-> 32767, Integer |-> 2147483647, Bigint |-> 2147483647,
            UTinyint |-> 255, USmallint |-> 65535, UInteger |-> 2147483647, UBigint |-> 2147483647]
IsF32(f) == f \in -16777216..16777216 \/ f % 2 = 0
NearestF32(n) ==
  LET cands == {f \in (n - 2)..(n + 2) : IsF32(f)}
      dist(f) == IF f > n THEN f - n ELSE n - f
      best == {f \in cands : \A g \in cands : dist(f) <= dist(g)}
  IN CHOOSE f \in best : Cardinality(best) = 1 \/ f % 4 = 0
TypeOfVariant(vt) == CHOOSE t \in IntTypes : Variant[t] = vt
CastSources(vt) ==
  CASE vt = "Null" -> {NullVal}
    [] vt = "Boolean" -> {Val("Boolean", bv) : bv \in BOOLEAN}
    [] OTHER -> {Val(vt, n) : n \in {n \in CastInputs : n \in TypeMin[TypeOfVariant(vt)]..TypeMax[TypeOfVariant(vt)]}}

(* The table runs beside a probe of the value codecs, chosen at the start *)
(* and never changed: a DECIMAL key, compared, encoded, with every other  *)
(* one, a float key likewise, a time string cast to TIME(p), or the      *)
(* variant of the values cast by CastExact.                                *)
Probes ==
  {[kind |-> "cast", v |-> vt] : vt \in IntVariants \cup {"Null", "Boolean"}} \cup
  {[kind |-> "float", v |-> f] : f \in FloatKeys} \cup
  {[kind |-> "decimal", v |-> d] : d \in DecimalKeys}
  \cup {[kind |-> "time", v |-> <<s, p>>] : s \in TimeInputs, p \in TimePrecisions}

VARIABLE probe

MCInit == Init /\ probe \in Probes
MCNext == Next /\ UNCHANGED probe
MCSpec == MCInit /\ [][MCNext]_<<vars, probe>>

(* hash_bytes of the names: t1 and t2 share seven bytes, t3's hash begins *)
(* with b"Roou", next to b"Root", and view v1's with b"Vies".              *)
MCTableHash ==
  [n \in {"t1", "t2", "t3", "v1"} |->
     CASE n = "t1" -> <<7, 7, 7, 7, 7, 7, 7, 7>>
       [] n = "t2" -> <<7, 7, 7, 7, 7, 7, 7, 8>>
       [] n = "t3" -> <<82, 111, 111, 117, 0, 0, 0, 0>>
       [] n = "v1" -> <<86, 105, 101, 115, 255, 255, 255, 255>>]

Tables == {"t1", "t2", "t3"}
Views == {"v1"}
(* Index ids whose little-endian bytes differ in the first and the second *)
(* byte; column ids as their (fixed-length) bytes.                        *)
IndexIds == {1, 256}
ColumnIds == {<<0, 1>>, <<255, 255>>}

(* A group of keys: those of category cat of table who (index id for the *)
(* index, index meta and statistics keys).  The catalog keys of every      *)
(* table, an index entry of each index id and a row of every table.        *)
CatalogGroups ==
  {[who |-> n, cat |-> "Column", id |-> 0, keys |-> {EncodeColumnKey(n, x) : x \in ColumnIds}] :
     n \in Tables}
  \cup {[who |-> n, cat |-> "IndexMeta", id |-> i, keys |-> {EncodeIndexMetaKey(n, i)}] :
          n \in Tables, i \in IndexIds}
  \cup {[who |-> n, cat |-> "Statistics", id |-> i, keys |-> {EncodeStatisticsPathKey(n, i)}] :
          n \in Tables, i \in IndexIds}
  \cup {[who |-> n, cat |-> "Index", id |-> i,
         keys |-> {EncodeIndexKey(n, i, "Normal", Int8(0), Int8(1)), EncodeIndexKey(n, i, "Unique", NullV, Int8(1))}] :
          n \in Tables, i \in IndexIds}
  \cup {[who |-> n, cat |-> "Tuple", id |-> 0, keys |-> {EncodeTupleKey(n, Int8(-128))}] : n \in Tables}
  \cup {[who |-> n, cat |-> c, id |-> 0,
         keys |-> {IF c = "Root" THEN EncodeRootTableKey(n) ELSE EncodeTableHashKey(n)}] :
          n \in Tables, c \in {"Root", "Hash"}}
  \cup {[who |-> v, cat |-> "View", id |-> 0, keys |-> {EncodeViewKey(v)}] : v \in Views}

(* The rows and index entries stored for TableName. *)
StoredGroups ==
  { [who |-> TableName, cat |-> "Tuple", id |-> 0, keys |-> {t.key : t \in tuples}],
    [who |-> TableName, cat |-> "Index", id |-> INDEX_ID, keys |-> {e.key : e \in index}] }

(* The ranges the scans read: each category of each table, the whole     *)
(* table (table_bound), each index (index_bound), the tables of the root  *)
(* catalog and the views.                                                  *)
CategoryBound(n, c) ==
  CASE c = "Column" -> ColumnsBound(n)
    [] c = "IndexMeta" -> IndexMetaBound(n)
    [] c = "Statistics" -> StatisticsBound(n)
    [] c = "Index" -> AllIndexBound(n)
    [] c = "Tuple" -> TupleBound(n)
ScanRanges ==
  {[who |-> n, cat |-> c, id |-> 0, b |-> CategoryBound(n, c)] :
     n \in Tables, c \in {"Column", "IndexMeta", "Statistics", "Index", "Tuple"}}
  \cup {[who |-> n, cat |-> "Table", id |-> 0, b |-> TableBound(n)] : n \in Tables}
  \cup {[who |-> n, cat |-> "IndexOf", id |-> i, b |-> IndexBound(n, i)] : n \in Tables, i \in IndexIds}
  \cup {[who |-> "", cat |-> "Root", id |-> 0, b |-> RootTableBound],
        [who |-> "", cat |-> "View", id |-> 0, b |-> ViewBound]}

(* The keys a range is meant to hold. *)
Covers(r, g) ==
  CASE r.cat = "Table" -> r.who = g.who /\ g.cat \in {"Column", "IndexMeta"}
    [] r.cat = "IndexOf" -> r.who = g.who /\ g.cat = "Index" /\ g.id = r.id
    [] r.cat \in {"Root", "View"} -> g.cat = r.cat
    [] OTHER -> r.who = g.who /\ r.cat = g.cat

Isolated(groups) ==
  \A g \in groups, r \in ScanRanges : \A k \in g.keys : InBound(k, r.b) <=> Covers(r, g)

CatalogIsolated == Isolated(CatalogGroups)

(* Spec 4.1, one ordered byte namespace: every scan between the bounds of *)
(* a *_bound function reads exactly the keys of its own category and      *)
(* table (table_bound: the column and index-meta keys; index_bound: one   *)
(* index's entries), whatever key_prefix and the encode_*_key functions   *)
(* put after the hash, for the stored rows and index entries as well as   *)
(* the catalog keys.                                                       *)
KeySpaceIsolation == CatalogIsolated /\ Isolated(StoredGroups)

(* Spec 8.1 for DECIMAL keys: serialize_decimal's bytes (decimal_e_m's     *)
(* base-100 exponent and significand, complemented for negatives) sort as  *)
(* the decimals do, and two decimals get the same bytes exactly when they  *)
(* are equal (1.0 and 1.00 are one key).                                   *)
DecimalKeyOrder ==
  probe.kind = "decimal" =>
    LET x == probe.v IN
    \A y \in DecimalKeys :
      /\ BytesLt(DecimalBytes[x], DecimalBytes[y]) <=> ValueLt(x, y)
      /\ DecimalBytes[x] = DecimalBytes[y] <=> ValueEq(x, y)

(* Spec 8.1 for FLOAT and DOUBLE keys: the Float32 and Float64 arms of  *)
(* memcomparable_encode (the sign bit set when f.0 >= 0.0, every bit      *)
(* flipped otherwise) give bytes that sort as OrderedFloat orders the     *)
(* values, and equal bytes exactly to equal values: -0.0 and 0.0 are one  *)
(* key, and subnormals, infinities and the largest finite values keep     *)
(* their places.                                                           *)
FloatKeyOrder ==
  probe.kind = "float" =>
    LET x == probe.v IN
    \A y \in FloatKeys :
      y.ty = x.ty =>
        /\ BytesLt(EncodeFloat(<<>>, x), EncodeFloat(<<>>, y)) <=> FloatLt(x, y)
        /\ EncodeFloat(<<>>, x) = EncodeFloat(<<>>, y) <=> FloatEq(x, y)

(* DataValue::cast from Null, Boolean and every integer variant, to every *)
(* type its arm names: an integer target gets the same number or the      *)
(* TryFromInt error, never another number (each narrowing arm uses        *)
(* try_from, not `as`); Boolean takes 0 and 1 only; Float gets the nearest *)
(* f32 (`as f32` rounds past 2^24), Double the number; Decimal and the    *)
(* strings are TooLong exactly when the digits or characters exceed the   *)
(* length, by varchar_cast! or check_len; NULL casts to NULL; and the     *)
(* remaining targets are CastFail, as is Boolean to Decimal.               *)
CastExact ==
  probe.kind = "cast" =>
    \A x \in CastSources(probe.v), to \in CastTargets :
      LET r == CastValue(x, to)
          n == IF x.ty = "Boolean" THEN (IF x.v THEN 1 ELSE 0) ELSE x.v
          str == IF x.ty = "Boolean" THEN BoolString(x.v) ELSE IntString(n)
          digits == Len(IntString(IF n < 0 THEN -n ELSE n))
      IN CASE x.ty = "Null" \/ to.t = "SqlNull" -> r = NullVal
           [] to.t \in IntTypes ->
                r = IF n \in TypeMin[to.t]..TypeMax[to.t] THEN Val(Variant[to.t], n)
                    ELSE CastError("TryFromInt")
           [] to.t = "Boolean" ->
                r = IF n \in {0, 1} THEN Val("Boolean", n = 1) ELSE CastError("CastFail")
           [] to.t = "Float" -> r = Val("Float32", NearestF32(n))
           [] to.t = "Double" -> r = Val("Float64", n)
           [] to.t = "Decimal" /\ x.ty # "Boolean" ->
                r = IF to.len >= 0 /\ n # 0 /\ digits > to.len THEN CastError("TooLong")
                    ELSE Val("Decimal", n)
           [] to.t \in {"Char", "Varchar"} ->
                r = IF to.len >= 0 /\ Len(str) > to.len THEN CastError("TooLong")
                    ELSE [ty |-> "Utf8", v |-> str, fixed |-> to.t = "Char"]
           [] OTHER -> r = CastError("CastFail")

(* A TIME(p) value written from a string and read back as a string (the  *)
(* Utf8 -> Time32 cast, pack, then unpack and format_time) is the time of *)
(* the string truncated to p fraction digits (whole seconds at TIME(0)):  *)
(* the fraction's bits and the seconds' bits of pack's layout neither     *)
(* overlap nor overflow the u32.  A string the cast does not take is      *)
(* refused by the parser, never by pack's assertions.                     *)
TimeCastRoundTrip ==
  probe.kind = "time" =>
    LET s == probe.v[1]
        p == probe.v[2]
        x == CastUtf8ToTime(s, p)
    IN /\ x.ty = "Err" => x.e = "Parse"
       /\ x.ty = "Time32" =>
            CastTimeToVarchar(x) =
              [ty |-> "Time", secs |-> s.secs,
               nanos |-> IF p = 0 THEN 0 ELSE (s.nanos \div Scale(p)) * Scale(p)]

(* Spec 8.1 and design note 9 for TIME(p) keys: Time32 values of one       *)
(* precision compare (partial_cmp) and encode (encode_u! of the packed    *)
(* u32) in the order of the times, seconds first.                          *)
TimeKeyOrder ==
  probe.kind = "time" =>
    LET s == probe.v[1]
        p == probe.v[2]
        x == CastUtf8ToTime(s, p)
        Trunc(t) == <<t.secs, IF p = 0 THEN 0 ELSE (t.nanos \div Scale(p)) * Scale(p)>>
    IN \A t \in TimeInputs :
         LET y == CastUtf8ToTime(t, p)
         IN x.ty = "Time32" /\ y.ty = "Time32" =>
              (Time32Lt(x, y) <=> (Trunc(s)[1] < Trunc(t)[1] \/
                                   (Trunc(s)[1] = Trunc(t)[1] /\ Trunc(s)[2] < Trunc(t)[2])))
================================================================================
