------------------------------- MODULE KeySpace -------------------------------
(***************************************************************************)
(* The key namespace of TableCodec (src/src/storage/table_codec.rs): the  *)
(* prefix of every key category (key_prefix), the key encoders of the      *)
(* catalog, index and row entries, and the (min, max) bounds the scans of  *)
(* each category iterate between.                                          *)
(*                                                                         *)
(* hash_bytes, the SipHash of a table or view name, is the constant        *)
(* function TableHash from names to 8-byte sequences.  A column id is the  *)
(* sequence of its bytes (column_id.to_bytes()), an index id a u32.        *)
(***************************************************************************)
EXTENDS TupleCodec

CONSTANT TableHash   \* hash_bytes: name -> <<b1, ..., b8>>

ROOT_BYTES == <<82, 111, 111, 116>>    \* b"Root"
VIEW_BYTES == <<86, 105, 101, 119>>    \* b"View"
HASH_BYTES == <<72, 97, 115, 104>>     \* b"Hash"

(* The category tags key_prefix pushes after the table hash. *)
CodecTag == [Column |-> 48, IndexMeta |-> 49, Index |-> 51, Statistics |-> 52, Tuple |-> 56]

(* TableCodec::key_prefix.  Root, View and Hash put a reserved word and    *)
(* BOUND_MIN_TAG before the hash; the Hash arm appends the hash bytes (the *)
(* append empties them) and then extends with the emptied vector, so the   *)
(* hash appears once.                                                      *)
KeyPrefix(ty, name) ==
  CASE ty \in DOMAIN CodecTag -> TableHash[name] \o <<CodecTag[ty]>>
    [] ty = "Root" -> ROOT_BYTES \o <<BOUND_MIN_TAG>> \o TableHash[name]
    [] ty = "View" -> VIEW_BYTES \o <<BOUND_MIN_TAG>> \o TableHash[name]
    [] ty = "Hash" -> HASH_BYTES \o <<BOUND_MIN_TAG>> \o TableHash[name]

(* The op closure of the *_bound functions: the prefix, then the bound id. *)
BoundPair(prefix) == <<prefix \o <<BOUND_MIN_TAG>>, prefix \o <<BOUND_MAX_TAG>>>>

TupleBound(n) == BoundPair(KeyPrefix("Tuple", n))
IndexMetaBound(n) == BoundPair(KeyPrefix("IndexMeta", n))
IndexBound(n, id) == BoundPair(KeyPrefix("Index", n) \o <<BOUND_MIN_TAG>> \o U32LE(id))
AllIndexBound(n) == BoundPair(KeyPrefix("Index", n))
RootTableBound == BoundPair(ROOT_BYTES)
ColumnsBound(n) == BoundPair(KeyPrefix("Column", n))
StatisticsBound(n) == BoundPair(KeyPrefix("Statistics", n))
ViewBound == BoundPair(VIEW_BYTES)

(* Mutant of TableBound: the upper bound is taken in the Index category. *)
TableBoundIndexTag(n) ==
  <<KeyPrefix("Column", n) \o <<BOUND_MIN_TAG>>, KeyPrefix("Index", n) \o <<BOUND_MAX_TAG>>>>

(* TableCodec::table_bound: from the columns to the end of the index metas. *)
TableBound(n) ==
  <<KeyPrefix("Column", n) \o <<BOUND_MIN_TAG>>, KeyPrefix("IndexMeta", n) \o <<BOUND_MAX_TAG>>>>

(* TableCodec::encode_tuple_key, once check_primary_key has passed. *)
EncodeTupleKey(n, pk) == MemcomparableEncode(KeyPrefix("Tuple", n) \o <<BOUND_MIN_TAG>>, pk)

EncodeIndexMetaKey(n, id) == KeyPrefix("IndexMeta", n) \o <<BOUND_MIN_TAG>> \o U32LE(id)

(* Mutant of EncodeIndexBoundKey: the is_upper sentinel is not pushed. *)
EncodeIndexBoundKeyNoSentinel(n, id, value, isUpper) ==
  MemcomparableEncode(KeyPrefix("Index", n) \o <<BOUND_MIN_TAG>> \o U32LE(id) \o <<BOUND_MIN_TAG>>,
                      value)

EncodeIndexBoundKey(n, id, value, isUpper) ==
  MemcomparableEncode(KeyPrefix("Index", n) \o <<BOUND_MIN_TAG>> \o U32LE(id) \o <<BOUND_MIN_TAG>>,
                      value)
    \o (IF isUpper THEN <<BOUND_MAX_TAG>> ELSE <<>>)

(* TableCodec::encode_index_key with Some(tuple_id): a Normal or Composite *)
(* index appends the primary key, so equal values of different rows get   *)
(* distinct keys.                                                          *)
EncodeIndexKey(n, id, ty, value, tupleId) ==
  IF ty \in {"Normal", "Composite"}
  THEN MemcomparableEncode(EncodeIndexBoundKey(n, id, value, FALSE), tupleId)
  ELSE EncodeIndexBoundKey(n, id, value, FALSE)

(* The key of encode_column for a column of table n. *)
EncodeColumnKey(n, colBytes) == KeyPrefix("Column", n) \o <<BOUND_MIN_TAG>> \o colBytes

EncodeStatisticsPathKey(n, id) == KeyPrefix("Statistics", n) \o <<BOUND_MIN_TAG>> \o U32LE(id)

EncodeViewKey(v) == KeyPrefix("View", v)

EncodeRootTableKey(n) == KeyPrefix("Root", n)

EncodeTableHashKey(n) == KeyPrefix("Hash", n)

(* A scan between the bounds (min, max) reads the keys min <= k < max. *)
InBound(k, b) == ~BytesLt(k, b[1]) /\ BytesLt(k, b[2])
================================================================================
