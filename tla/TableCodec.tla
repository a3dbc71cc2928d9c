------------------------------ MODULE TableCodec ------------------------------
(***************************************************************************)
(* One table on the ordered key-value store, through TableCodec           *)
(* (src/src/storage/table_codec.rs) and the CreateIndex executor          *)
(* (src/src/execution/ddl/create_index.rs).                                *)
(*                                                                         *)
(* A row is stored under encode_tuple_key(pk) with the bytes of           *)
(* Tuple::serialize_to; an index entry under encode_index_key(value, pk). *)
(* CREATE INDEX scans the stored rows and adds one entry per row; rows    *)
(* inserted after it also get their entry.  Reads decode a stored row     *)
(* with a projection.  The store itself (put, scan, the duplicate-key      *)
(* check) is the transaction layer, which is not under src/: it is        *)
(* modelled from the spec as a set of entries with distinct keys.  The    *)
(* keys themselves come from KeySpace.                                     *)
(***************************************************************************)
EXTENDS KeySpace, FiniteSets, SequencesExt

CONSTANTS
  Types,        \* the table's column types, "Tinyint" or "Varchar"
  PkIndices,    \* 0-based indices of the primary-key columns
  IndexCols,    \* 0-based indices of the indexed columns
  IndexTy,      \* IndexType of the index: "Unique", "Normal" or "Composite"
  Rows,         \* rows the workload may insert (sequences of values)
  Projections,  \* column projections that reads use (sorted 0-based indices)
  ScanValues,   \* values that index scans look up
  MaxRows,      \* bound on the number of inserts
  TableName     \* the table's name (TableHash gives its hash)

ASSUME IndexTy \in {"Unique", "Normal", "Composite"} /\ MaxRows \in Nat /\ IndexCols # <<>>

VARIABLES
  tuples,    \* the row entries: [key, bytes, row, pk] (row: what was inserted)
  index,     \* the index entries: [key, value, pk]
  phase,     \* "none" before CREATE INDEX, "built" after it
  inserts,   \* number of inserts so far
  err        \* the error the last statement returned, or "None"

vars == <<tuples, index, phase, inserts, err>>

INDEX_ID == 1

(* TableCodec::check_primary_key_type: the integer and string types. *)
CheckPrimaryKeyType(ty) ==
  IF ty \in {"Tinyint", "Smallint", "Integer", "Bigint", "UTinyint", "USmallint",
             "UInteger", "UBigint", "Char", "Varchar"}
  THEN "Ok" ELSE "InvalidType"

(* TableCodec::check_primary_key ("Ok" or the error); `?` returns the     *)
(* first element's error.                                                  *)
RECURSIVE CheckPrimaryKey(_, _)
CheckPrimaryKey(v, indentation) ==
  CASE indentation > 1   -> "PrimaryKeyTooManyLayers"
    [] IsNullValue(v)    -> "NotNull"
    [] v.ty = "Tuple"    ->
         LET errs == [i \in 1..Len(v.v) |-> CheckPrimaryKey(v.v[i], indentation + 1)]
             bad == {i \in 1..Len(v.v) : errs[i] # "Ok"}
         IN IF bad = {} THEN "Ok" ELSE errs[Min(bad)]
    [] OTHER             -> CheckPrimaryKeyType(LogicalTypeOf(v))

(* The table's index entry key and scan bound keys. *)
IndexKey(value, tupleId) == EncodeIndexKey(TableName, INDEX_ID, IndexTy, value, tupleId)
IndexBoundKey(value, isUpper) == EncodeIndexBoundKey(TableName, INDEX_ID, value, isUpper)

(* DataValue::values_to_tuple *)
ValuesToTuple(vals) == IF Len(vals) > 1 THEN TupleV(vals, FALSE) ELSE vals[1]

(* Projection::projection: the values of column references (0-based). *)
Projection(row, cols) == [j \in 1..Len(cols) |-> row[cols[j] + 1]]

(* The index value of a row: its index columns, a Tuple when several. *)
IndexValue(row) == ValuesToTuple(Projection(row, IndexCols))

FullProjection == [j \in 1..Len(Types) |-> j - 1]

(* The transaction's put: an entry replaces the one with the same key. *)
Put(entries, e) == {x \in entries : x.key # e.key} \cup {e}

(* The loop of CreateIndex::execute_mut over the rows the scan yields, in *)
(* key order: decode with the pk, project the index columns, add_index.   *)
RECURSIVE AddIndexes(_, _)
AddIndexes(idx, scan) ==
  IF scan = <<>> THEN idx
  ELSE LET t == DeserializeFrom(Types, PkIndices, FullProjection, Head(scan).bytes, TRUE)
           value == IndexValue(t.values)
       IN AddIndexes(Put(idx, [key |-> IndexKey(value, t.pk), value |-> value,
                               pk |-> t.pk]), Tail(scan))

Init ==
  /\ tuples = {}
  /\ index = {}
  /\ phase = "none"
  /\ inserts = 0
  /\ err = "None"

(* An INSERT of one row: TableCodec::encode_tuple (the primary key must   *)
(* pass check_primary_key), the put of the row, and, once the index       *)
(* exists, the put of its entry.  The workload inserts fresh keys.        *)
InsertTuple(row) ==
  LET pk == PrimaryProjection(PkIndices, row)
      chk == CheckPrimaryKey(pk, 0)
  IN /\ inserts < MaxRows
     /\ inserts' = inserts + 1
     /\ IF chk # "Ok"
        THEN /\ err' = chk
             /\ UNCHANGED <<tuples, index, phase>>
        ELSE LET key == EncodeTupleKey(TableName, pk)
             IN /\ \A t \in tuples : t.key # key
                /\ tuples' = tuples \cup {[key |-> key, bytes |-> SerializeTo(row),
                                           row |-> row, pk |-> pk]}
                /\ index' = IF phase = "built"
                            THEN Put(index, [key |-> IndexKey(IndexValue(row), pk),
                                             value |-> IndexValue(row), pk |-> pk])
                            ELSE index
                /\ err' = "None"
                /\ UNCHANGED phase

(* CREATE INDEX: add_index_meta fails with DuplicateIndex when the index  *)
(* exists (success with no rows under IF NOT EXISTS); otherwise every     *)
(* stored row gets its entry.                                              *)
CreateIndex(ifNotExists) ==
  /\ IF phase = "built"
     THEN /\ err' = IF ifNotExists THEN "None" ELSE "DuplicateIndex"
          /\ UNCHANGED <<index, phase>>
     ELSE /\ index' = AddIndexes(index,
                                 SetToSortSeq(tuples, LAMBDA a, b : BytesLt(a.key, b.key)))
          /\ phase' = "built"
          /\ err' = "None"
  /\ UNCHANGED <<tuples, inserts>>

Next ==
  \/ \E row \in Rows : InsertTuple(row)
  \/ \E ine \in BOOLEAN : CreateIndex(ine)

Spec == Init /\ [][Next]_vars
----------------------------------------------------------------------------
(* An equality scan of the index: the entries from the lower bound key    *)
(* (inclusive) to the upper one (exclusive), as encode_index_bound_key     *)
(* builds them for Eq(value).                                              *)
Scan(v) == { e.pk : e \in { x \in index : ~BytesLt(x.key, IndexBoundKey(v, FALSE))
                                          /\ BytesLt(x.key, IndexBoundKey(v, TRUE)) } }

Bytes == Seq(0..255)

TypeOK ==
  /\ \A t \in tuples : t.key \in Bytes /\ t.bytes \in Bytes
  /\ \A e \in index : e.key \in Bytes
  /\ phase \in {"none", "built"}
  /\ inserts \in 0..MaxRows
  /\ err \in {"None", "NotNull", "PrimaryKeyTooManyLayers", "InvalidType", "DuplicateIndex"}

(* Spec 8.1 on the store: the byte order of the row keys is the order of  *)
(* their primary keys, and that of the index entries the order of (value, *)
(* primary key) (of the value alone for a Unique index), so range scans of *)
(* memcomparable_encode'd keys return rows in key order.                   *)
KeyOrder ==
  /\ \A a, b \in tuples : BytesLt(a.key, b.key) <=> ValueLt(a.pk, b.pk)
  /\ \A e, f \in index :
       BytesLt(e.key, f.key) <=>
         \/ ValueLt(e.value, f.value)
         \/ ValueEq(e.value, f.value) /\ IndexTy # "Unique" /\ ValueLt(e.pk, f.pk)

(* Tuple::deserialize_from of the bytes serialize_to stored gives back the *)
(* row's values at every projection the readers use.                      *)
ProjectedRead ==
  \A t \in tuples, P \in Projections :
    LET got == DeserializeFrom(Types, PkIndices, P, t.bytes, FALSE).values
    IN \A j \in 1..Len(P) : ValueEq(got[j], t.row[P[j] + 1])

(* Once CREATE INDEX has run, an equality scan of the index between the   *)
(* bound keys finds exactly the primary keys of the stored rows with that *)
(* index value, whether the row was there before the index or came later. *)
IndexScanExact ==
  phase = "built" =>
    \A v \in ScanValues : Scan(v) = { t.pk : t \in { u \in tuples : ValueEq(IndexValue(u.row), v) } }
================================================================================
