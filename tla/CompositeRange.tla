--------------------------- MODULE CompositeRange ---------------------------
(***************************************************************************)
(* The range of a composite index on (c1, c2): PushPredicateIntoScan::     *)
(* composite_range (src/src/optimizer/rule/normalization/                 *)
(* pushdown_predicates.rs) detaches the filter once per index column and  *)
(* lifts the per-column ranges to ranges of Tuple values with              *)
(* Range::combining_eqs (src/src/expression/range_detacher.rs).           *)
(*                                                                         *)
(* As in RangeDetacher, the filter is built one connective at a time; the *)
(* variable pred holds its truth set over the assignments of <<c1, c2>>   *)
(* and the range detach returns for each index column.  A Tuple bound     *)
(* bounds the index keys, which are memcomparable_encode'd tuples         *)
(* (KeyCodec): that is where is_upper and the NULL encoding matter.       *)
(***************************************************************************)
EXTENDS RangeAlgebra, KeyCodec, FiniteSets

CONSTANTS
  Lits,        \* literals that appear in the filter (values of Values)
  CmpOps,      \* comparison operators of the filter
  MaxLeaves,   \* bound on the number of leaves of a filter
  IsNullOps,   \* whether the filter may use IS NULL / IS NOT NULL
  Connectives  \* the connectives of the filter, a subset of {"And", "Or"}

VARIABLES
  pred,    \* [truth, r]: r[i] is detach's range for index column i
  leaves   \* number of leaves of that filter

vars == <<pred, leaves>>

(* The single-column detach of RangeDetacher, for each index column. *)
RD == INSTANCE RangeDetacher WITH C2Vals <- Values, FloatLits <- {}, ColType <- "Tinyint", Wrappers <- {},
                                  pred <- pred, leaves <- leaves

IndexColumns == 1..2

Assignments == Values \X Values

(* The DataValue an integer or Null of the column is. *)
DV(v) == IF v = Null THEN NullV ELSE Int8(v)

DVs(s) == [k \in DOMAIN s |-> DV(s[k])]

----------------------------------------------------------------------------
(* Range::only_eq *)
RECURSIVE OnlyEq(_)
OnlyEq(r) ==
  \/ r.tag = "Eq"
  \/ r.tag = "Sorted" /\ \A k \in DOMAIN r.rs : OnlyEq(r.rs[k])

(* The equality values of an only-eq range, in list order. *)
EqValues(r) == IF r.tag = "Eq" THEN <<EqVal(r)>> ELSE [k \in DOMAIN r.rs |-> EqVal(r.rs[k])]

(* build_tree and TreeNode::enumeration: the Cartesian product of the     *)
(* equalities of eqs[i..], level by level in list order.                  *)
RECURSIVE Combinations(_, _)
Combinations(eqs, i) ==
  IF i > Len(eqs) THEN << <<>> >>
  ELSE LET vs == EqValues(eqs[i])
           rest == Combinations(eqs, i + 1)
       IN FoldLeft(LAMBDA acc, v : acc \o [k \in DOMAIN rest |-> <<v>> \o rest[k]],
                   <<>>, vs)

(* combining_eqs::merge_value: the prefix tuple extended by one value. *)
MergeValue(tuple, isUpper, v) == TupleV(tuple \o <<DV(v)>>, isUpper)

(* Mutant of MergeValueOnBound: an unbounded side lifts to a prefix bound *)
(* that is never the upper one.                                            *)
MergeValueOnBoundLower(tuple, isUpper, b) ==
  CASE b.kind = "Inc" -> Included(MergeValue(tuple, isUpper, b.val))
    [] b.kind = "Exc" -> Excluded(MergeValue(tuple, isUpper, b.val))
    [] tuple = <<>>   -> Unbounded
    [] OTHER          -> Excluded(TupleV(tuple, FALSE))

(* collect_tuple_range::merge_value_on_bound *)
MergeValueOnBound(tuple, isUpper, b) ==
  CASE b.kind = "Inc" -> Included(MergeValue(tuple, isUpper, b.val))
    [] b.kind = "Exc" -> Excluded(MergeValue(tuple, isUpper, b.val))
    [] tuple = <<>>   -> Unbounded
    [] OTHER          -> Excluded(TupleV(tuple, isUpper))

(* combining_eqs::collect_tuple_range: the ranges r lifts to under one    *)
(* prefix tuple.                                                           *)
RECURSIVE CollectTupleRange(_, _)
CollectTupleRange(tuple, r) ==
  CASE r.tag = "Scope" -> << Scope(MergeValueOnBound(tuple, FALSE, r.min),
                                   MergeValueOnBound(tuple, TRUE, r.max)) >>
    [] r.tag = "Eq"    -> << Eq(MergeValue(tuple, FALSE, EqVal(r))) >>
    [] r.tag = "Dummy" -> << Dummy >>
    [] OTHER           -> FoldLeft(LAMBDA acc, e : acc \o CollectTupleRange(tuple, e),
                                   <<>>, r.rs)

(* Range::combining_eqs *)
CombiningEqs(r, eqs) ==
  LET combos == Combinations(eqs, 1)
  IN Ranges2Range(FoldLeft(LAMBDA acc, c : acc \o CollectTupleRange(DVs(c), r), <<>>, combos))

(* composite_range::eq_to_scope: an equality on a prefix of the index     *)
(* columns becomes the scope of all its extensions.                        *)
RECURSIVE EqToScope(_)
EqToScope(r) ==
  CASE r.tag = "Eq" /\ EqVal(r).ty = "Tuple" ->
         Scope(Excluded(TupleV(EqVal(r).v, FALSE)), Excluded(TupleV(EqVal(r).v, TRUE)))
    [] r.tag = "Sorted" -> SortedRanges([k \in DOMAIN r.rs |-> EqToScope(r.rs[k])])
    [] OTHER -> r

(* The loop of composite_range over the index columns: equalities are     *)
(* collected, the first other range is lifted over them, a column without *)
(* a range ends the loop.                                                  *)
RECURSIVE ColumnLoop(_, _, _, _)
ColumnLoop(ranges, i, eqs, count) ==
  CASE i > Len(ranges) \/ ranges[i].tag = "None" ->
         [res |-> NoRange, eqs |-> eqs, count |-> count]
    [] OnlyEq(ranges[i]) -> ColumnLoop(ranges, i + 1, Append(eqs, ranges[i]), count + 1)
    [] OTHER -> [res |-> CombiningEqs(ranges[i], eqs), eqs |-> eqs, count |-> count + 1]

(* PushPredicateIntoScan::composite_range *)
CompositeRangeOf(ranges) ==
  LET l == ColumnLoop(ranges, 1, <<>>, 0)
      res == IF l.res.tag = "None" /\ l.eqs # <<>>
             THEN CombiningEqs(l.eqs[Len(l.eqs)], SubSeq(l.eqs, 1, Len(l.eqs) - 1))
             ELSE l.res
  IN IF res.tag # "None" /\ OnlyEq(res) /\ l.count # Len(ranges) THEN EqToScope(res) ELSE res

(* The IndexType of an index info: a single-column primary key, Unique   *)
(* and Normal are on c1; a primary key of several columns and Composite   *)
(* on (c1, c2).                                                            *)
SingleColumnTypes == {"PrimaryKey", "Unique", "Normal"}
IndexTypes == SingleColumnTypes \cup {"MultiplePrimaryKey", "Composite"}

(* A single-column range with its values as the DataValues detach holds. *)
LiftBound(b) == IF b.kind = "Unb" THEN b ELSE [b EXCEPT !.val = DV(b.val)]

RECURSIVE LiftRange(_)
LiftRange(r) ==
  [r EXCEPT !.min = LiftBound(@), !.max = LiftBound(@),
            !.rs = [k \in DOMAIN r.rs |-> LiftRange(r.rs[k])]]

(* Mutant of IndexRangeOf: a primary key of several columns is detached   *)
(* on its first column only.                                               *)
IndexRangeOfMultipleAsSingle(ty, ranges) ==
  IF ty \in SingleColumnTypes \cup {"MultiplePrimaryKey"} THEN LiftRange(ranges[1]) ELSE CompositeRangeOf(ranges)

(* The match on meta.ty in PushPredicateIntoScan::apply: detach on        *)
(* column_ids[0], or composite_range.                                      *)
IndexRangeOf(ty, ranges) ==
  IF ty \in SingleColumnTypes THEN LiftRange(ranges[1]) ELSE CompositeRangeOf(ranges)

(* PushPredicateIntoScan::apply over the index infos of the table scan    *)
(* under the filter: an info that already has a range is skipped.         *)
PushPredicateIntoScan(infos, ranges) ==
  [k \in DOMAIN infos |->
     IF infos[k].range.tag # "None" THEN infos[k]
     ELSE [infos[k] EXCEPT !.range = IndexRangeOf(infos[k].ty, ranges)]]

----------------------------------------------------------------------------
Term(t, r) == [truth |-> t, r |-> r]

(* The range of one leaf for index column c, and NoRange for the other.  *)
OnColumn(c, r) == [i \in IndexColumns |-> IF i = c THEN r ELSE NoRange]

(* `ci op k` and `k op ci`: new_range for column ci, None for the other. *)
ColumnLeaves ==
  { Term({a \in Assignments : IF f THEN RD!SqlTrue(op, k, a[c]) ELSE RD!SqlTrue(op, a[c], k)},
         OnColumn(c, RD!NewRange(op, RD!Literal(k), f))) :
      c \in IndexColumns, op \in CmpOps, k \in Lits, f \in BOOLEAN }

(* ci IS NULL and ci IS NOT NULL. *)
IsNullLeaves ==
  UNION { { Term({a \in Assignments : a[c] = Null}, OnColumn(c, Eq(Null))),
            Term({a \in Assignments : a[c] # Null}, OnColumn(c, NoRange)) } : c \in IndexColumns }

Leaves == ColumnLeaves \cup (IF IsNullOps THEN IsNullLeaves ELSE {})

Connect(op, x, y) ==
  Term(IF op = "And" THEN x.truth \cap y.truth ELSE x.truth \cup y.truth,
       [i \in IndexColumns |-> RD!Detach(op, x.r[i], y.r[i])])

Subterms ==
  [n \in {1, 2} |->
     IF n = 1 THEN Leaves
     ELSE { Connect(op, x, y) : op \in Connectives, x \in Leaves, y \in Leaves }]

Init ==
  /\ pred \in Leaves
  /\ leaves = 1

(* Binary{op, pred, s} *)
ConnectRight(op, n, s) ==
  /\ leaves + n <= MaxLeaves
  /\ pred' = Connect(op, pred, s)
  /\ leaves' = leaves + n

(* Binary{op, s, pred} *)
ConnectLeft(op, n, s) ==
  /\ leaves + n <= MaxLeaves
  /\ pred' = Connect(op, s, pred)
  /\ leaves' = leaves + n

Next ==
  \E op \in Connectives, n \in {1, 2} : \E s \in Subterms[n] :
    ConnectRight(op, n, s) \/ ConnectLeft(op, n, s)

Spec == Init /\ [][Next]_vars

----------------------------------------------------------------------------
(* Index keys: the memcomparable encoding of the row's (c1, c2) tuple and *)
(* of a bound's Tuple value.                                               *)
Enc(v) == MemcomparableEncode(<<>>, v)

RowKey(a) == Enc(TupleV(<<DV(a[1]), DV(a[2])>>, FALSE))

KeyAboveMin(k, b) ==
  \/ b.kind = "Unb"
  \/ b.kind = "Inc" /\ ~BytesLt(k, Enc(b.val))
  \/ b.kind = "Exc" /\ BytesLt(Enc(b.val), k)

KeyBelowMax(k, b) ==
  \/ b.kind = "Unb"
  \/ b.kind = "Inc" /\ ~BytesLt(Enc(b.val), k)
  \/ b.kind = "Exc" /\ BytesLt(k, Enc(b.val))

InKeyRange(k, r) ==
  CASE r.tag \in {"Scope", "Eq"} -> KeyAboveMin(k, r.min) /\ KeyBelowMax(k, r.max)
    [] r.tag = "Sorted" -> \E i \in DOMAIN r.rs :
                              KeyAboveMin(k, r.rs[i].min) /\ KeyBelowMax(k, r.rs[i].max)
    [] r.tag = "Dummy"  -> FALSE
    [] OTHER            -> TRUE

(* The key of a row in an index of type ty: its c1 value, or its         *)
(* (c1, c2) tuple.                                                         *)
IndexRowKey(ty, a) == IF ty \in SingleColumnTypes THEN Enc(DV(a[1])) ELSE RowKey(a)

(* The index infos of the scan: one of each type, without a range. *)
ScanInfos == [t \in IndexTypes |-> [ty |-> t, range |-> NoRange]]

Detached == \A i \in IndexColumns : ~RD!IsFailed(pred.r[i])

(* Spec 4.3 (composite combination) and 8.2: the tuple range the index    *)
(* scan of a composite index is bounded by contains the key of every row  *)
(* for which the filter is TRUE; a prefix equality, an unbounded side and *)
(* a NULL all rely on is_upper and the separators of the Tuple encoding.  *)
CompositeSound ==
  LET R == CompositeRangeOf(pred.r)
  IN Detached /\ R.tag # "None" => \A a \in pred.truth : InKeyRange(RowKey(a), R)

(* Spec 4.3 for every index of the scanned table: after                  *)
(* PushPredicateIntoScan::apply each index info's range, detached on the  *)
(* index's first column or combined over its columns by composite_range  *)
(* according to its IndexType, contains the index key of every row the   *)
(* filter accepts, so the index scan loses no row.                        *)
IntoScanSound ==
  LET infos == PushPredicateIntoScan(ScanInfos, pred.r)
  IN Detached =>
       \A t \in IndexTypes :
         infos[t].range.tag # "None" => \A a \in pred.truth : InKeyRange(IndexRowKey(t, a), infos[t].range)
================================================================================
