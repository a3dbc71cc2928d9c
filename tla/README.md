# TLA+ models of FnckSQL (KiteSQL)

This directory holds TLA+ models of the parts of the engine under `src/`. Each
module is checked with TLC. `PROJECT.json` lists:
- each component and whether it is modelled;
- the TLC runs and what each one checks;
- the source lines every definition stands for (`map`);
- the mutants that show each passing property can fail;
- the findings and the hazards.

## The system and its parts

| part | source | state / operations | interacts with |
|------|--------|--------------------|----------------|
| DataValue comparison, casts and key encoding | `src/src/types/value.rs` | `partial_cmp`; `cast` of literals (Int32 narrowing, `float_to_int!`, Utf8 → TIME); `pack`/`unpack` of TIME(p); `memcomparable_encode` (sign flip, byte groups, Decimal exponent/significand, Tuple separators and `is_upper`) | range detacher, key codec |
| Table key codec | `src/src/storage/table_codec.rs` | `key_prefix` of every key category; the `encode_*_key` functions; the `*_bound` scan ranges; `check_primary_key` | index scans, create index, catalog |
| Tuple value codec | `src/src/types/tuple.rs` | null bitmap and fields; projection-aware `deserialize_from` | every scan |
| Range algebra and detacher | `src/src/expression/range_detacher.rs` | `detach` walks a filter, `new_range` makes leaves, `merge_binary` / `extract_merge_ranges` combine them, `check_or`, `combining_eqs` builds tuple ranges | pushdown rule, index scans |
| Predicate pushdown | `src/src/optimizer/rule/normalization/pushdown_predicates.rs` | `PushPredicateIntoScan::apply` stores a range on each index of a scan; `PushPredicateThroughJoin::apply` splits a filter between join sides | planner, range detacher, join |
| Nested loop join | `src/src/execution/dql/join/nested_loop_join.rs` | a coroutine that pulls the outer input, rescans the inner one per outer row, tracks matches (Full join: a bitmap) and pads unmatched rows with NULLs | child executors, consumer |
| Create index, projection | `src/src/execution/ddl/create_index.rs`, `src/src/execution/dql/projection.rs` | a producer over a child scan; `Projection::projection` | storage, expressions |

The range detacher matters most for correctness. The Filter stays above the
scan, so a range wider than the filter only costs reads. A range narrower than
the filter silently drops rows from query results. The key codec must keep the
logical order of values in the bytes of the store, and keep the keys of each
category and table inside the bounds that its scans read.

## Modules

### `RangeAlgebra` (pure operators)
`RangeAlgebra` models the values of one integer column with `NULL`.
- `PartialCmp` is `DataValue::partial_cmp`. Its answer `"None"` stands for a
  comparison with exactly one NULL.
- Ranges are records `[tag, min, max, rs]` with tags Scope, Eq, Dummy and
  Sorted. Further tags are outcomes that are not ranges: `None`
  (`Option::None`), `Err` (a `?` error), `Unreachable` (the debug build's
  `unreachable!()`) and `Overflow` (a recursion that does not end).
- One operator per function: `BoundCompared`, `AndScopeMerge`,
  `OrScopeMerge`, `MergeScopeEq`, `MergeEqEq`, `Ranges2Range`,
  `ExtractMergeRanges` and `MergeBinaryAt`. They keep every arm and its order:
  the `unwrap_or` defaults when `bound_compared` answers None, the NULL cases,
  the `return vec![]` of the Dummy arm, and the SortedRanges arm that restarts
  on the inner list.
- The loop of `extract_merge_ranges` is a recursive operator that returns the
  list and the final `*idx`, threaded as the code's `&mut idx` is.
- The code has no recursion bound. The model reports a call nested deeper
  than `MaxDepth = 8` as `Overflow`. Terminating calls on the reachable
  states never nest deeper than 4, so this separates non-termination from
  deep but finite recursion.
- `InRange`, `Before` and `NormalForm` give ranges their meaning for the
  index scan: NULL, encoded as the empty key, sorts first.

### `RangeDetacher` (the detach walk)
`detach` is compositional: the range of `Binary{op, l, r}` depends only on
the ranges of `l` and `r` (`merge_binary` when both exist, `check_or` when
one does). The model builds a filter one connective at a time, so every
filter of up to `MaxLeaves` leaves is reached.
- **State.** `pred` is the filter built so far: `truth` and `falsity`, the
  assignments of `<<c1, c2>>` for which SQL evaluates it to TRUE and to
  FALSE (the rest are NULL); `range`, the `Result<Option<Range>>` of
  `detach`; `err`, whether a literal in it cannot be cast.
- **Leaves.**
  - `c1 op k` and `k op c1` through `NewRange`: the literal is cast to the
    column's type (`ColType`, INTEGER or TINYINT) when the types differ
    (`CastInt32`, `FloatToInt` for `float_to_int!`), then the operator is
    flipped. A failed cast is `Err`.
  - `IS NULL` gives Eq(NULL); `IS NOT NULL` gives None; comparisons on `c2`
    give None.
  - `Wrappers` are the arms that `detach` passes through to their operand:
    `TypeCast`, `Not` (Unary), and `IsNull`/`IsNotNull` of a non-column.
    `Wrap` changes the truth and falsity sets as SQL does and keeps the range,
    as the code does.
- **Actions.** `ConnectRight(op, n, s)` and `ConnectLeft(op, n, s)` are the
  Binary arm with `pred` as the left or the right operand. The left operand
  is detached first, so its `Err` (or a panic) wins.
- `MCRangeDetacher` gives the Float64 literal sets.

Properties:
- `DetachSound` (spec 4.3, 8.5, 8.6): every c1 value of a row the filter
  accepts lies in the returned range.
- `DetachNormalForm` (spec 8.4), `NoUnreachable` and `NoOverflow`: a
  SortedRanges is sorted, disjoint and has at least two elements; the
  `unreachable!()` arm is not reached; detach terminates.

The module has no type invariant: its only state is the filter being built,
and a type check of it would restate the leaf bound of the harness. That a
failed cast fails the whole detach is the `?` of `detach`, kept in `Detach`,
and is not stated as a property of its own.

### `CompositeRange` (ranges of every index of a scan)
`PushPredicateIntoScan::apply` gives each index info of a table scan a range.
It uses the `RangeDetacher` instance `RD` once per column of the index.
- `IndexRangeOf` is the match on the IndexType. A single-column primary key,
  a Unique or a Normal index is detached on its first column (`LiftRange`
  turns the values into DataValues). A primary key of several columns and a
  Composite index go through `composite_range`.
- `ColumnLoop` collects equalities column by column. It stops at the first
  other range or at a column without a range.
- `CombiningEqs` is `Range::combining_eqs`: `build_tree`, enumerated as a
  Cartesian product, and `collect_tuple_range` with `merge_value_on_bound`.
- `EqToScope` turns a prefix equality into the scope of its extensions.
- `PushPredicateIntoScan` skips infos that already have a range.

`IntoScanSound` says that for every IndexType, the encoded index key of every
accepted row lies inside the range that `apply` gave. `IndexRowKey` is the
single value for a single-column index and the Tuple otherwise. `CompositeSound`
states the same for `composite_range` alone. The bounds are compared as
encoded keys, so `is_upper`, the separators and the NULL encoding all matter.

### `NestedLoopJoin`, `JoinSpec` and `PushdownJoin` (joins)
`JoinSpec` is the abstract specification of a join producer.
- It holds the inputs (each item a row or a child error), the outcome of the
  condition on every pair (match, no match, error), the rows yielded and a
  status.
- `Expected` is the multiset of rows each join type defines (Inner,
  LeftOuter, LeftSemi, LeftAnti, RightOuter, Full, Cross).
- `Produce` yields one expected row; `Complete` ends once all are out; `Fail`
  stops with an error, allowed only when something can fail (`MayFail`).

`NestedLoopJoin` is the coroutine of `NestedLoopJoin::execute`. Each action
runs from one resume of a child coroutine to the next: `NextOuter`,
`ProbeInner` (records the match in `bitmap` or `first_matches`, breaks early
for Semi and Anti), `InnerDone`, `NoMatch` (the padded row), and `FullMerge`
and `FullScan`, the final pass of a Full join. `From()`'s RightOuter swap is
kept. `JoinRefinement == J!JSpec` is checked as a temporal property through
`INSTANCE JoinSpec WITH status <- Status(pc)`. `NoPanic` says the missing
bitmap is never unwrapped.

`PushdownJoin` is `PushPredicateThroughJoin::apply`. A conjunct is abstracted
to the sides it references and the row pairs it accepts.
`SplitConjunctive`, `Partition` (the three `is_subset_cols` filters) and
`ReduceFilters` are the code's helpers. Full and Cross joins are left alone;
LeftOuter, Semi and Anti push only the left filters, and RightOuter only the
right ones. `PushdownPreserves` compares the rewritten plan with the original
through `JoinSpec!Expected`: the filtered join equals the join of the
filtered inputs under the remaining filter. It is checked in the join's run
(`MCNestedLoopJoin` extends both).

### `KeyCodec`, `TimeCodec`, `FloatCodec`, `NumericCast`, `TupleCodec`, `KeySpace` and `TableCodec` (values and storage)
`KeyCodec` is `memcomparable_encode` for Int8, Utf8, Decimal, Null and Tuple.
- `EncodeI8` flips the sign bit. `EncodeBytes` writes groups of 8 bytes, each
  followed by a marker, after `realloc_bytes`.
- `SerializeDecimal` and `DecimalEM` are `serialize_decimal` and
  `decimal_e_m`. A decimal is its sign, digits and scale, so 22-digit
  mantissas fit TLC's integers.
- Tuple elements are separated by `BOUND_MIN_TAG`, or `BOUND_MAX_TAG` after a
  NULL or the last element of an `is_upper` tuple.
- `ValueLt`/`ValueEq` are the reference order; `BytesLt` is the store's.

`TimeCodec` is Time32: `Pack`/`Unpack` over the 32 bits of the u32 (TLC's
integers stop at 2^31 - 1), the `FracShift` layout per precision, the
`Utf8 → Time(p)` and `Time → Varchar` casts, and `Time → Time`, which
relabels the bits.

`FloatCodec` is Float32 and Float64. A float is its IEEE-754 bit pattern
(`to_bits`), built by `FloatV` from a sign, an exponent and leading mantissa
bits, so the 64-bit patterns need no integer above 2^31.
- `FloatEq` and `FloatLt` are `OrderedFloat`'s `eq` and `partial_cmp`, which
  `DataValue::eq` and `partial_cmp` call. NaN equals NaN and is greater than
  everything else, and -0.0 equals 0.0.
- `FloatKeyBits` is the Float arm of `memcomparable_encode`. When
  `f.0 >= 0.0` it sets the top bit, and otherwise it flips every bit.
  `ToBeBytes` is `encode_u!`'s `to_be_bytes`.

`NumericCast` is `DataValue::cast` from Null, Boolean and the eight integer
variants, to every type those arms name, followed by `check_len`.
- A value is its variant and number. A target is its LogicalType name, with
  the length of a Char or Varchar and the precision of a Decimal.
- `TryTargets` says, per integer arm, which integer targets use `try_from`
  (`TryFrom`). The others are `.into()` or the value itself.
- `RoundF32` is `value as f32` in the four arms that use it.
  `IntString`/`BoolString` are `to_string`. `VarcharCast` is
  `varchar_cast!`, and `NumericToBoolean` is `numeric_to_boolean!`.
- Numbers stay below 2^31 in magnitude (TLC's integers). So the boundaries
  of the 8- and 16-bit types are checked, and those of the 32- and 64-bit
  types are not.

`TupleCodec` is `Tuple::serialize_to` and `deserialize_from`: the null
bitmap, then `to_raw` of each non-null field. The reader walks columns and
projection with the code's two counters and skips unprojected columns with
`from_raw`.

`KeySpace` is `key_prefix` and the key encoders and bounds of every category
(Column, IndexMeta, Index, Statistics, Tuple, Root, View, Hash). `TableHash`,
the SipHash of a name, is a constant function chosen in `MCTableCodec` so
that hashes share prefixes with each other and with the reserved words.

`TableCodec` is one table on the key-value store.
- **State.** `tuples` (row entries), `index` (index entries), `phase` (before
  or after CREATE INDEX), `inserts` and the last error `err`.
- **Actions.** `InsertTuple(row)`: `check_primary_key` (with
  `check_primary_key_type`), the put of the serialised row, and the put of its
  index entry once the index exists. `CreateIndex(ifNotExists)`:
  `DuplicateIndex`, the IF NOT EXISTS no-op, or the loop of
  `CreateIndex::execute_mut` over the stored rows in key order.
- **The store.** The transaction layer is not under `src/`. Its put is
  modelled from the spec as replacing the entry with the same key.
- `MCTableCodec` adds a `probe`, chosen at the start and never changed: a
  DECIMAL key, a FLOAT or DOUBLE key, a time string with a precision, or the
  variant whose values `CastExact` casts. The value-codec properties
  are checked on it.

Properties (all in `table_codec`):
- `KeyOrder`: row keys sort like their primary keys; index keys like
  (value, pk), or the value alone for a Unique index.
- `ProjectedRead`: every projection reads back the stored values.
- `IndexScanExact`: an equality scan between the two bound keys finds exactly
  the rows with that value, for rows inserted before and after the index.
- `DecimalKeyOrder`: decimal keys encode in value order, and equal decimals
  (1.0, 1.00) encode to equal bytes.
- `FloatKeyOrder`: FLOAT and DOUBLE keys encode in `OrderedFloat` order,
  and two floats get equal bytes exactly when they are equal (-0.0 and 0.0).
- `CastExact`: each cast from NULL, BOOLEAN or an integer is checked against
  a reference of its own. An integer target gets the same number or a
  TryFromInt error, never a wrapped one. Boolean takes only 0 and 1. FLOAT
  gets the nearest f32 (2^24 + 1 rounds down, 2^24 + 3 rounds up). Decimal
  and string targets are TooLong exactly when there are too many digits or
  characters. NULL stays NULL, and the other targets are CastFail.
- `KeySpaceIsolation`: every scan range holds exactly the keys of its own
  category and table, for the catalog keys of three tables and a view and for
  the stored rows and index entries.
- `TimeCastRoundTrip`: a time string cast to TIME(p) and read back is the time
  truncated to p digits; a string is refused only by the parser.

## Runs

| run | cfg | expect | what it shows |
|-----|-----|--------|---------------|
| detach_and_only | RangeDetacherAndOnly.cfg | pass | Conjunctions of up to five leaves detach to a range containing every accepted row. The leaves are comparisons with NULL, integer literals or integral Float64 literals, IS [NOT] NULL, and comparisons on c2. The run never builds a SortedRanges, so it checks the AND merges only. |
| detach_touching_and | RangeDetacherTouchingAnd.cfg | violation | `c1 > 1 AND (c1 < 1 OR c1 > 2)` gives Dummy, so the scan reads none of the rows with c1 > 2 (range_detacher.rs:552). |
| detach_float_literal | RangeDetacherFloatLiteral.cfg | violation | `c1 < 1.5` on an INTEGER column gives (-inf, 1): the cast truncates, and the row c1 = 1 is lost (value.rs:281). |
| detach_or_recursion | RangeDetacherOrRecursion.cfg | violation | `c1 >= 2 OR (c1 < 2 OR c1 >= 2)` never terminates (range_detacher.rs:557). |
| table_codec | TableCodecMain.cfg | pass | Inserts before and after CREATE INDEX on a composite index. Keys keep their order, projections read back, and equality scans are exact. DECIMAL keys of both signs, and FLOAT and DOUBLE keys other than NaN, encode in value order. Casts from NULL, BOOLEAN and the integer types are exact or fail. Catalog, row and index keys stay in their scan ranges. TIME(0..4) casts round-trip. |
| table_long_string_key | TableCodecLongKey.cfg | violation | With VARCHAR keys 'a' and 'aaaaaaaa', the row of 'a' gets the greater key: `realloc_bytes` pads to an absolute size (value.rs:896). |
| table_sparse_read | TableCodecSparseRead.cfg | violation | Reading (id, name) from (1, NULL, 'a') returns (1, NULL): `projection_i` advances on an unprojected NULL column (tuple.rs:65). |
| composite_and_null | CompositeRangeAndNull.cfg | pass | Conjunctions of up to three leaves on two columns, with NULL, IS [NOT] NULL and -128, give every index of the scan a range that contains the key of every accepted row. |
| composite_prefix_eq | CompositeRangePrefixEq.cfg | violation | `c1 = 2 OR c1 <= -128` on (c1, c2) keeps `Eq((2))`, a point on a one-column prefix that matches no row (pushdown_predicates.rs:273). |
| nlj_equal_width | NestedLoopJoinEqualWidth.cfg | pass | For every join type, over inputs of up to two rows with child errors and failing conditions, the executor never panics and implements JoinSpec. Every filter of up to two conjuncts pushed through the join gives the same rows. |
| nlj_full_empty_left | NestedLoopJoinFullEmptyLeft.cfg | violation | A Full join with an empty left input unwraps a bitmap that was never created (nested_loop_join.rs:268). |
| nlj_full_padding | NestedLoopJoinFullPadding.cfg | violation | A Full join of a one-column left and a two-column right input pads unmatched right rows with two NULLs (nested_loop_join.rs:270). |

Each property of a passing run has a mutant in `PROJECT.json`: a plausible bug
in a mapped definition that TLC must catch. Examples include an i8 without the
sign flip, a float test of `f.0 > 0.0` instead of `>= 0.0`, a narrowing cast written `as` instead of `try_from`, a reader that does not skip unprojected columns, a multi-column
primary key detached on its first column, `table_bound` ending in the index
category, and an outer join that pushes its right filters like an inner one.

Five more cfgs reproduce disagreements for which no run slot is left. Their
hazards in `PROJECT.json` name them.
- `RangeDetacherUnboundedOr.cfg` (`DetachNormalForm`): `c1 < 1 OR c1 < 1`
  gives `SortedRanges[(-inf,1), (-inf,1)]` (range_detacher.rs:588).
- `RangeDetacherIsNullOf.cfg` (`DetachSound`): `(c1 > 1) IS NULL` detaches to
  the range of `c1 > 1`, which excludes every row it accepts
  (range_detacher.rs:247). Wrappers `{"Not"}` shows the same for NOT.
- `TableCodecTimeOrder.cfg` (`TimeKeyOrder`): TIME(1) values compare and
  encode fraction first, so 00:00:01.5 sorts after 00:00:02 (value.rs:439).
- `TableCodecFloatNaN.cfg` (`FloatKeyOrder`, with `FloatKeys <- FloatKeysNaN`):
  a NaN fails `f.0 >= 0.0` and is complemented. The positive quiet NaN
  encodes as 0x803FFFFF, among the positive subnormals, although
  `OrderedFloat` puts it above +inf (value.rs:920). Spec 8.1 says byte order
  matches the total order, while spec 8.3 tells tests not to rely on NaN
  placement. So the passing run leaves NaN out, and this cfg shows the
  disagreement.
- `TableCodecNullIndex.cfg` (`IndexScanExact` and `KeyOrder`): a NULL in a
  Normal index encodes to nothing, so its entry is the pk alone and sorts
  among the non-null entries; the equality bounds for NULL cover the whole
  index (table_codec.rs:380).

## Bounds, and why they are enough

- **Range detacher.** `Vals = {0..4}` puts a value below and above the
  literals `{1, 2, 3}`, so every bound kind meets every other at a shared
  value, where `bound_compared` breaks ties. Five leaves pass AND chains
  through every merge arm several times. The Float64 literals -1.0, 0.0, 1.0
  and 3.0 reach both the `<= 0.0` OverFlow arm and a successful cast.
- **Composite range.** Values `{-128, 1, 2, 3}` and literals -128 and 2.
  -128's encoding `0x00` equals `BOUND_MIN_TAG` and sits next to NULL's empty
  encoding. Three leaves on two columns reach every `ColumnLoop` exit. All five
  IndexTypes are in one scan.
- **Table codec.** Four inserts from five rows cover a NULL primary key, equal
  index values with different keys, and negative keys. CREATE INDEX may run
  before, between or after them, and twice. Decimals cover base-100 exponents
  from -2 to 11 across the one- and two-byte exponent tags. Times include
  midnight, the last nanosecond of the day and a leap second. Hash bytes share
  seven bytes between two tables, and one table's hash begins next to "Root".
  Floats of both widths and signs cover the zeros, the least and greatest
  subnormals, 1.0, 1.5, 2.0, the greatest finite value and the infinities.
  These are the edges of the exponent and the sign. Casts take the
  edges of the 8- and 16-bit types, 0, 1, 2 and 10, and the first two
  integers an f32 rounds. The targets are every type the arms name, with
  lengths and precisions below and above the strings and digits produced.
- **Nested loop join.** Two rows per input give a first outer row, whose
  matches go to `first_matches`, and a second one, whose matches go to the
  bitmap. They also give inner rows both before and after an early break.
- **Violation runs** use the smallest bounds that reach their counterexample.

## Fairness

- The detach, composite and codec models are safety-only. They have no
  fairness, and their runs set `CHECK_DEADLOCK FALSE`: a filter has finitely
  many leaves, and the workload has a bounded number of statements.
- The join model assumes `WF_vars(Next)`. The consuming `try_collect` resumes
  the coroutine until it finishes, which justifies this. Its final states
  (done, error, panic) are real ends of the coroutine.

## What is not modelled, and why

- The `In`, `Between` and `Alias` arms of `detach` are not modelled, and
  neither is the `merge_schema` / `joins_nullable` bookkeeping of the join
  plan. They build schema records rather than ranges or rows.
- Wide-integer, date and datetime encodings are not modelled. They use the
  same sign flip and byte order as the modelled Int8 keys. Decimal, Time and
  Float, whose layouts are their own, are modelled.
- The cast arms from floats, strings, dates, times (other than Time32) and
  decimals are not modelled. They convert through chrono, rust_decimal and
  the float parser, whose behaviour is outside `src/`.
- `float_to_int!` has edges beyond TLC's integers. A float equal to 2^31,
  2^63 or 2^64 passes the `> MAX as F` test and saturates instead of
  overflowing; this is listed as a hazard (value.rs:277). A NaN becomes 0
  (value.rs:276), but no literal of the detacher model is NaN.
- CREATE INDEX failing part-way is not modelled. The spec's `add_index`
  returns `()`, and rolling back a failed statement belongs to the
  transaction layer outside `src/`. One of them, Utf8 to Date (value.rs:1504),
  unwraps the date parser and panics on a malformed string. It is listed as
  a hazard: checking it needs a DATE column in the detacher and a violation
  run, and no slot is left.
- The TPC-C `order_stat` tool is benchmark code, not engine code. It is not
  modelled.
- The transaction and storage engine (`put`, `scan`, commit) is outside
  `src/`. It is modelled only as a set of entries with distinct keys. The
  bincode-serialised catalog values are not modelled.
- Aggregates and the rest of the planner's implementation rules are not
  modelled. They are straight-line tree rewrites with no interleaving or
  bound worth checking. The macros and the TPC-C tooling are generated code
  and I/O.

## Plan

1. `primary_projection` under a sparse projection (tuple.rs:118). This is a
   hazard with no property yet. A projection without the pk column read with
   `with_pk` in `TableCodec` would reach it.
2. Model the cast arms from strings, with a DATE column in the detacher,
   to reach the `unwrap` of value.rs:1504.
3. Give the five reproducer cfgs runs of their own if run slots allow.
