--------------------------- MODULE RangeDetacher ---------------------------
(***************************************************************************)
(* RangeDetacher::detach (src/src/expression/range_detacher.rs) over       *)
(* filters on a column c1, possibly mixed with a second column c2.         *)
(*                                                                         *)
(* detach is compositional: the range of Binary{op, l, r} depends only on  *)
(* the ranges of l and r (merge_binary when both exist, check_or when one  *)
(* exists).  The model therefore builds a filter one connective at a time: *)
(* the variable pred holds the filter built so far as its truth set (the   *)
(* assignments of <<c1, c2>> for which SQL evaluates it to TRUE) and the   *)
(* Option<Range> that detach returns for it.  Each step joins pred with a  *)
(* subterm, on the left or on the right, by AND or OR; subterms are leaves *)
(* and connectives of two leaves.                                          *)
(***************************************************************************)
EXTENDS RangeAlgebra, FiniteSets

CONSTANTS
  Lits,       \* integer literals (parsed as Int32) and NULL in the filter
  FloatLits,  \* Float64 literals of the filter, as twice their value
  ColType,    \* the column's LogicalType: "Integer" or "Tinyint"
  C2Vals,     \* values the second column c2 can take
  CmpOps,     \* comparison operators of the filter
  MaxLeaves,  \* bound on the number of leaves of a filter
  IsNullOps,  \* whether the filter may use IS NULL / IS NOT NULL
  Connectives,\* the connectives of the filter, a subset of {"And", "Or"}
  Wrappers    \* expressions around a leaf that detach passes through

ASSUME Lits \subseteq Values /\ C2Vals # {}
ASSUME FloatLits \subseteq Int /\ ColType \in {"Integer", "Tinyint"}
ASSUME CmpOps \subseteq {"Gt", "Lt", "GtEq", "LtEq", "Eq", "Spaceship", "NotEq"}
ASSUME MaxLeaves \in Nat \ {0} /\ IsNullOps \in BOOLEAN
ASSUME Connectives \subseteq {"And", "Or"} /\ Connectives # {}
ASSUME Wrappers \subseteq {"TypeCast", "Not", "IsNull", "IsNotNull"}

VARIABLES
  pred,    \* [truth, falsity, range, err] of the filter built so far
  leaves   \* number of leaves of that filter

vars == <<pred, leaves>>

Assignments == Values \X C2Vals

(* The operator swap of new_range when the literal is on the left. *)
FlipOp(op) ==
  CASE op = "Gt" -> "Lt" [] op = "Lt" -> "Gt"
    [] op = "GtEq" -> "LtEq" [] op = "LtEq" -> "GtEq"
    [] OTHER -> op

(* A literal: its LogicalType and its value; a Float64 value is kept as  *)
(* twice the float, so that x.5 is exact.                                 *)
Literal(k) == IF k = Null THEN [ty |-> "SqlNull", v |-> Null] ELSE [ty |-> "Integer", v |-> k]
FloatLiteral(x2) == [ty |-> "Double", v |-> x2]

(* The result of DataValue::cast: Ok(value) or an Err.                    *)
Ok(v) == [ok |-> TRUE, v |-> v]
CastErr == [ok |-> FALSE, v |-> Null]

IntMax == [t \in {"Integer", "Tinyint"} |-> IF t = "Tinyint" THEN 127 ELSE 2147483647]
IntMin == [t \in {"Integer", "Tinyint"} |-> IF t = "Tinyint" THEN -128 ELSE -2147483647 - 1]

(* The Int32 arm of cast to an integer type: widening is .into(), and    *)
(* narrowing is try_from, an Err outside the target's range.              *)
CastInt32(v, to) ==
  IF v \in IntMin[to]..IntMax[to] THEN Ok(v) ELSE CastErr

(* float_to_int!(x, to, f64) for x = x2 / 2: NaN is 0 (no literal is NaN), *)
(* x <= 0.0 and x > MAX are OverFlow, and `as` truncates the rest.        *)
FloatToInt(x2, to) ==
  IF x2 <= 0 \/ (x2 - 1) \div 2 >= IntMax[to] THEN CastErr ELSE Ok(x2 \div 2)

(* DataValue::cast of a literal to the column's type: Null stays Null.   *)
Cast(lit, to) ==
  CASE lit.ty = "SqlNull" -> Ok(Null)
    [] lit.ty = "Integer" -> CastInt32(lit.v, to)
    [] OTHER              -> FloatToInt(lit.v, to)

(* An Err of detach: the Result that `?` returns from new_range. *)
ErrRange == [tag |-> "Err", min |-> Unbounded, max |-> Unbounded, rs |-> <<>>]

IsFailed(r) == IsPanic(r) \/ r.tag = "Err"

(* RangeDetacher::new_range for `c1 op lit` (isFlip = FALSE) or          *)
(* `lit op c1` (isFlip = TRUE): the literal is cast to the column's type  *)
(* when its type differs, then the operator is flipped.                   *)
NewRange(op, lit, isFlip) ==
  LET c == IF lit.ty = ColType THEN Ok(lit.v) ELSE Cast(lit, ColType)
      o == IF isFlip THEN FlipOp(op) ELSE op
      val == c.v
  IN CASE ~c.ok -> ErrRange
       [] o = "Gt"   -> Scope(Excluded(val), Unbounded)
       [] o = "Lt"   -> Scope(Unbounded, Excluded(val))
       [] o = "GtEq" -> Scope(Included(val), Unbounded)
       [] o = "LtEq" -> Scope(Unbounded, Included(val))
       [] o \in {"Eq", "Spaceship"} -> Eq(val)
       [] OTHER      -> NoRange

(* SQL evaluation of `x op y` to TRUE: a comparison with NULL is NULL,     *)
(* except the null-safe <=>.                                               *)
SqlTrue(op, x, y) ==
  CASE op = "Spaceship"       -> x = y
    [] x = Null \/ y = Null   -> FALSE
    [] op = "Gt"   -> x > y
    [] op = "Lt"   -> x < y
    [] op = "GtEq" -> x >= y
    [] op = "LtEq" -> x <= y
    [] op = "Eq"   -> x = y
    [] OTHER       -> x # y

(* SQL evaluation of `x op y` to FALSE (not NULL). *)
SqlFalse(op, x, y) ==
  CASE op = "Spaceship"       -> x # y
    [] x = Null \/ y = Null   -> FALSE
    [] OTHER                  -> ~SqlTrue(op, x, y)

(* A filter: the assignments for which it is TRUE and those for which it *)
(* is FALSE (it is NULL for the others), the Result<Option<Range>> detach *)
(* returns for it, and whether a literal in it cannot be cast to the      *)
(* column's type.                                                          *)
Term(t, f, r, e) == [truth |-> t, falsity |-> f, range |-> r, err |-> e]

(* Values in halves, so that integers and Float64 literals compare exactly. *)
Twice(v) == IF v = Null THEN Null ELSE 2 * v
Halves(lit) == IF lit.ty = "Double" THEN lit.v ELSE Twice(lit.v)

(* The literals of the filter: Int32 and NULL, and Float64. *)
AllLits == { Literal(k) : k \in Lits } \cup { FloatLiteral(x2) : x2 \in FloatLits }

(* The filters detach treats as leaves: `c1 op lit` and `lit op c1`. *)
ColumnLeaves ==
  { Term({a \in Assignments : IF f THEN SqlTrue(op, Halves(lit), Twice(a[1]))
                                   ELSE SqlTrue(op, Twice(a[1]), Halves(lit))},
         {a \in Assignments : IF f THEN SqlFalse(op, Halves(lit), Twice(a[1]))
                                   ELSE SqlFalse(op, Twice(a[1]), Halves(lit))},
         NewRange(op, lit, f), ~Cast(lit, ColType).ok) : op \in CmpOps, lit \in AllLits, f \in BOOLEAN }

(* c1 IS NULL and c1 IS NOT NULL: the IsNull arm of detach. *)
IsNullLeaves ==
  { Term({a \in Assignments : a[1] = Null}, {a \in Assignments : a[1] # Null}, Eq(Null), FALSE),
    Term({a \in Assignments : a[1] # Null}, {a \in Assignments : a[1] = Null}, NoRange, FALSE) }

(* `c2 op k` and `c1 op c2`: new_range refuses another column, and two    *)
(* columns are not a (column, value) pair; both detach to None.            *)
OtherLeaves ==
  { Term({a \in Assignments : SqlTrue(op, a[2], k)}, {a \in Assignments : SqlFalse(op, a[2], k)},
         NoRange, FALSE) : op \in CmpOps, k \in Lits }
  \cup { Term({a \in Assignments : SqlTrue(op, a[1], a[2])}, {a \in Assignments : SqlFalse(op, a[1], a[2])},
              NoRange, FALSE) : op \in CmpOps }

BareLeaves == ColumnLeaves \cup (IF IsNullOps THEN IsNullLeaves ELSE {}) \cup
              (IF C2Vals = {Null} THEN {} ELSE OtherLeaves)

(* The arms of detach that return detach(expr) of the expression inside:  *)
(* TypeCast, Unary (NOT) and IsNull over anything but a column, whatever  *)
(* `negated` says.  The truth of the wrapped filter is SQL's.              *)
Wrap(w, x) ==
  LET unknown == Assignments \ (x.truth \cup x.falsity)
  IN CASE w = "TypeCast" -> x
       [] w = "Not"      -> Term(x.falsity, x.truth, x.range, x.err)
       [] w = "IsNull"   -> Term(unknown, x.truth \cup x.falsity, x.range, x.err)
       [] OTHER          -> Term(x.truth \cup x.falsity, unknown, x.range, x.err)

Leaves == BareLeaves \cup { Wrap(w, x) : w \in Wrappers, x \in BareLeaves }

(* RangeDetacher::check_or: one side's range alone bounds an AND, never *)
(* an OR (`c1 > c2 or c1 > 1`).                                            *)
CheckOr(op, binary) == IF op = "Or" THEN NoRange ELSE binary

(* The Binary arm of detach for op in {And, Or}: the left operand is      *)
(* detached first, and `?` returns its Err (a panic aborts) before the    *)
(* right one is; then merge_binary when both sides have a range,         *)
(* check_or when only one has.                                            *)
Detach(op, l, r) ==
  CASE IsFailed(l) -> l
    [] IsFailed(r) -> r
    [] l.tag # "None" /\ r.tag # "None" -> MergeBinary(op, l, r)
    [] l.tag = "None" /\ r.tag = "None" -> NoRange
    [] l.tag # "None"                   -> CheckOr(op, l)
    [] OTHER                            -> CheckOr(op, r)

Connect(op, x, y) ==
  Term(IF op = "And" THEN x.truth \cap y.truth ELSE x.truth \cup y.truth,
       IF op = "And" THEN x.falsity \cup y.falsity ELSE x.falsity \cap y.falsity,
       Detach(op, x.range, y.range), x.err \/ y.err)

(* Subterms[n]: the subterms of n leaves. *)
Subterms ==
  [n \in {1, 2} |->
     IF n = 1 THEN Leaves
     ELSE { Connect(op, x, y) : op \in Connectives, x \in Leaves, y \in Leaves }]

----------------------------------------------------------------------------
Init ==
  /\ pred \in Leaves
  /\ leaves = 1

(* Binary{op, pred, s}: the subterm is the right operand. *)
ConnectRight(op, n, s) ==
  /\ leaves + n <= MaxLeaves
  /\ pred' = Connect(op, pred, s)
  /\ leaves' = leaves + n

(* Binary{op, s, pred}: the subterm is the left operand. *)
ConnectLeft(op, n, s) ==
  /\ leaves + n <= MaxLeaves
  /\ pred' = Connect(op, s, pred)
  /\ leaves' = leaves + n

Next ==
  \E op \in Connectives, n \in {1, 2} : \E s \in Subterms[n] :
    ConnectRight(op, n, s) \/ ConnectLeft(op, n, s)

Spec == Init /\ [][Next]_vars

----------------------------------------------------------------------------
(* Spec 8.5/8.6 and 4.3: detach never returns a range narrower than the   *)
(* filter.  Every value of c1 for which the filter is TRUE (for some c2)  *)
(* lies in the range the index scan is bounded by.                        *)
DetachSound ==
  ~IsFailed(pred.range) /\ pred.range.tag # "None" =>
    \A a \in pred.truth : InRange(a[1], pred.range)

(* Spec 8.4: a SortedRanges that detach returns has at least two          *)
(* elements, each a non-empty Scope or Eq, strictly increasing and        *)
(* pairwise disjoint.                                                     *)
DetachNormalForm == NormalForm(pred.range)

(* extract_merge_ranges never reaches its unreachable!() arm, which      *)
(* panics the planner in a debug build.                                   *)
NoUnreachable == pred.range.tag # "Unreachable"

(* detach terminates: no chain of merge_binary / extract_merge_ranges     *)
(* calls recurses without end and overflows the planner's stack.          *)
NoOverflow == pred.range.tag # "Overflow"
=============================================================================
