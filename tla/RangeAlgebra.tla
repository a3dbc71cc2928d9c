---------------------------- MODULE RangeAlgebra ----------------------------
(***************************************************************************)
(* The range algebra of src/src/expression/range_detacher.rs: the Range    *)
(* sum type, bound comparison, the AND/OR merge of two ranges and the      *)
(* sorted-list merge it relies on.  These are pure operators over the      *)
(* values of one column: the integers of Vals and the SQL NULL.            *)
(*                                                                         *)
(* A DataValue of the column's type is an integer of Vals or Null.  The    *)
(* code compares values with DataValue::partial_cmp, which answers None    *)
(* when exactly one side is Null; that answer is kept as "None" here.      *)
(***************************************************************************)
EXTENDS Integers, Sequences, SequencesExt

CONSTANTS
  Vals,    \* integer values of the column
  Null,    \* DataValue::Null
  Build,   \* "debug" or "release": the unreachable!() arm of extract_merge_ranges
  MaxDepth \* nesting of extract_merge_ranges calls taken as unbounded recursion

ASSUME Vals \subseteq Int /\ Null \notin Int
ASSUME Build \in {"debug", "release"} /\ MaxDepth \in Nat

Values == Vals \cup {Null}

(* DataValue::partial_cmp on two values of one column. *)
PartialCmp(a, b) ==
  CASE a = Null /\ b = Null -> "Equal"
    [] a = Null \/ b = Null -> "None"
    [] a < b                -> "Less"
    [] a = b                -> "Equal"
    [] OTHER                -> "Greater"

Flip(o) == CASE o = "Less" -> "Greater" [] o = "Greater" -> "Less" [] OTHER -> o

(* Ordering::then *)
Then(o, o2) == IF o = "Equal" THEN o2 ELSE o

----------------------------------------------------------------------------
(* std::ops::Bound and the Range enum.  Every range is a record with the   *)
(* same fields so that ranges of different variants can be compared.       *)
Unbounded   == [kind |-> "Unb", val |-> Null]
Included(v) == [kind |-> "Inc", val |-> v]
Excluded(v) == [kind |-> "Exc", val |-> v]

Scope(mn, mx) == [tag |-> "Scope", min |-> mn, max |-> mx, rs |-> <<>>]
Eq(v)         == [tag |-> "Eq", min |-> Included(v), max |-> Included(v), rs |-> <<>>]
Dummy         == [tag |-> "Dummy", min |-> Unbounded, max |-> Unbounded, rs |-> <<>>]
SortedRanges(s) == [tag |-> "Sorted", min |-> Unbounded, max |-> Unbounded, rs |-> s]
(* Option<Range>::None; the debug-build panic of an unreachable!() arm;    *)
(* the stack overflow of a recursion that does not terminate.             *)
NoRange     == [tag |-> "None", min |-> Unbounded, max |-> Unbounded, rs |-> <<>>]
Unreachable == [tag |-> "Unreachable", min |-> Unbounded, max |-> Unbounded, rs |-> <<>>]
Overflow    == [tag |-> "Overflow", min |-> Unbounded, max |-> Unbounded, rs |-> <<>>]

IsPanic(r) == r.tag \in {"Unreachable", "Overflow"}

EqVal(r) == r.min.val

(* RangeDetacher::bound_compared *)
BoundCompared(l, r, isMin) ==
  LET rev(o) == IF isMin THEN o ELSE Flip(o)
      c == PartialCmp(l.val, r.val)
  IN CASE l.kind = "Unb" /\ r.kind = "Unb" -> "Equal"
       [] l.kind = "Unb" -> rev("Less")
       [] r.kind = "Unb" -> rev("Greater")
       [] c = "None"     -> "None"
       [] l.kind = r.kind -> c
       [] l.kind = "Inc" -> Then(c, rev("Less"))
       [] OTHER          -> Then(c, rev("Greater"))

(* The tail shared by and_scope_merge and or_scope_merge. *)
CollapseScope(mn, mx, c) ==
  CASE c = "Equal" /\ mn.kind = "Inc" -> Eq(mn.val)
    [] c = "Equal" /\ mn.kind = "Exc" -> Dummy
    [] c = "Equal"                    -> Scope(Unbounded, Unbounded)
    [] OTHER                          -> Scope(mn, mx)

(* Mutant of and_scope_merge: a single-point intersection is taken as empty. *)
AndScopeMergeEmptyPoint(lmin, lmax, rmin, rmax) ==
  LET mn == IF BoundCompared(lmin, rmin, TRUE) = "Greater" THEN lmin ELSE rmin
      mx == IF BoundCompared(lmax, rmax, FALSE) = "Less" THEN lmax ELSE rmax
      c  == BoundCompared(mn, mx, mn.kind = "Unb")
  IN IF c \in {"Greater", "Equal"} THEN Dummy ELSE Scope(mn, mx)

(* RangeDetacher::and_scope_merge *)
AndScopeMerge(lmin, lmax, rmin, rmax) ==
  LET mn == IF BoundCompared(lmin, rmin, TRUE) = "Greater" THEN lmin ELSE rmin
      mx == IF BoundCompared(lmax, rmax, FALSE) = "Less" THEN lmax ELSE rmax
      c  == BoundCompared(mn, mx, mn.kind = "Unb")
  IN IF c = "Greater" THEN Dummy ELSE CollapseScope(mn, mx, c)

(* RangeDetacher::or_scope_merge *)
OrScopeMerge(lmin, lmax, rmin, rmax) ==
  IF \/ BoundCompared(lmax, rmin, FALSE) = "Less"
     \/ BoundCompared(rmax, lmin, FALSE) = "Less"
  THEN IF BoundCompared(lmin, rmin, TRUE) = "Less"
       THEN SortedRanges(<<Scope(lmin, lmax), Scope(rmin, rmax)>>)
       ELSE SortedRanges(<<Scope(rmin, rmax), Scope(lmin, lmax)>>)
  ELSE LET mn == IF BoundCompared(lmin, rmin, TRUE) = "Less" THEN lmin ELSE rmin
           mx == IF BoundCompared(lmax, rmax, FALSE) = "Greater" THEN lmax ELSE rmax
       IN CollapseScope(mn, mx, BoundCompared(mn, mx, mn.kind = "Unb"))

(* process_exclude_bound_with_eq inside merge_binary *)
ProcessExcludeBoundWithEq(b, eq, op) ==
  IF b.kind = "Exc" /\ PartialCmp(b.val, eq) = "Equal" /\ op = "Or"
  THEN Included(b.val) ELSE b

(* The (Scope, Eq) arm of merge_binary, in either order. *)
MergeScopeEq(op, mn, mx, eq) ==
  IF op = "And"
  THEN LET c1 == BoundCompared(Included(eq), mn, TRUE)
           isLess == (IF c1 = "None"
                      THEN (IF mn.kind = "Unb" THEN "Greater" ELSE "Less")
                      ELSE c1) = "Less"
       IN IF isLess \/ BoundCompared(Included(eq), mx, FALSE) = "Greater"
          THEN Dummy ELSE Eq(eq)
  ELSE IF eq = Null
       THEN IF mn.kind = "Exc" THEN SortedRanges(<<Eq(eq), Scope(mn, mx)>>)
                               ELSE Scope(mn, mx)
       ELSE CASE BoundCompared(Excluded(eq), mn, TRUE) = "Less" ->
                   SortedRanges(<<Eq(eq), Scope(mn, mx)>>)
              [] BoundCompared(Excluded(eq), mn, TRUE) = "Equal" ->
                   Scope(ProcessExcludeBoundWithEq(mn, eq, op), mx)
              [] BoundCompared(Excluded(eq), mx, FALSE) = "Greater" ->
                   SortedRanges(<<Scope(mn, mx), Eq(eq)>>)
              [] BoundCompared(Excluded(eq), mx, FALSE) = "Equal" ->
                   Scope(mn, ProcessExcludeBoundWithEq(mx, eq, op))
              [] OTHER -> Scope(mn, mx)

(* The (Eq, Eq) arm of merge_binary. *)
MergeEqEq(op, l, r) ==
  CASE PartialCmp(l, r) = "Equal" -> Eq(l)
    [] op = "And"                 -> Dummy
    [] PartialCmp(l, r) = "Greater" -> SortedRanges(<<Eq(r), Eq(l)>>)
    [] OTHER                      -> SortedRanges(<<Eq(l), Eq(r)>>)

(* RangeDetacher::ranges2range *)
Ranges2Range(s) ==
  CASE Len(s) = 0 -> Dummy
    [] Len(s) = 1 -> s[1]
    [] OTHER      -> SortedRanges(s)

----------------------------------------------------------------------------
(***************************************************************************)
(* merge_binary and extract_merge_ranges call each other.                  *)
(* ExtractMergeRanges(op, b, rs, i, d) is the while loop of                 *)
(* extract_merge_ranges with binary = b and *idx = i (0-based), called at  *)
(* nesting depth d; it returns the resulting list and the final value of   *)
(* *idx, which the fold over two SortedRanges threads from one left range  *)
(* to the next.  A call nested deeper than MaxDepth is a recursion that    *)
(* does not end: the thread overflows its stack.                           *)
(* A panic is carried up as a one-element list holding it.                 *)
(***************************************************************************)
RECURSIVE MergeBinaryAt(_, _, _, _), ExtractMergeRanges(_, _, _, _, _),
          FoldSorted(_, _, _, _, _)

Panicked(s) == \E k \in DOMAIN s : IsPanic(s[k])

PanicOf(s) == s[CHOOSE k \in DOMAIN s : IsPanic(s[k])]

ExtractMergeRanges(op, b, rs, i, d) ==
  IF d > MaxDepth THEN [rs |-> <<Overflow>>, idx |-> i]
  ELSE IF IsPanic(b) THEN [rs |-> <<b>>, idx |-> i]
  ELSE IF Panicked(rs) THEN [rs |-> <<PanicOf(rs)>>, idx |-> i]
  ELSE IF b.tag = "None" \/ i >= Len(rs)
  THEN [rs |-> IF b.tag = "None" THEN rs ELSE Append(rs, b), idx |-> i]
  ELSE
  LET cur    == rs[i + 1]
      rest   == RemoveAt(rs, i + 1)
      insert == [rs |-> InsertAt(rs, i + 1, b), idx |-> i]
      skip   == ExtractMergeRanges(op, b, rs, i + 1, d)
      merge  == ExtractMergeRanges(op, MergeBinaryAt(op, b, cur, d), rest, i, d)
  IN
  CASE b.tag = "Scope" /\ cur.tag = "Scope" ->
        (CASE BoundCompared(b.max, cur.min, FALSE) = "Less" -> insert
           [] BoundCompared(b.min, cur.max, TRUE) = "Greater" -> skip
           [] OTHER -> merge)
    [] b.tag = "Scope" /\ cur.tag = "Eq" ->
        (LET c == BoundCompared(b.min, Included(EqVal(cur)), TRUE) IN
         CASE BoundCompared(b.max, Included(EqVal(cur)), FALSE) = "Less" -> insert
           [] (IF c = "None" THEN op = "Or" ELSE c = "Greater") -> skip
           [] EqVal(cur) = Null -> ExtractMergeRanges(op, b, rest, i, d)
           [] OTHER -> merge)
    [] b.tag = "Eq" /\ cur.tag = "Eq" ->
        (CASE PartialCmp(EqVal(b), EqVal(cur)) = "Less" -> insert
           [] PartialCmp(EqVal(b), EqVal(cur)) = "Greater" -> skip
           [] OTHER -> merge)
    [] b.tag = "Eq" /\ cur.tag = "Scope" ->
        (LET c == BoundCompared(Included(EqVal(b)), cur.min, FALSE) IN
         CASE (IF c = "None" THEN op = "Or" ELSE c = "Less") -> insert
           [] BoundCompared(Included(EqVal(b)), cur.max, TRUE) = "Greater" -> skip
           [] EqVal(b) = Null -> ExtractMergeRanges(op, cur, rest, i, d)
           [] OTHER -> merge)
    [] b.tag = "Dummy" ->
         IF op = "And" THEN [rs |-> <<>>, idx |-> i]
                       ELSE ExtractMergeRanges(op, cur, rest, i, d)
    [] b.tag = "Sorted" ->
         [rs |-> ExtractMergeRanges(op, cur, b.rs, 0, d + 1).rs, idx |-> i]
    [] OTHER ->
         [rs |-> IF Build = "debug" THEN <<Unreachable>> ELSE <<>>, idx |-> i]

(* The (SortedRanges, SortedRanges) arm: every left range is merged into   *)
(* the right list, sharing one idx.                                        *)
FoldSorted(op, lefts, rights, i, d) ==
  IF lefts = <<>> THEN rights
  ELSE LET e == ExtractMergeRanges(op, Head(lefts), rights, i, d + 1)
       IN FoldSorted(op, Tail(lefts), e.rs, e.idx, d)

ToRange(s) == IF Panicked(s) THEN PanicOf(s) ELSE Ranges2Range(s)

(* RangeDetacher::merge_binary for op in {And, Or}, at nesting depth d. *)
MergeBinaryAt(op, l, r, d) ==
  CASE IsPanic(l) -> l
    [] IsPanic(r) -> r
    [] l.tag = "Dummy" -> IF op = "And" THEN Dummy ELSE r
    [] r.tag = "Dummy" -> IF op = "And" THEN Dummy ELSE l
    [] l.tag = "Scope" /\ r.tag = "Scope" ->
         IF op = "And" THEN AndScopeMerge(l.min, l.max, r.min, r.max)
                       ELSE OrScopeMerge(l.min, l.max, r.min, r.max)
    [] l.tag = "Scope" /\ r.tag = "Eq" -> MergeScopeEq(op, l.min, l.max, EqVal(r))
    [] l.tag = "Eq" /\ r.tag = "Scope" -> MergeScopeEq(op, r.min, r.max, EqVal(l))
    [] l.tag = "Eq" /\ r.tag = "Eq"    -> MergeEqEq(op, EqVal(l), EqVal(r))
    [] l.tag = "Sorted" /\ r.tag = "Sorted" -> ToRange(FoldSorted(op, l.rs, r.rs, 0, d))
    [] r.tag = "Sorted" -> ToRange(ExtractMergeRanges(op, l, r.rs, 0, d + 1).rs)
    [] OTHER            -> ToRange(ExtractMergeRanges(op, r, l.rs, 0, d + 1).rs)

MergeBinary(op, l, r) == MergeBinaryAt(op, l, r, 0)

----------------------------------------------------------------------------
(***************************************************************************)
(* What a range means to the index scan it bounds.  Keys are               *)
(* memory-comparable encodings in which Null (the empty encoding) sorts    *)
(* before every other value, so Null is the least value of the column.     *)
(***************************************************************************)
KeyLt(a, b) == IF a = Null THEN b # Null ELSE b # Null /\ a < b
KeyLe(a, b) == a = b \/ KeyLt(a, b)

AboveMin(v, b) ==
  \/ b.kind = "Unb"
  \/ b.kind = "Inc" /\ KeyLe(b.val, v)
  \/ b.kind = "Exc" /\ KeyLt(b.val, v)

BelowMax(v, b) ==
  \/ b.kind = "Unb"
  \/ b.kind = "Inc" /\ KeyLe(v, b.val)
  \/ b.kind = "Exc" /\ KeyLt(v, b.val)

InRange(v, r) ==
  CASE r.tag \in {"Scope", "Eq"} -> AboveMin(v, r.min) /\ BelowMax(v, r.max)
    [] r.tag = "Sorted" -> \E k \in DOMAIN r.rs :
                              AboveMin(v, r.rs[k].min) /\ BelowMax(v, r.rs[k].max)
    [] r.tag = "Dummy"  -> FALSE
    [] OTHER            -> TRUE

(* An element e lies wholly below f, with no value in common. *)
Before(e, f) ==
  /\ e.max.kind # "Unb" /\ f.min.kind # "Unb"
  /\ IF e.max.kind = "Inc" /\ f.min.kind = "Inc"
     THEN KeyLt(e.max.val, f.min.val)
     ELSE KeyLe(e.max.val, f.min.val)

NonEmpty(e) ==
  \/ e.min.kind = "Unb" \/ e.max.kind = "Unb"
  \/ IF e.min.kind = "Inc" /\ e.max.kind = "Inc"
     THEN KeyLe(e.min.val, e.max.val)
     ELSE KeyLt(e.min.val, e.max.val)

(* Spec invariant 4: the normal form of SortedRanges. *)
NormalForm(r) ==
  r.tag = "Sorted" =>
    /\ Len(r.rs) >= 2
    /\ \A k \in DOMAIN r.rs : r.rs[k].tag \in {"Scope", "Eq"} /\ NonEmpty(r.rs[k])
    /\ \A k \in 1..(Len(r.rs) - 1) : Before(r.rs[k], r.rs[k + 1])
=============================================================================
