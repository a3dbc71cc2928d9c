---------------------------- MODULE PushdownJoin ----------------------------
(***************************************************************************)
(* PushPredicateThroughJoin (src/src/optimizer/rule/normalization/        *)
(* pushdown_predicates.rs): the rewrite of Filter(f) over Join(ty, l, r)   *)
(* that moves the conjuncts of f which reference one side only below the  *)
(* join, as Filters over that input, and keeps the rest above it.          *)
(*                                                                         *)
(* The join, its inputs and its condition are those of JoinSpec.  A       *)
(* conjunct is abstracted to the sides whose columns it references (cols, *)
(* a subset of {"L", "R"}, what referenced_columns and is_subset_cols      *)
(* compare) and the pairs of row identities it accepts (acc): <<i, j>>     *)
(* with 0 for a NULL-padded side, as SQL evaluates it to TRUE.  A filter   *)
(* is a tree of And over conjuncts.                                        *)
(***************************************************************************)
EXTENDS Naturals, Sequences, SequencesExt

CONSTANTS
  Null, LW, RW, MaxRows, MinLeft, Items, Outcomes, JoinTypes,
  Conjuncts   \* the conjuncts filters are built of: [cols, acc]

VARIABLES ty, left, right, cond

(* The join of the rewritten plan: JoinSpec over other inputs. *)
Join(l, r) == INSTANCE JoinSpec WITH left <- l, right <- r, out <- <<>>, status <- "running"

NoFilter == [op |-> "None"]

And(a, b) == [op |-> "And", l |-> a, r |-> b]

(* The filters of one or two conjuncts. *)
Filters == Conjuncts \cup { And(a, b) : a, b \in Conjuncts }

(* split_conjunctive_predicates *)
RECURSIVE SplitConjunctive(_)
SplitConjunctive(e) ==
  IF e.op = "And" THEN SplitConjunctive(e.l) \o SplitConjunctive(e.r) ELSE <<e>>

(* reduce_filters: a left-deep And of the conjuncts, None when empty. *)
ReduceFilters(fs) ==
  IF fs = <<>> THEN NoFilter ELSE FoldLeft(And, Head(fs), Tail(fs))

(* is_subset_cols over the columns each child of the join outputs. *)
IsSubsetCols(cols, side) == cols \subseteq {side}

(* The partitions of apply: the conjuncts over the left child's columns, *)
(* then, of the rest, those over the right child's, then the common ones. *)
Partition(f) ==
  LET exprs == SplitConjunctive(f)
      rest  == SelectSeq(exprs, LAMBDA e : ~IsSubsetCols(e.cols, "L"))
  IN [lf |-> SelectSeq(exprs, LAMBDA e : IsSubsetCols(e.cols, "L")),
      rf |-> SelectSeq(rest, LAMBDA e : IsSubsetCols(e.cols, "R")),
      cf |-> SelectSeq(rest, LAMBDA e : ~IsSubsetCols(e.cols, "R"))]

(* Mutant of PushPredicateThroughJoin: the right filters of a LeftOuter   *)
(* join are pushed below it as for an Inner join.                          *)
PushPredicateThroughJoinOuterAsInner(f) ==
  LET p == Partition(f) IN
  CASE ty \notin {"Inner", "LeftOuter", "LeftSemi", "LeftAnti", "RightOuter"} ->
         [left |-> NoFilter, right |-> NoFilter, common |-> f]
    [] ty \in {"Inner", "LeftOuter"} ->
         [left |-> ReduceFilters(p.lf), right |-> ReduceFilters(p.rf), common |-> ReduceFilters(p.cf)]
    [] ty \in {"LeftSemi", "LeftAnti"} ->
         [left |-> ReduceFilters(p.lf), right |-> NoFilter, common |-> ReduceFilters(p.cf \o p.rf)]
    [] OTHER ->
         [left |-> NoFilter, right |-> ReduceFilters(p.rf), common |-> ReduceFilters(p.cf \o p.lf)]

(* PushPredicateThroughJoin::apply: the new Filter below the left child,  *)
(* the one below the right child, and the Filter that replaces f above    *)
(* the join (NoFilter: the node is removed).  Full and Cross joins are    *)
(* left as they are.                                                      *)
PushPredicateThroughJoin(f) ==
  LET p == Partition(f) IN
  CASE ty \notin {"Inner", "LeftOuter", "LeftSemi", "LeftAnti", "RightOuter"} ->
         [left |-> NoFilter, right |-> NoFilter, common |-> f]
    [] ty = "Inner" ->
         [left |-> ReduceFilters(p.lf), right |-> ReduceFilters(p.rf), common |-> ReduceFilters(p.cf)]
    [] ty \in {"LeftOuter", "LeftSemi", "LeftAnti"} ->
         [left |-> ReduceFilters(p.lf), right |-> NoFilter, common |-> ReduceFilters(p.cf \o p.rf)]
    [] OTHER ->
         [left |-> NoFilter, right |-> ReduceFilters(p.rf), common |-> ReduceFilters(p.cf \o p.lf)]

----------------------------------------------------------------------------
(* SQL evaluation of a filter on the row with identities ids. *)
RECURSIVE Holds(_, _)
Holds(e, ids) ==
  CASE e.op = "None" -> TRUE
    [] e.op = "And"  -> Holds(e.l, ids) /\ Holds(e.r, ids)
    [] OTHER         -> ids \in e.acc

(* The identities of a row of the join: 0 for a side padded with NULLs or *)
(* absent from the output (Semi and Anti joins output the left side).     *)
RowIds(row) ==
  << IF row[1] = Null THEN 0 ELSE row[1][2],
     IF Len(row) = LW \/ row[LW + 1] = Null THEN 0 ELSE row[LW + 1][2] >>

(* An input seen through the Filter pushed below it: a row the filter     *)
(* rejects is not yielded ("gone"); an Err is passed on.                  *)
FilterInput(items, e, side) ==
  [k \in DOMAIN items |->
     IF items[k] = "row" /\ ~Holds(e, IF side = "L" THEN <<k, 0>> ELSE <<0, k>>)
     THEN "gone" ELSE items[k]]

(* A filter above a Semi or Anti join can only reference the left side,  *)
(* the join's output.                                                     *)
FiltersFor(t) ==
  IF t \in {"LeftSemi", "LeftAnti"}
  THEN { f \in Filters : \A k \in DOMAIN SplitConjunctive(f) : SplitConjunctive(f)[k].cols \subseteq {"L"} }
  ELSE Filters

(* Spec 4.5: pushing a filter through a join preserves the query's result. *)
(* For every filter of up to two conjuncts, the rows of the rewritten     *)
(* plan (the join of the filtered inputs, under the Filter kept above it) *)
(* are exactly the rows of the join that satisfy the original filter; an  *)
(* outer join's NULL-padded rows are where a wrong push shows.            *)
PushdownPreserves ==
  \A f \in FiltersFor(ty) :
    LET p == PushPredicateThroughJoin(f)
    IN { row \in Join(FilterInput(left, p.left, "L"), FilterInput(right, p.right, "R"))!Expected :
           Holds(p.common, RowIds(row)) }
       = { row \in Join(left, right)!Expected : Holds(f, RowIds(row)) }
================================================================================
