------------------------------- MODULE JoinSpec -------------------------------
(***************************************************************************)
(* What a join of two inputs promises (spec 4.4 and 4.4.1), independent   *)
(* of the algorithm: the set of rows the join type defines, produced in    *)
(* any order, each once, unless an input or the join condition fails, in   *)
(* which case the producer stops with an error after some of them.         *)
(*                                                                         *)
(* An input is a sequence of items, "row" or "err" (a child that yields an *)
(* error at that position).  Row i of the left input has the values        *)
(* LeftRow(i), LW columns wide; row j of the right input RightRow(j).      *)
(* cond[<<i, j>>] is the outcome of the join condition on the pair: the    *)
(* equality keys and the filter together accept it ("match"), reject it    *)
(* (false or NULL: "nomatch"), or fail ("error": a key projection error or *)
(* a filter that is not boolean).                                          *)
(***************************************************************************)
EXTENDS Naturals, Sequences, SequencesExt

CONSTANTS
  Null,       \* DataValue::Null
  LW, RW,     \* column counts of the left and the right input
  MaxRows,    \* bound on the length of each input
  MinLeft,    \* least length of the left input
  Items,      \* the items an input can yield: {"row"} or {"row", "err"}
  Outcomes,   \* outcomes of the join condition on one pair
  JoinTypes   \* the join types considered

ASSUME LW \in Nat \ {0} /\ RW \in Nat \ {0} /\ MinLeft \in 0..MaxRows
ASSUME Items \subseteq {"row", "err"} /\ Outcomes \subseteq {"match", "nomatch", "error"}
ASSUME JoinTypes \subseteq
         {"Inner", "LeftOuter", "LeftSemi", "LeftAnti", "RightOuter", "Full", "Cross"}

VARIABLES
  ty,       \* the join type
  left,     \* the left input
  right,    \* the right input
  cond,     \* outcome of the join condition per (left, right) pair
  out,      \* rows produced so far
  status    \* "running", "done" or "error"

jvars == <<ty, left, right, cond, out, status>>

Inputs(min) == UNION { [1..n -> Items] : n \in min..MaxRows }

LeftRow(i)  == [c \in 1..LW |-> <<"l", i>>]
RightRow(j) == [c \in 1..RW |-> <<"r", j>>]
NullRow(w)  == [c \in 1..w |-> Null]

OkLeft  == { i \in DOMAIN left : left[i] = "row" }
OkRight == { j \in DOMAIN right : right[j] = "row" }
Matched(i, j) == cond[<<i, j>>] = "match"
LeftMatched(i)  == \E j \in OkRight : Matched(i, j)
RightMatched(j) == \E i \in OkLeft : Matched(i, j)

(* The rows of the join, by join type. *)
Expected ==
  LET inner == { LeftRow(p[1]) \o RightRow(p[2]) :
                   p \in { q \in OkLeft \X OkRight : Matched(q[1], q[2]) } }
      leftPadded  == { LeftRow(i) \o NullRow(RW) : i \in { k \in OkLeft : ~LeftMatched(k) } }
      rightPadded == { NullRow(LW) \o RightRow(j) : j \in { k \in OkRight : ~RightMatched(k) } }
  IN CASE ty \in {"Inner", "Cross"} -> inner
       [] ty = "LeftOuter"  -> inner \cup leftPadded
       [] ty = "RightOuter" -> inner \cup rightPadded
       [] ty = "Full"       -> inner \cup leftPadded \cup rightPadded
       [] ty = "LeftSemi"   -> { LeftRow(i) : i \in { k \in OkLeft : LeftMatched(k) } }
       [] OTHER             -> { LeftRow(i) : i \in { k \in OkLeft : ~LeftMatched(k) } }

(* Something the join reads can fail. *)
MayFail ==
  \/ \E i \in DOMAIN left : left[i] = "err"
  \/ \E j \in DOMAIN right : right[j] = "err"
  \/ \E i \in OkLeft, j \in OkRight : cond[<<i, j>>] = "error"

JInit ==
  /\ ty \in JoinTypes
  /\ left \in Inputs(MinLeft)
  /\ right \in Inputs(0)
  /\ cond \in [ (DOMAIN left) \X (DOMAIN right) -> Outcomes ]
  /\ out = <<>>
  /\ status = "running"

(* One more row of the result. *)
Produce ==
  /\ status = "running"
  /\ \E r \in Expected \ ToSet(out) : out' = Append(out, r)
  /\ UNCHANGED <<ty, left, right, cond, status>>

(* The whole result has been produced. *)
Complete ==
  /\ status = "running"
  /\ ToSet(out) = Expected
  /\ status' = "done"
  /\ UNCHANGED <<ty, left, right, cond, out>>

(* An input or the condition failed: the error ends the producer. *)
Fail ==
  /\ status = "running"
  /\ MayFail
  /\ status' = "error"
  /\ UNCHANGED <<ty, left, right, cond, out>>

JNext == Produce \/ Complete \/ Fail

(* A consumer that keeps resuming the producer sees it end. *)
JSpec == JInit /\ [][JNext]_jvars /\ WF_jvars(JNext)
================================================================================
