---------------------------- MODULE NestedLoopJoin ----------------------------
(***************************************************************************)
(* The coroutine of NestedLoopJoin::execute                                *)
(* (src/src/execution/dql/join/nested_loop_join.rs) as a state machine.   *)
(* Each action is the code from one resume of a child coroutine to the     *)
(* next: pulling the next outer tuple, probing one inner tuple, the        *)
(* no-match emission after the inner loop, and the final scan of the      *)
(* inner input that a Full join makes for its unmatched inner rows.       *)
(*                                                                         *)
(* The inputs, the join type and the join condition's outcomes are those   *)
(* of JoinSpec.  From() swaps the inputs of a RightOuter join, so the     *)
(* executor's outer input is the right one; Outer and Inner below are the  *)
(* inputs as the executor sees them.                                       *)
(***************************************************************************)
EXTENDS Naturals, Sequences, FiniteSets

CONSTANTS Null, LW, RW, MaxRows, MinLeft, Items, Outcomes, JoinTypes

VARIABLES
  ty, left, right, cond,   \* the join and its inputs, as in JoinSpec
  out,         \* the tuples yielded so far (Ok ones)
  pc,          \* where the coroutine is suspended
  li,          \* 1-based index of the current outer tuple
  ri,          \* 1-based index of the next inner tuple of the current scan
  rightIdx,    \* right_idx: 0-based index of the inner tuple being probed
  hasMatched,  \* has_matched for the current outer tuple
  bitmap,      \* Option<FixedBitSet>: [some, bits], bits the matched inner indices
  firstMatches \* first_matches: inner indices matched before the bitmap exists

(* The state the executor stops in, as the abstract status of a producer. *)
Status(p) == CASE p = "done" -> "done" [] p = "error" -> "error" [] OTHER -> "running"

J == INSTANCE JoinSpec WITH status <- Status(pc)

LeftRow(i)  == J!LeftRow(i)
RightRow(j) == J!RightRow(j)
NullRow(w)  == J!NullRow(w)

NoBitmap == [some |-> FALSE, bits |-> {}]
Bitmap(s) == [some |-> TRUE, bits |-> s]

vars == <<ty, left, right, cond, out,
          pc, li, ri, rightIdx, hasMatched, bitmap, firstMatches>>

PCs == {"outer", "inner", "nomatch", "fullmerge", "fullscan", "done", "error", "panic"}

(* From<(JoinOperator, LogicalPlan, LogicalPlan)>: the RightOuter swap. *)
Swapped == ty = "RightOuter"
Outer == IF Swapped THEN right ELSE left
Inner == IF Swapped THEN left ELSE right
OuterRow(i) == IF Swapped THEN RightRow(i) ELSE LeftRow(i)
InnerRow(j) == IF Swapped THEN LeftRow(j) ELSE RightRow(j)
(* eq_cond.equals and the filter on (outer i, inner j): both see the pair   *)
(* in the declared orientation, since keys and the merged tuple are        *)
(* swapped back.                                                           *)
Outcome(i, j) == IF Swapped THEN cond[<<j, i>>] ELSE cond[<<i, j>>]
(* right_schema_len: the width of eq_cond.right_schema, after the swap. *)
RightSchemaLen == IF Swapped THEN LW ELSE RW

(* NestedLoopJoin::emit_tuple; an empty row is not yielded. *)
EmitTuple(lt, rt, t, isMatched) ==
  LET values ==
        CASE t \in {"Inner", "Cross", "LeftSemi"} /\ ~isMatched -> <<>>
          [] t \in {"LeftOuter", "Full"} /\ ~isMatched -> lt \o NullRow(Len(rt))
          [] t = "RightOuter" /\ ~isMatched -> NullRow(Len(lt)) \o rt
          [] t = "LeftSemi" -> lt
          [] t = "LeftAnti" -> IF isMatched THEN <<>> ELSE lt
          [] OTHER -> lt \o rt
  IN values

(* The matched-tuple emission of the probe: RightOuter puts the inner     *)
(* (declared left) tuple first.                                            *)
MatchedTuple(i, j) ==
  IF Swapped THEN EmitTuple(InnerRow(j), OuterRow(i), ty, TRUE)
             ELSE EmitTuple(OuterRow(i), InnerRow(j), ty, TRUE)

Emit(t) == out' = IF t = <<>> THEN out ELSE Append(out, t)

Init ==
  /\ pc = "outer"
  /\ J!JInit
  /\ li = 1 /\ ri = 1 /\ rightIdx = 0
  /\ hasMatched = FALSE
  /\ bitmap = NoBitmap
  /\ firstMatches = {}

(* The outer while-let: resume left_coroutine.  Completion leaves the loop; *)
(* an Err is re-yielded by throw! and ends the coroutine; a tuple starts a *)
(* fresh inner scan.                                                        *)
NextOuter ==
  /\ pc = "outer"
  /\ IF li > Len(Outer)
     THEN /\ pc' = IF ty = "Full" THEN "fullmerge" ELSE "done"
          /\ UNCHANGED <<ri, rightIdx, hasMatched>>
     ELSE IF Outer[li] = "err"
     THEN /\ pc' = "error"
          /\ UNCHANGED <<ri, rightIdx, hasMatched>>
     ELSE /\ pc' = "inner"
          /\ hasMatched' = FALSE
          /\ ri' = 1 /\ rightIdx' = 0
  /\ UNCHANGED <<ty, left, right, cond, out, li, bitmap, firstMatches>>

(* Mutant of RecordMatch: the index recorded is one past the tuple's. *)
RecordMatchNextIdx(emitted, idx) ==
  /\ bitmap' = IF emitted /\ ty # "LeftSemi" /\ bitmap.some
               THEN Bitmap(bitmap.bits \cup {idx + 1}) ELSE bitmap
  /\ firstMatches' = IF emitted /\ ty = "Full" /\ ~bitmap.some
                     THEN firstMatches \cup {idx + 1} ELSE firstMatches

(* After a yielded tuple (a LeftSemi join has broken out before this):    *)
(* the inner index goes into the bitmap if it exists, else, for a Full    *)
(* join, into first_matches.                                               *)
RecordMatch(emitted, idx) ==
  /\ bitmap' = IF emitted /\ ty # "LeftSemi" /\ bitmap.some
               THEN Bitmap(bitmap.bits \cup {idx}) ELSE bitmap
  /\ firstMatches' = IF emitted /\ ty = "Full" /\ ~bitmap.some
                     THEN firstMatches \cup {idx} ELSE firstMatches

(* One inner tuple: the match on (filter, eq_cond.equals), the yield, the  *)
(* LeftSemi break, the bitmap or first_matches update, the LeftAnti break  *)
(* and right_idx += 1.                                                      *)
ProbeInner ==
  /\ pc = "inner"
  /\ ri <= Len(Inner)
  /\ IF Inner[ri] = "err" \/ Outcome(li, ri) = "error"
     THEN /\ pc' = "error"
          /\ UNCHANGED <<out, ri, rightIdx, hasMatched, bitmap, firstMatches>>
     ELSE LET matched == Outcome(li, ri) = "match"
              t == IF matched THEN MatchedTuple(li, ri) ELSE <<>>
              emitted == t # <<>>
              hm == hasMatched \/ matched
          IN /\ Emit(t)
             /\ hasMatched' = hm
             /\ RecordMatch(emitted, rightIdx)
             /\ IF \/ emitted /\ ty = "LeftSemi"
                   \/ ty = "LeftAnti" /\ hm
                THEN /\ pc' = "nomatch"
                     /\ UNCHANGED <<ri, rightIdx>>
                ELSE /\ pc' = "inner"
                     /\ ri' = ri + 1 /\ rightIdx' = rightIdx + 1
  /\ UNCHANGED <<ty, left, right, cond, li>>

(* The inner coroutine is complete. *)
InnerDone ==
  /\ pc = "inner"
  /\ ri > Len(Inner)
  /\ pc' = "nomatch"
  /\ UNCHANGED <<ty, left, right, cond, out, li, ri, rightIdx, hasMatched,
                 bitmap, firstMatches>>

(* Mutant of NoMatch: the Full join's bitmap is never created. *)
NoMatchWithoutBitmap ==
  /\ pc = "nomatch"
  /\ LET nullRight == NullRow(RightSchemaLen)
         t == CASE ty = "LeftAnti" /\ ~hasMatched -> OuterRow(li)
                [] ty = "RightOuter" /\ ~hasMatched ->
                     EmitTuple(nullRight, OuterRow(li), ty, FALSE)
                [] ty \in {"LeftOuter", "LeftSemi", "Full"} /\ ~hasMatched ->
                     EmitTuple(OuterRow(li), nullRight, ty, FALSE)
                [] OTHER -> <<>>
     IN Emit(t)
  /\ li' = li + 1
  /\ pc' = "outer"
  /\ UNCHANGED <<ty, left, right, cond, ri, rightIdx, hasMatched, bitmap, firstMatches>>

(* After the inner loop: the Full join's bitmap gets its capacity, then the *)
(* "handle no matched tuple case" emission, and the next outer tuple.      *)
NoMatch ==
  /\ pc = "nomatch"
  /\ bitmap' = IF ty = "Full" /\ ~bitmap.some THEN Bitmap({}) ELSE bitmap
  /\ LET nullRight == NullRow(RightSchemaLen)
         t == CASE ty = "LeftAnti" /\ ~hasMatched -> OuterRow(li)
                [] ty = "RightOuter" /\ ~hasMatched ->
                     EmitTuple(nullRight, OuterRow(li), ty, FALSE)
                [] ty \in {"LeftOuter", "LeftSemi", "Full"} /\ ~hasMatched ->
                     EmitTuple(OuterRow(li), nullRight, ty, FALSE)
                [] OTHER -> <<>>
     IN Emit(t)
  /\ li' = li + 1
  /\ pc' = "outer"
  /\ UNCHANGED <<ty, left, right, cond, ri, rightIdx, hasMatched, firstMatches>>

(* Mutant of FullMerge: first_matches is dropped, not merged. *)
FullMergeWithoutFirstMatches ==
  /\ pc = "fullmerge"
  /\ pc' = "fullscan"
  /\ ri' = 1
  /\ UNCHANGED <<ty, left, right, cond, out, li, rightIdx, hasMatched, bitmap,
                 firstMatches>>

(* Full join, after the outer loop: first_matches into the bitmap          *)
(* (bitmap.as_mut().unwrap()), then a fresh scan of the inner input.       *)
FullMerge ==
  /\ pc = "fullmerge"
  /\ IF firstMatches # {} /\ ~bitmap.some
     THEN /\ pc' = "panic"
          /\ UNCHANGED <<bitmap, ri>>
     ELSE /\ bitmap' = IF bitmap.some THEN Bitmap(bitmap.bits \cup firstMatches) ELSE bitmap
          /\ pc' = "fullscan"
          /\ ri' = 1
  /\ UNCHANGED <<ty, left, right, cond, out, li, rightIdx, hasMatched,
                 firstMatches>>

(* One tuple of the final scan: bitmap.as_ref().unwrap().contains(idx);   *)
(* an unmatched tuple is thrown if it is an Err, else emitted behind       *)
(* right_schema_len NULLs.                                                 *)
FullScan ==
  /\ pc = "fullscan"
  /\ IF ri > Len(Inner)
     THEN /\ pc' = "done"
          /\ UNCHANGED <<out, ri>>
     ELSE IF ~bitmap.some
     THEN /\ pc' = "panic"
          /\ UNCHANGED <<out, ri>>
     ELSE IF (ri - 1) \in bitmap.bits
     THEN /\ ri' = ri + 1
          /\ UNCHANGED <<out, pc>>
     ELSE IF Inner[ri] = "err"
     THEN /\ pc' = "error"
          /\ UNCHANGED <<out, ri>>
     ELSE /\ out' = Append(out, NullRow(RightSchemaLen) \o InnerRow(ri))
          /\ ri' = ri + 1
          /\ UNCHANGED pc
  /\ UNCHANGED <<ty, left, right, cond, li, rightIdx, hasMatched, bitmap, firstMatches>>

Next == NextOuter \/ ProbeInner \/ InnerDone \/ NoMatch \/ FullMerge \/ FullScan

(* try_collect resumes the coroutine until it completes. *)
Spec == Init /\ [][Next]_vars /\ WF_vars(Next)
----------------------------------------------------------------------------
TypeOK ==
  /\ pc \in PCs
  /\ li \in 1..(MaxRows + 1) /\ ri \in 1..(MaxRows + 1)
  /\ rightIdx \in 0..MaxRows
  /\ hasMatched \in BOOLEAN
  /\ bitmap \in [some : BOOLEAN, bits : SUBSET (0..(Len(Inner) - 1))]
  /\ firstMatches \subseteq 0..(Len(Inner) - 1)

(* The coroutine never panics: the Full join's unwraps of the bitmap        *)
(* (first_matches merge and the final scan) always find it created.         *)
NoPanic == pc # "panic"

(* The executor implements the join (spec 4.4.1): every tuple it yields is *)
(* a row of the join of its type, none twice, a run that completes has     *)
(* yielded them all, and an Err ends it only where an input or the         *)
(* condition can fail; a consumer that keeps resuming it sees it end.      *)
JoinRefinement == J!JSpec
================================================================================
