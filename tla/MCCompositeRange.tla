-------------------------- MODULE MCCompositeRange --------------------------
(***************************************************************************)
(* Column values for CompositeRange: the least TINYINT, whose key byte is *)
(* 0x00 like the separator after a NULL, and small positive values.       *)
(***************************************************************************)
EXTENDS CompositeRange

I8Min == -128
MainVals == {I8Min, 1, 2, 3}
MainLits == {I8Min, 2}
NullLits == {Null, I8Min, 2}
================================================================================
