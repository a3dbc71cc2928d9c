-------------------------- MODULE MCRangeDetacher --------------------------
(***************************************************************************)
(* Float64 literals for RangeDetacher, as twice their value: -1.0 and 0.0, *)
(* which float_to_int! refuses, and 1.0 and 3.0, which it casts exactly;  *)
(* and 1.5, which it truncates.                                            *)
(***************************************************************************)
EXTENDS RangeDetacher

IntegralFloatLits == {-2, 0, 2, 6}
HalfFloatLits == {3}
==========================================================================
