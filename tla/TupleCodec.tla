------------------------------ MODULE TupleCodec ------------------------------
(***************************************************************************)
(* The value bytes of a stored row (src/src/types/tuple.rs and the raw     *)
(* codec DataValue::to_raw / from_raw of src/src/types/value.rs): a null   *)
(* bitmap of (n + 8) div 8 bytes, most significant bit first, then the     *)
(* non-null fields in column order.  Modelled for Tinyint (one byte) and   *)
(* Varchar (a u32 little-endian length and the bytes) columns, whose      *)
(* fixed and variable widths are what the projection-aware reader has to  *)
(* skip correctly.  Column indices are 0-based, as in the code.            *)
(***************************************************************************)
EXTENDS KeyCodec

BITS_MAX_INDEX == 8

Bit(i) == 2^(7 - i)

(* serialize_to's flip_bit and deserialize_from's is_none. *)
FlipBit(bits, i) == bits | Bit(i)
IsNone(bits, i) == (bits & Bit(i)) > 0

BitsLen(n) == (n + BITS_MAX_INDEX) \div BITS_MAX_INDEX

U32LE(n) == [k \in 1..4 |-> (n \div 2^(8 * (k - 1))) % 256]
ReadU32LE(bytes, pos) == LET f[k \in 0..4] == IF k = 0 THEN 0 ELSE f[k - 1] + bytes[pos + k] * 2^(8 * (k - 1))
                         IN f[4]

(* Mutant of ToRaw: the i8 is written without its two's-complement wrap. *)
ToRawNoWrap(x) ==
  CASE x.ty = "Int8" -> <<x.v>>
    [] x.ty = "Utf8" -> U32LE(Len(x.v)) \o x.v
    [] OTHER         -> <<>>

(* DataValue::to_raw: write_i8, and a Varchar's length and bytes. *)
ToRaw(x) ==
  CASE x.ty = "Int8" -> <<(x.v + 256) % 256>>
    [] x.ty = "Utf8" -> U32LE(Len(x.v)) \o x.v
    [] OTHER         -> <<>>

(* The loop of Tuple::serialize_to. *)
RECURSIVE SerializeLoop(_, _, _)
SerializeLoop(buf, row, i) ==
  IF i >= Len(row) THEN buf
  ELSE LET x == row[i + 1]
           nb == i \div BITS_MAX_INDEX + 1
       IN IF IsNullValue(x)
          THEN SerializeLoop([buf EXCEPT ![nb] = FlipBit(buf[nb], i % BITS_MAX_INDEX)], row, i + 1)
          ELSE SerializeLoop(buf \o ToRaw(x), row, i + 1)

SerializeTo(row) == SerializeLoop(Zeros(BitsLen(Len(row))), row, 0)

(* Mutant of FromRaw: a column that is not projected is not skipped. *)
FromRawNoSkip(bytes, pos, ty, isProjection) ==
  CASE ty = "Tinyint" ->
         [some |-> isProjection, pos |-> IF isProjection THEN pos + 1 ELSE pos,
          val |-> Int8(IF bytes[pos] >= 128 THEN bytes[pos] - 256 ELSE bytes[pos])]
    [] ty = "Varchar" ->
         LET len == ReadU32LE(bytes, pos - 1)
         IN [some |-> isProjection, pos |-> IF isProjection THEN pos + 4 + len ELSE pos,
             val |-> Utf8(SubSeq(bytes, pos + 4, pos + 3 + len))]

(* DataValue::from_raw from position pos (1-based) of the bytes: the      *)
(* value when the column is projected, else the position past it.         *)
FromRaw(bytes, pos, ty, isProjection) ==
  CASE ty = "Tinyint" ->
         [some |-> isProjection, pos |-> pos + 1,
          val |-> Int8(IF bytes[pos] >= 128 THEN bytes[pos] - 256 ELSE bytes[pos])]
    [] ty = "Varchar" ->
         LET len == ReadU32LE(bytes, pos - 1)
         IN [some |-> isProjection, pos |-> pos + 4 + len,
             val |-> Utf8(SubSeq(bytes, pos + 4, pos + 3 + len))]

(* The loop of Tuple::deserialize_from: col walks the table's columns, pi*)
(* the projections (both 0-based), pos is the reader's cursor.  A null    *)
(* column moves pi on, as does a projected value; a column that is not   *)
(* projected is skipped by from_raw.                                       *)
RECURSIVE DeserializeLoop(_, _, _, _, _, _, _)
DeserializeLoop(types, projections, bytes, values, pi, pos, col) ==
  IF col >= Len(types) \/ Len(projections) <= pi THEN values
  ELSE IF IsNone(bytes[col \div BITS_MAX_INDEX + 1], col % BITS_MAX_INDEX)
  THEN DeserializeLoop(types, projections, bytes, values, pi + 1, pos, col + 1)
  ELSE LET r == FromRaw(bytes, pos, types[col + 1], projections[pi + 1] = col)
       IN IF r.some
          THEN DeserializeLoop(types, projections, bytes,
                               [values EXCEPT ![pi + 1] = r.val], pi + 1, r.pos, col + 1)
          ELSE DeserializeLoop(types, projections, bytes, values, pi, r.pos, col + 1)

(* Tuple::primary_projection over the decoded values (0-based indices). *)
PrimaryProjection(pkIndices, values) ==
  IF Len(pkIndices) > 1
  THEN TupleV([k \in 1..Len(pkIndices) |-> values[pkIndices[k] + 1]], FALSE)
  ELSE values[pkIndices[1] + 1]

(* Tuple::deserialize_from: the projected values, and the primary key    *)
(* (primary_projection of them) when with_pk, else None.                  *)
DeserializeFrom(types, pkIndices, projections, bytes, withPk) ==
  LET decoded == DeserializeLoop(types, projections, bytes,
                                 [j \in 1..Len(projections) |-> NullV],
                                 0, BitsLen(Len(types)) + 1, 0)
  IN [pk |-> IF withPk THEN PrimaryProjection(pkIndices, decoded) ELSE NullV,
      values |-> decoded]
================================================================================
