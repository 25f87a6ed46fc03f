------------------------------ MODULE Offsets -------------------------------
(***************************************************************************)
(* Flattened offsets and the cells of arrays of one, two or three          *)
(* dimensions.  A decomposition map gives every request as an offset and a *)
(* length; the writer in canonical layout (set_starts_counts()) and the    *)
(* replay (set_decomp()) turn it into start and count vectors, each by a   *)
(* formula of its own.                                                     *)
(***************************************************************************)
EXTENDS Integers, Sequences

\* set_starts_counts(): the cell of a flattened offset.
CoordSwapped(off, dims) ==  \* a fault: rows and columns are exchanged
  IF Len(dims) = 1 THEN <<off>>
  ELSE IF Len(dims) = 2 THEN <<off % dims[2], off \div dims[2]>>
  ELSE <<off \div (dims[3] * dims[2]), off % dims[3], (off \div dims[3]) % dims[2]>>
Coord(off, dims) ==
  IF Len(dims) = 1 THEN <<off>>
  ELSE IF Len(dims) = 2 THEN <<off \div dims[2], off % dims[2]>>
  ELSE LET xy == dims[3] * dims[2]
         IN  <<off \div xy, (off % xy) \div dims[3], off % dims[3]>>

\* set_decomp(): the same, but the remainder is taken once.
ReplayCoordUnreduced(off, dims) ==  \* a fault: the offset is not reduced
  IF Len(dims) < 3 THEN Coord(off, dims)
  ELSE <<off \div (dims[2] * dims[3]), off \div dims[3], off % dims[3]>>
ReplayCoord(off, dims) ==
  IF Len(dims) = 1 THEN <<off>>
  ELSE IF Len(dims) = 2 THEN <<off \div dims[2], off % dims[2]>>
  ELSE LET tmp == off % (dims[2] * dims[3])
         IN  <<off \div (dims[2] * dims[3]), tmp \div dims[3], tmp % dims[3]>>

\* The cells of a request: its counts are 1 but for the last dimension.
RequestCells(start, len) ==
  [i \in 1 .. len |-> [start EXCEPT ![Len(start)] = @ + i - 1]]

\* The place of a cell in row-major order, and the cells there are.
RowMajor(c, dims) ==
  IF Len(dims) = 1 THEN c[1]
  ELSE IF Len(dims) = 2 THEN c[1] * dims[2] + c[2]
  ELSE (c[1] * dims[2] + c[2]) * dims[3] + c[3]
Index(dims) ==
  IF Len(dims) = 1 THEN {<<a>> : a \in 0 .. dims[1] - 1}
  ELSE IF Len(dims) = 2 THEN (0 .. dims[1] - 1) \X (0 .. dims[2] - 1)
  ELSE (0 .. dims[1] - 1) \X (0 .. dims[2] - 1) \X (0 .. dims[3] - 1)
=============================================================================
