--------------------------- MODULE MCNetcdfLayout ---------------------------
(***************************************************************************)
(* Every file of up to three variables drawn from Variables, over the      *)
(* dimensions node (3), names (2) and the unlimited time, and every file   *)
(* of at most one over a second unlimited dimension as well.  The variables*)
(* mix widths, so that slabs need from none to three bytes of padding, and *)
(* kinds, so that the two passes visit them in different orders; four of   *)
(* them are malformed.                                                     *)
(***************************************************************************)
EXTENDS NetcdfLayout, SequencesExt

CONSTANT MaxVars

Dims == <<3, 2, Unlimited>>

Fixed(dims, width, size) ==
  [dims |-> dims, width |-> width, records |-> FALSE, slabs |-> <<size>>]
Record(dims, width, slabs) ==
  [dims |-> dims, width |-> width, records |-> TRUE, slabs |-> slabs]

Variables ==
  {Fixed(<<>>, 4, 4), Fixed(<<1>>, 1, 3), Fixed(<<1, 2>>, 2, 12), Fixed(<<2>>, 8, 16),
   Record(<<3>>, 4, <<4, 4>>), Record(<<3, 1>>, 1, <<3, 3>>),
   Record(<<3, 2>>, 1, <<2, 2>>), Record(<<3, 1>>, 1, <<>>),
   Fixed(<<1>>, 4, 11), Fixed(<<3>>, 4, 4), Record(<<3>>, 4, <<4, 3>>), Record(<<1>>, 4, <<12>>)}

MCFiles ==
  [dims : {Dims}, vars : BoundedSeq(Variables, MaxVars)]
    \union [dims : {Append(Dims, Unlimited)}, vars : BoundedSeq(Variables, 1)]
=============================================================================
