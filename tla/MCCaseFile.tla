----------------------------- MODULE MCCaseFile ------------------------------
(* All history files of all cases with small dimensions, all different      *)
(* within a map; the other rank has nothing of some decompositions.         *)
EXTENDS CaseFile

MCMapDims ==
  [F |-> << <<5>>, <<5>>, <<3, 5>> >>,
   G |-> << <<5>>, <<7>>, <<5, 3>>, <<7, 3>>, <<6, 3>>, <<5, 4>> >>,
   I |-> << <<4, 6>>, <<3, 4, 6>>, <<2, 4, 6>>, <<5, 4, 6>>, <<7, 4, 6>> >>]

MCRootCount ==
  [F |-> <<2, 3, 7>>, G |-> <<2, 3, 7, 1, 4, 5>>, I |-> <<11, 3, 7, 2, 5>>]

MCOtherCount ==
  [F |-> <<1, 2, 0>>, G |-> <<0, 4, 8, 20, 1, 0>>, I |-> <<13, 0, 1, 4, 9>>]
=============================================================================
