----------------------------- MODULE MCHdf5Driver -----------------------------
(* Three ranks; variables 1 and 3 are partitioned, 3 and 4 have the record *)
(* dimension.  The maps list requests out of order; rank 1 has one request *)
(* in each map, rank 2 none in that of variable 1.                         *)
EXTENDS Hdf5Driver

MCFlushOnce == -1
MCVarLen    == <<5, 1, 4, 2>>

Req(o, l) == [off |-> o, len |-> l]

MCReqs == [r \in Rank |->
  CASE r = 0 -> <<<<Req(3, 2), Req(0, 1)>>, <<>>, <<Req(2, 1), Req(0, 1)>>, <<>>>>
    [] r = 1 -> <<<<Req(1, 1)>>, <<>>, <<Req(1, 1)>>, <<>>>>
    [] OTHER -> <<<<>>, <<>>, <<Req(3, 1)>>, <<>>>>]

\* A run on more ranks than the maps were made for: rank 2 has no request.
MCReqsEmptyRank == [r \in Rank |->
  IF r = 2 THEN <<<<>>, <<>>, <<>>, <<>>>> ELSE MCReqs[r]]
=============================================================================
