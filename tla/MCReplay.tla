------------------------------ MODULE MCReplay -------------------------------
(* Three writing ranks on all placements over two nodes, and replays by two *)
(* to four processes; arrays of one, two and three dimensions, the last with *)
(* a hole and a rank without a part.                                        *)
EXTENDS Replay

MCRank == 0 .. 2
MCPlacements == {p \in [MCRank -> {"a", "b"}] : p[0] = "a"}
MCReplays == {p \in UNION {[0 .. n -> {"a", "b"}] : n \in 1 .. 3} : p[0] = "a"}

MCDims == << <<4>>, <<2, 3>>, <<2, 2, 3>> >>
MCReqs == << [r \in MCRank |-> CASE r = 0 -> << <<1, 2>> >> [] r = 1 -> << <<0, 1>> >>
                                 [] r = 2 -> << <<3, 1>> >>],
             [r \in MCRank |-> CASE r = 0 -> << <<2, 1>> >> [] r = 1 -> << <<0, 2>>, <<4, 2>> >>
                                 [] r = 2 -> << <<3, 1>> >>],
             [r \in MCRank |-> CASE r = 0 -> << <<1, 2>>, <<9, 3>> >>
                                 [] r = 1 -> << <<0, 1>>, <<3, 2>>, <<6, 3>> >>
                                 [] r = 2 -> <<>>] >>

MCDimNames == <<"time", "n", "lev", "col", "x", "y">>
MCVars == << [rec |-> FALSE, decomp |-> 0, dims |-> <<>>],
             [rec |-> FALSE, decomp |-> 1, dims |-> <<2>>],
             [rec |-> TRUE, decomp |-> 0, dims |-> <<1>>],
             [rec |-> TRUE, decomp |-> 2, dims |-> <<1, 3, 4>>],
             [rec |-> TRUE, decomp |-> 3, dims |-> <<1, 5, 6, 4>>] >>
=============================================================================
