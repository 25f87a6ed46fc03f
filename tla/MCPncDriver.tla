---------------------------- MODULE MCPncDriver ------------------------------
(* Three ranks in blob layout: variable 1 is a decomposition variable, 2    *)
(* and 5 are written by the root, 4 and 6 share a buffer with 5.  Rank 2    *)
(* has nothing to write. Four records are flushed three at a time.          *)
EXTENDS PncDriver

MCVarType == <<"int", "dbl", "dbl", "dbl", "dbl", "dbl">>

MCDecompLen == [v \in {1} |-> 3]

MCPutLen == [r \in Rank |-> [v \in Var |->
  CASE v = 1 -> 1
    [] v \in {2, 5} -> IF r = 0 THEN 2 ELSE 0
    [] OTHER -> IF r = 2 THEN 0 ELSE 1 + r]]
=============================================================================
