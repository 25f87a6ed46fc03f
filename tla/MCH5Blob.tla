------------------------------ MODULE MCH5Blob -------------------------------
(* Three ranks, two fixed-size and two record variables, one of each kind  *)
(* partitioned, four records and a cache that grows by two; a schema with  *)
(* names and attributes of all lengths modulo the alignment, and lists     *)
(* that outgrow their arrays of two.                                       *)
EXTENDS H5Blob

\* Rank 1 has nothing to write of variable 1, rank 2 nothing at all.
MCPutLen == [r \in Rank |-> [v \in Var |->
               IF (r = 1 /\ v = 1) \/ r = 2 THEN 0
               ELSE IF v = 3 /\ r = 0 THEN 2 ELSE 1]]

MCNameLen == [n \in Name |-> CASE n = "t" -> 1 [] n = "lv" -> 2 [] n = "col" -> 3
                               [] n = "area" -> 4 [] n = "title" -> 5]

DefDimAs(name, size)       == [op |-> "dim", name |-> name, size |-> size]
DefVarAs(name, type, dims) == [op |-> "var", name |-> name, type |-> type, dims |-> dims]
PutAttAs(var, name, type, nelems) ==
  [op |-> "att", var |-> var, name |-> name, type |-> type, nelems |-> nelems]

\* Attributes of the types that are padded and of others, one without values,
\* three of the file; variables of none to two dimensions.
MCSchema ==
  << PutAttAs(NC_GLOBAL, "title", "char", 3), PutAttAs(NC_GLOBAL, "t", "short", 1),
     PutAttAs(NC_GLOBAL, "lv", "byte", 6),
     DefDimAs("title", NC_UNLIMITED), DefDimAs("col", 2),
     DefVarAs("lv", "char", <<2>>), PutAttAs(1, "area", "int64", 1),
     DefVarAs("title", "double", <<>>),
     DefVarAs("t", "int", <<1>>), PutAttAs(3, "col", "char", 0),
     DefVarAs("area", "float", <<1, 2>>) >>

MCSchemas == {MCSchema}
=============================================================================
