------------------------------ MODULE MCDecomp -------------------------------
(* All maps of an array of two rows over three processes,                   *)
(* each process listing its elements in ascending order, or in descending   *)
(* order between offsets that are no elements.                              *)
EXTENDS Decomp

Ascending(S)  == SetToSortSeq(S, <)
Descending(S) == IF S = {} THEN <<>>
                 ELSE <<0>> \o SetToSortSeq(S, >) \o <<GSize + 1, 0>>

MCMaps ==
  UNION {{[p \in DProc |-> Ascending({e + 1 : e \in {x \in Element : own[x] = p}})],
          [p \in DProc |-> Descending({e + 1 : e \in {x \in Element : own[x] = p}})]} :
         own \in [Element -> DProc \cup {-1}]}

Opt(f, w) == [fill |-> f, write |-> w]

\* Gaps neither filled nor written; filled and written.
MCOptions == {Opt(FALSE, FALSE), Opt(TRUE, TRUE)}

\* Filled and not written.
MCSkipFill == {Opt(TRUE, FALSE)}
=============================================================================
