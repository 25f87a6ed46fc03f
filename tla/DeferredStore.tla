---------------------------- MODULE DeferredStore ----------------------------
(***************************************************************************)
(* What non-blocking writes promise: a posted write is remembered until    *)
(* its process flushes; a flush stores all that the process has posted;    *)
(* what is stored stays; and every posted write is stored in the end.      *)
(***************************************************************************)
CONSTANTS
  Proc,   \* the processes that share the file
  Put     \* the writes a process may post: an element of a record

VARIABLES
  posted, \* what each process has posted and not flushed
  stored  \* what the file holds of each process

vars == <<posted, stored>>

Init ==
  /\ posted = [p \in Proc |-> {}]
  /\ stored = [p \in Proc |-> {}]

\* One call posts several elements, none of them for the second time.
Post(p) ==
  /\ posted' \in [Proc -> SUBSET Put]
  /\ posted[p] \subseteq posted'[p]
  /\ (posted'[p] \ posted[p]) \cap stored[p] = {}
  /\ \A q \in Proc \ {p} : posted'[q] = posted[q]
  /\ UNCHANGED stored

Flush(p) ==
  /\ posted[p] # {}
  /\ stored' = [stored EXCEPT ![p] = @ \cup posted[p]]
  /\ posted' = [posted EXCEPT ![p] = {}]

Next == \E p \in Proc : Post(p) \/ Flush(p)

Spec == Init /\ [][Next]_vars /\ \A p \in Proc : WF_vars(Flush(p))
=============================================================================
