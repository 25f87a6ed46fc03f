------------------------------ MODULE BlobStore ------------------------------
(***************************************************************************)
(* What blob I/O through one file promises: every process caches its own   *)
(* puts; nothing is cached any more once some process has stored; storing  *)
(* moves all that a process cached, and nothing else, into the file, and   *)
(* leaves what the other processes stored intact.                          *)
(***************************************************************************)
CONSTANTS
  Proc,   \* the processes that share the file
  Put     \* the puts a process may make: a variable and a record

VARIABLES
  cached, \* what each process still holds in memory
  stored, \* what can be read back of each process from the file
  closed  \* the processes that have stored

vars == <<cached, stored, closed>>

TypeOK ==
  /\ cached \in [Proc -> SUBSET Put]
  /\ stored \in [Proc -> SUBSET Put]
  /\ closed \subseteq Proc

Init ==
  /\ cached = [p \in Proc |-> {}]
  /\ stored = [p \in Proc |-> {}]
  /\ closed = {}

Cache(p, w) ==
  /\ closed = {}
  /\ w \notin cached[p]
  /\ cached' = [cached EXCEPT ![p] = @ \cup {w}]
  /\ UNCHANGED <<stored, closed>>

Store(p) ==
  /\ p \notin closed
  /\ stored' = [stored EXCEPT ![p] = cached[p]]
  /\ cached' = [cached EXCEPT ![p] = {}]
  /\ closed' = closed \cup {p}

Next == \E p \in Proc : Store(p) \/ \E w \in Put : Cache(p, w)

Spec == Init /\ [][Next]_vars /\ \A p \in Proc : WF_vars(Store(p))
=============================================================================
