------------------------------ MODULE PncDriver ------------------------------
(***************************************************************************)
(* The PnetCDF driver (src/src/drivers/e3sm_io_driver_pnc.cpp), canonical  *)
(* or blob layout, and the write buffers whose parts its pending requests  *)
(* name (wr_buf of src/src/cases/e3sm_io_case.hpp).                        *)
(*                                                                         *)
(* def_var() adds up the lengths of the buffers, one buffer for every type *)
(* and kind of variable (fixed-size or record); wr_buf_malloc() makes room *)
(* for the records of one flush; each put is a non-blocking request on the *)
(* next part of a buffer; wait() is the collective ncmpi_wait_all(), and   *)
(* the pointers return to the front of the record buffers at the first     *)
(* time step after it.                                                     *)
(***************************************************************************)
EXTENDS Collectives, FiniteSets

CONSTANTS
  VarType,    \* VarType[v]: iType
  PutLen,     \* PutLen[r][v]: elements of one put of variable v by rank r
  DecompVar,  \* the decomposition variables of blob I/O: buffers of their own
  DecompLen,  \* DecompLen[v]: elements of all of decomposition variable v
  Gap         \* elements between two buffers (BUF_GAP with -m, otherwise 0)

Type == {VarType[v] : v \in Var}

ASSUME PncDriverAssumption ==
  /\ DOMAIN VarType = Var
  /\ PutLen \in [Rank -> [Var -> Nat]]
  /\ DecompVar \subseteq Partitioned \ RecVar
  /\ \A d \in DecompVar : \A v \in Var \ DecompVar : d < v
  /\ DecompLen \in [DecompVar -> Nat]
  /\ Gap \in Nat

VARIABLES
  pc,       \* where each rank is
  rec,      \* rec_no, -1 while it posts the fixed-size variables
  cur,      \* the last variable it defined, or posted in this step
  bufLen,   \* wr_buf.*_buflen of this rank
  ptr,      \* *_buf_ptr: the first element not used yet
  pending,  \* PnetCDF: the requests iput has returned for
  stored,   \* the requests PnetCDF has completed
  amount    \* amount_WR of this rank

vars == <<calls, pc, rec, cur, bufLen, ptr, pending, stored, amount>>

-----------------------------------------------------------------------------
(* The write buffers.                                                      *)

Buffer == {"fix", "rec"} \X Type

Kind(v)     == IF v \in RecVar THEN "rec" ELSE "fix"
BufferOf(v) == <<Kind(v), VarType[v]>>

\* Whether a put of v by r takes its data from wr_buf.
Buffered(r, v) == v \notin DecompVar /\ Posts(r, v)

\* What def_var() adds to a length (for the root, a decomposition variable is
\* like any other that is not partitioned) and what posting adds to a
\* pointer; a fault of the former does not count the gap.
DefinedNoGap(r, v) == IF Buffered(r, v) THEN PutLen[r][v] ELSE 0
Defined(r, v) ==
  CASE Buffered(r, v) -> PutLen[r][v] + Gap
    [] v \in DecompVar /\ r = 0 -> DecompLen[v] + Gap
    [] OTHER -> 0
Advance(r, v) == IF Buffered(r, v) THEN PutLen[r][v] + Gap ELSE 0

\* wr_buf_malloc(); a fault makes room for one record only.
OneRecord(b, len) == len
Malloc(b, len)    == IF b[1] = "rec" THEN len * EffFfreq ELSE len

\* The time steps that begin with the record pointers at the front, and by a
\* fault all of them.
EveryStep(k)  == k >= 0
AfterFlush(k) == k >= 0 /\ k % EffFfreq = 0
PtrAt(r, k)   == IF AfterFlush(k)
                 THEN [b \in Buffer |-> IF b[1] = "rec" THEN 0 ELSE ptr[r][b]]
                 ELSE ptr[r]

-----------------------------------------------------------------------------
Init ==
  /\ calls   = [r \in Rank |-> <<>>]
  /\ pc      = [r \in Rank |-> "define"]
  /\ rec     = [r \in Rank |-> -1]
  /\ cur     = [r \in Rank |-> 0]
  /\ bufLen  = [r \in Rank |-> [b \in Buffer |-> 0]]
  /\ ptr     = [r \in Rank |-> [b \in Buffer |-> 0]]
  /\ pending = [r \in Rank |-> {}]
  /\ stored  = [r \in Rank |-> {}]
  /\ amount  = [r \in Rank |-> 0]

\* def_var(), on every rank for every variable.
DefVar(r) ==
  /\ pc[r] = "define"
  /\ cur[r] < NVars
  /\ LET v == cur[r] + 1
     IN  /\ bufLen' = [bufLen EXCEPT ![r][BufferOf(v)] = @ + Defined(r, v)]
         /\ cur' = [cur EXCEPT ![r] = v]
  /\ UNCHANGED <<calls, pc, rec, ptr, pending, stored, amount>>

EndDef(r) ==
  /\ pc[r] = "define"
  /\ cur[r] = NVars
  /\ pc' = [pc EXCEPT ![r] = "enddef"]
  /\ Enter(r, "ncmpi_enddef")
  /\ UNCHANGED <<rec, cur, bufLen, ptr, pending, stored, amount>>

\* wr_buf_malloc(), and the pointers to the front.
Allocate(r) ==
  /\ pc[r] = "enddef"
  /\ AllEntered(r)
  /\ bufLen' = [bufLen EXCEPT ![r] = [b \in Buffer |-> Malloc(b, @[b])]]
  /\ ptr' = [ptr EXCEPT ![r] = [b \in Buffer |-> 0]]
  /\ cur' = [cur EXCEPT ![r] = 0]
  /\ pc' = [pc EXCEPT ![r] = "post"]
  /\ UNCHANGED <<calls, rec, pending, stored, amount>>

-----------------------------------------------------------------------------
(* The posting loops.                                                      *)

\* The record index of a put; a fixed-size variable has none, and by a fault
\* it gets that of the loop.
LoopRec(k) == k
RecOf(k)   == IF k < 0 THEN 0 ELSE k

\* put_vara() or put_varn() in mode nb. PnetCDF copies the start indices: the
\* program changes them for the next record while the request is pending. A
\* request of length 0 is complete at once.
Iput(r) ==
  /\ pc[r] = "post"
  /\ \E v \in Var :
       /\ IsNext(v, r, rec[r], cur[r])
       /\ cur' = [cur EXCEPT ![r] = v]
       /\ pending' = [pending EXCEPT ![r] =
            IF PutLen[r][v] = 0 THEN @
            ELSE @ \cup {[var |-> v, rec |-> RecOf(rec[r]),
                          from |-> ptr[r][BufferOf(v)]]}]
       /\ ptr' = [ptr EXCEPT ![r][BufferOf(v)] = @ + Advance(r, v)]
  /\ UNCHANGED <<calls, pc, rec, bufLen, stored, amount>>

\* The next time step, or the barrier before the file is closed.
NextStep(r) ==
  IF rec[r] + 1 < NRecs
  THEN /\ pc'  = [pc EXCEPT ![r] = "post"]
       /\ rec' = [rec EXCEPT ![r] = @ + 1]
       /\ cur' = [cur EXCEPT ![r] = 0]
       /\ ptr' = [ptr EXCEPT ![r] = PtrAt(r, rec[r] + 1)]
       /\ UNCHANGED calls
  ELSE /\ pc' = [pc EXCEPT ![r] = "sync"]
       /\ Enter(r, "barrier")
       /\ UNCHANGED <<rec, cur, ptr>>

EndStep(r) ==
  /\ pc[r] = "post"
  /\ Remaining(r, rec[r], cur[r]) = {}
  /\ IF FlushAfter(rec[r])
     THEN /\ pc' = [pc EXCEPT ![r] = "flush"]
          /\ Enter(r, "barrier")
          /\ UNCHANGED <<rec, cur, ptr>>
     ELSE NextStep(r)
  /\ UNCHANGED <<bufLen, pending, stored, amount>>

-----------------------------------------------------------------------------
(* wait().                                                                 *)

\* Out of the barrier and into ncmpi_wait_all(), whatever is pending; a fault
\* skips it when nothing is.
WaitUnlessIdle(r) ==
  /\ pc[r] = "flush"
  /\ AllEntered(r)
  /\ IF pending[r] = {}
     THEN NextStep(r)
     ELSE /\ pc' = [pc EXCEPT ![r] = "wait"]
          /\ Enter(r, "ncmpi_wait_all")
          /\ UNCHANGED <<rec, cur, ptr>>
  /\ UNCHANGED <<bufLen, pending, stored, amount>>
BeginWait(r) ==
  /\ pc[r] = "flush"
  /\ AllEntered(r)
  /\ pc' = [pc EXCEPT ![r] = "wait"]
  /\ Enter(r, "ncmpi_wait_all")
  /\ UNCHANGED <<rec, cur, ptr, bufLen, pending, stored, amount>>

\* NC_REQ_ALL: no request stays pending; a fault completes only the puts of
\* record variables.
RecordPuts(reqs) == {q \in reqs : q.var \in RecVar}
Completed(reqs)  == reqs

\* What requests of rank r write, element by element.
Written(r, reqs) == UNION {{q} \X (1 .. PutLen[r][q.var]) : q \in reqs}

\* The driver counts what ncmpi_inq_put_size() grew by.
EndWait(r) ==
  /\ pc[r] = "wait"
  /\ AllEntered(r)
  /\ LET done == Completed(pending[r])
     IN  /\ stored' = [stored EXCEPT ![r] = @ \cup {<<q.var, q.rec>> : q \in done}]
         /\ pending' = [pending EXCEPT ![r] = @ \ done]
         /\ amount' = [amount EXCEPT ![r] = @ + Cardinality(Written(r, done))]
  /\ NextStep(r)
  /\ UNCHANGED bufLen

-----------------------------------------------------------------------------
(* close().                                                                *)

\* ncmpi_buffer_detach() is local, ncmpi_close() collective: it gives up the
\* requests that are still pending.
BeginClose(r) ==
  /\ pc[r] = "sync"
  /\ AllEntered(r)
  /\ pending' = [pending EXCEPT ![r] = {}]
  /\ pc' = [pc EXCEPT ![r] = "close"]
  /\ Enter(r, "ncmpi_close")
  /\ UNCHANGED <<rec, cur, bufLen, ptr, stored, amount>>

EndClose(r) ==
  /\ pc[r] = "close"
  /\ AllEntered(r)
  /\ pc' = [pc EXCEPT ![r] = "done"]
  /\ UNCHANGED <<calls, rec, cur, bufLen, ptr, pending, stored, amount>>

RankNext(r) ==
  \/ DefVar(r) \/ EndDef(r) \/ Allocate(r)
  \/ Iput(r) \/ EndStep(r) \/ BeginWait(r) \/ EndWait(r)
  \/ BeginClose(r) \/ EndClose(r)

\* The run is over: the file is closed on every rank.
Finished ==
  /\ \A r \in Rank : pc[r] = "done"
  /\ UNCHANGED vars

Next == (\E r \in Rank : RankNext(r)) \/ Finished

Spec == Init /\ [][Next]_vars

\* Every rank is a running process.
FairSpec == Spec /\ \A r \in Rank : WF_vars(RankNext(r))
-----------------------------------------------------------------------------
(* Properties.                                                             *)

PC == {"define", "enddef", "post", "flush", "wait", "sync", "close", "done"}

Call == {"ncmpi_enddef", "barrier", "ncmpi_wait_all", "ncmpi_close"}

Request == [var : Var, rec : Nat, from : Nat]

\* Every variable holds a value of its kind.
TypeOK ==
  /\ calls \in [Rank -> Seq(Call)]
  /\ pc \in [Rank -> PC]
  /\ rec \in [Rank -> Step]
  /\ cur \in [Rank -> 0 .. NVars]
  /\ bufLen \in [Rank -> [Buffer -> Nat]]
  /\ ptr \in [Rank -> [Buffer -> Nat]]
  /\ pending \in [Rank -> SUBSET Request]
  /\ stored \in [Rank -> SUBSET (Var \X Nat)]
  /\ amount \in [Rank -> Nat]

\* The part of a buffer that a pending request of rank r reads, as a half-open
\* interval.
From(q)  == q.from
To(r, q) == q.from + PutLen[r][q.var]

\* "Write buffers should not be touched as they will later be used during the
\* flushing" (src/src/cases/utils.cpp:105-110): the pending requests of a
\* rank read parts of the buffers that do not overlap, and none reads past
\* the end of a buffer, whatever the flush frequency and the gap.
BuffersIntact ==
  \A r \in Rank : \A p, q \in {x \in pending[r] : Buffered(r, x.var)} :
    /\ To(r, q) <= bufLen[r][BufferOf(q.var)]
    /\ p # q /\ BufferOf(p.var) = BufferOf(q.var) =>
         To(r, p) <= From(q) \/ To(r, q) <= From(p)

\* The puts the program makes on rank r.
Puts(r) == {p \in Var \X (0 .. NRecs) :
              /\ Posts(r, p[1])
              /\ PutLen[r][p[1]] > 0
              /\ IF p[1] \in RecVar THEN p[2] < NRecs ELSE p[2] = 0}

\* The elements of puts.
PutElements(r, puts) == UNION {{p} \X (1 .. PutLen[r][p[1]]) : p \in puts}

\* A closed file holds everything the ranks put, the last flush leaves nothing
\* for ncmpi_close() to give up, and the ranks report what they wrote.
FileComplete ==
  (\A r \in Rank : pc[r] = "done") =>
    \A r \in Rank :
      /\ stored[r] = Puts(r)
      /\ amount[r] = Cardinality(PutElements(r, Puts(r)))

\* Every rank gets through close(): no collective call waits for ever.
AllClose == <>(\A r \in Rank : pc[r] = "done")

Store == INSTANCE DeferredStore WITH
  Proc   <- Rank,
  Put    <- Var \X Nat,
  posted <- [r \in Rank |-> {<<q.var, q.rec>> : q \in pending[r]}]

\* The driver keeps DeferredStore's promise.
StoreSpec == Store!Spec
=============================================================================
