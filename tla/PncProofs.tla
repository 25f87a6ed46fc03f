------------------------------ MODULE PncProofs -------------------------------
(***************************************************************************)
(* Proofs about PncDriver, for every number of ranks, variables and        *)
(* records, every flush frequency, all lengths of puts and every gap.      *)
(*                                                                         *)
(* Every part of the invariant is about one rank: ranks meet only in       *)
(* collective calls, and what a rank may find there is fixed by the        *)
(* program of calls.                                                       *)
(***************************************************************************)
EXTENDS PncDriver, PrefixSums, SequenceTheorems

-----------------------------------------------------------------------------
(* How many flushes there are before step k, which tells where in the       *)
(* sequence of collective calls a rank is.                                 *)

Flushes(k) == Cardinality({j \in 0 .. k - 1 : FlushAfter(j)})

\* There is one more after a step that flushes, none before the record
\* variables, and most at the end.
LEMMA FlushesProperties ==
  /\ \A k \in Int : Flushes(k) \in Nat
  /\ \A k \in Nat : Flushes(k + 1) =
       IF FlushAfter(k) THEN Flushes(k) + 1 ELSE Flushes(k)
  /\ Flushes(-1) = 0 /\ Flushes(0) = 0
  /\ \A k \in Int : k <= NRecs => Flushes(k) <= Flushes(NRecs)
<1> DEFINE F == {j \in Int : FlushAfter(j)}
<1>1. \A k \in Int : Flushes(k) = CountBelow(F, k)
  <2> TAKE k \in Int
  <2>1. {j \in 0 .. k - 1 : FlushAfter(j)} = {j \in 0 .. k - 1 : j \in F}
    OBVIOUS
  <2> QED
    BY <2>1 DEF Flushes, CountBelow
<1>2. \A k \in Nat : k \in F <=> FlushAfter(k)
  OBVIOUS
<1>3. NRecs \in Nat
  BY CaseAssumption
<1> HIDE DEF F
<1> QED
  BY <1>1, <1>2, <1>3, CountBelowProperties

-----------------------------------------------------------------------------
(* The invariant.                                                          *)

\* The types of the variables but for the amounts (see AmountInv).
Typed ==
  /\ calls \in [Rank -> Seq(Call)]
  /\ pc \in [Rank -> PC]
  /\ rec \in [Rank -> Step]
  /\ cur \in [Rank -> 0 .. NVars]
  /\ bufLen \in [Rank -> [Buffer -> Nat]]
  /\ ptr \in [Rank -> [Buffer -> Nat]]
  /\ pending \in [Rank -> SUBSET Request]
  /\ stored \in [Rank -> SUBSET (Var \X Nat)]

\* The program of calls: a barrier and a wait for every flush between enddef
\* and the barrier before close().
LastCall  == 2 * Flushes(NRecs) + 3
CallAt(i) == IF i = 1 THEN "ncmpi_enddef"
             ELSE IF i = LastCall THEN "ncmpi_close"
             ELSE IF i % 2 = 0 THEN "barrier" ELSE "ncmpi_wait_all"

\* How many of them a rank has entered at place x of step k.
NCalls(x, k) ==
  IF x = "define" THEN 0
  ELSE IF x = "enddef" THEN 1
  ELSE IF x = "post" THEN 2 * Flushes(k) + 1
  ELSE IF x = "flush" THEN 2 * Flushes(k) + 2
  ELSE IF x = "wait" THEN 2 * Flushes(k) + 3
  ELSE IF x = "sync" THEN 2 * Flushes(NRecs) + 2
  ELSE LastCall

CallInv(r) ==
  /\ Len(calls[r]) = NCalls(pc[r], rec[r])
  /\ pc[r] \in {"define", "enddef"} => rec[r] = -1
  /\ pc[r] \in {"flush", "wait"} => FlushAfter(rec[r])
  /\ \A i \in 1 .. Len(calls[r]) : calls[r][i] = CallAt(i)

\* What the variables up to one add to a buffer's length while they are
\* defined, and what they use of it when they are posted.
Adds(r, b)    == [v \in Var |-> IF BufferOf(v) = b THEN Defined(r, v) ELSE 0]
Uses(r, b)    == [v \in Var |-> IF BufferOf(v) = b THEN Advance(r, v) ELSE 0]
Counted(r, b) == Prefix(Adds(r, b), NVars)
Used(r, b)    == Prefix(Uses(r, b), NVars)
Total(r, b)   == Used(r, b)[NVars]

\* The first step of the flush period that step k belongs to, and where the
\* part of variable v begins in the buffer.
Base(k)          == k - (k % EffFfreq)
Place(r, v, k, n) == (n - Base(k)) * Total(r, BufferOf(v)) + Used(r, BufferOf(v))[v - 1]

LenInv(r) ==
  \A b \in Buffer :
    /\ pc[r] = "define" => bufLen[r][b] = Counted(r, b)[cur[r]]
    /\ pc[r] = "enddef" => bufLen[r][b] = Counted(r, b)[NVars]
    /\ pc[r] \notin {"define", "enddef"} =>
         bufLen[r][b] = Malloc(b, Counted(r, b)[NVars])

PtrInv(r) ==
  \A b \in Buffer :
    /\ pc[r] = "post" /\ rec[r] = -1 /\ b[1] = "fix" =>
         ptr[r][b] = Used(r, b)[cur[r]]
    /\ pc[r] = "post" /\ rec[r] >= 0 /\ b[1] = "rec" =>
         ptr[r][b] = (rec[r] - Base(rec[r])) * Total(r, b) + Used(r, b)[cur[r]]

PendInv(r) ==
  /\ pc[r] \in {"define", "enddef"} => pending[r] = {}
  /\ \A q \in pending[r] : Buffered(r, q.var) =>
       /\ q.var \notin RecVar =>
            q.rec = 0 /\ q.from = Used(r, BufferOf(q.var))[q.var - 1]
       /\ q.var \in RecVar =>
            /\ rec[r] >= 0 /\ Base(rec[r]) <= q.rec /\ q.rec <= rec[r]
            /\ q.from = Place(r, q.var, rec[r], q.rec)

RankInv(r) == CallInv(r) /\ LenInv(r) /\ PtrInv(r) /\ PendInv(r)

IInv == Typed /\ \A r \in Rank : RankInv(r)

-----------------------------------------------------------------------------
(* Lengths and periods.                                                    *)

LEMMA BufferType ==
  /\ \A v \in Var : BufferOf(v) \in Buffer /\ BufferOf(v)[1] = Kind(v)
  /\ \A b \in Buffer : b[1] \in {"fix", "rec"}
  /\ \A r \in Rank, v \in Var : PutLen[r][v] \in Nat
  /\ \A r \in Rank, v \in Var :
       /\ Defined(r, v) \in Nat /\ Advance(r, v) \in Nat
       /\ Advance(r, v) <= Defined(r, v)
       /\ Buffered(r, v) => PutLen[r][v] <= Advance(r, v)
       /\ ~Buffered(r, v) => Advance(r, v) = 0
<1>1. \A v \in Var : BufferOf(v) \in Buffer /\ BufferOf(v)[1] = Kind(v)
  BY DEF BufferOf, Buffer, Kind, Type
<1>2. \A b \in Buffer : b[1] \in {"fix", "rec"}
  BY DEF Buffer
<1>3. \A r \in Rank, v \in Var : PutLen[r][v] \in Nat
  BY PncDriverAssumption
<1>4. ASSUME NEW r \in Rank, NEW v \in Var
      PROVE  /\ Defined(r, v) \in Nat /\ Advance(r, v) \in Nat
             /\ Advance(r, v) <= Defined(r, v)
             /\ Buffered(r, v) => PutLen[r][v] <= Advance(r, v)
             /\ ~Buffered(r, v) => Advance(r, v) = 0
  <2>1. Gap \in Nat /\ (v \in DecompVar => DecompLen[v] \in Nat)
    BY PncDriverAssumption
  <2>2. CASE Buffered(r, v)
    <3>1. Defined(r, v) = PutLen[r][v] + Gap
      BY <2>2, Zenon DEF Defined, Buffered
    <3>2. Advance(r, v) = PutLen[r][v] + Gap
      BY <2>2 DEF Advance
    <3> QED
      BY <1>3, <2>1, <2>2, <3>1, <3>2
  <2>3. CASE ~Buffered(r, v)
    <3>1. Advance(r, v) = 0
      BY <2>3 DEF Advance
    <3>2. Defined(r, v) \in Nat
      BY <2>1, <2>3 DEF Defined
    <3> QED
      BY <2>3, <3>1, <3>2
  <2> QED
    BY <2>2, <2>3
<1> QED
  BY <1>1, <1>2, <1>3, <1>4

\* The sums a buffer's length and its pointer are made of.
LEMMA Lengths ==
  ASSUME NEW r \in Rank, NEW b \in Buffer
  PROVE  /\ Counted(r, b) \in [0 .. NVars -> Nat] /\ Counted(r, b)[0] = 0
         /\ Used(r, b) \in [0 .. NVars -> Nat] /\ Used(r, b)[0] = 0
         /\ Total(r, b) \in Nat
         /\ \A v \in Var :
              /\ Counted(r, b)[v] = Counted(r, b)[v - 1] + Adds(r, b)[v]
              /\ Used(r, b)[v] = Used(r, b)[v - 1] + Uses(r, b)[v]
         /\ Total(r, b) <= Counted(r, b)[NVars]
         /\ \A i, j \in 0 .. NVars : i <= j => Used(r, b)[i] <= Used(r, b)[j]
         /\ \A i, j \in 0 .. NVars :
              i <= j /\ (\A k \in i + 1 .. j : Uses(r, b)[k] = 0) =>
                Used(r, b)[i] = Used(r, b)[j]
<1>1. /\ NVars \in Nat /\ Var = 1 .. NVars
      /\ Adds(r, b) \in [1 .. NVars -> Nat] /\ Uses(r, b) \in [1 .. NVars -> Nat]
      /\ \A v \in 1 .. NVars : Uses(r, b)[v] <= Adds(r, b)[v]
  BY BufferType, CaseAssumption DEF Adds, Uses, Var
<1> HIDE DEF Adds, Uses
<1>2. IsPrefixSum(Counted(r, b), Adds(r, b), NVars) /\ IsPrefixSum(Used(r, b), Uses(r, b), NVars)
  BY <1>1, PrefixExists DEF Counted, Used
<1>3. \A i, j \in 0 .. NVars : i <= j => Used(r, b)[i] <= Used(r, b)[j]
  BY <1>1, PrefixGrows DEF Used
<1>4. \A i, j \in 0 .. NVars :
        i <= j /\ (\A k \in i + 1 .. j : Uses(r, b)[k] = 0) =>
          Used(r, b)[i] = Used(r, b)[j]
  BY <1>1, PrefixStays DEF Used
<1>5. Total(r, b) <= Counted(r, b)[NVars]
  <2>1. NVars \in 0 .. NVars
    BY <1>1
  <2> QED
    BY <1>1, <2>1, PrefixDominates DEF Total, Used, Counted
<1> QED
  BY <1>1, <1>2, <1>3, <1>4, <1>5 DEF IsPrefixSum, Total

\* Multiplication is monotone.
LEMMA Times ==
  ASSUME NEW a \in Nat, NEW b \in Nat, NEW k \in Nat, a <= b
  PROVE  a * k \in Nat /\ b * k \in Nat /\ a * k <= b * k
<1>1. b = a + (b - a) /\ b - a \in Nat
  OBVIOUS
<1>2. a * k \in Nat /\ b * k \in Nat /\ (b - a) * k \in Nat
  BY <1>1
<1>3. b * k = a * k + (b - a) * k
  BY <1>1, Z3
<1> QED
  BY <1>2, <1>3

LEMMA NextMultiple ==
  ASSUME NEW k \in Nat, NEW f \in Nat \ {0}
  PROVE  /\ k % f \in Nat /\ k % f < f /\ k % f <= k
         /\ (k + 1) % f = IF (k % f) + 1 = f THEN 0 ELSE (k % f) + 1
<1>1. /\ k \div f \in Nat /\ k % f \in 0 .. f - 1
      /\ k = f * (k \div f) + (k % f)
  BY Z3
<1>2. /\ (k + 1) \div f \in Nat /\ (k + 1) % f \in 0 .. f - 1
      /\ k + 1 = f * ((k + 1) \div f) + ((k + 1) % f)
  BY Z3
<1> DEFINE p == k \div f
           q == (k + 1) \div f
           m == k % f
           n == (k + 1) % f
<1> HIDE DEF p, q, m, n
<1>3. f * (q - p) = 1 + m - n
  BY <1>1, <1>2, Z3 DEF p, q, m, n
<1>4. p \in Nat /\ q \in Nat /\ m \in 0 .. f - 1 /\ n \in 0 .. f - 1 /\ f * p \in Nat /\ k = f * p + m
  BY <1>1, <1>2 DEF p, q, m, n
<1>5. q - p = 0 \/ q - p = 1
  <2>1. q - p >= 2 => f * (q - p) >= 2 * f
    BY <1>4, Z3
  <2>2. q - p <= -1 => f * (q - p) <= -f
    BY <1>4, Z3
  <2> QED
    BY <1>3, <1>4, <2>1, <2>2
<1>6. CASE q - p = 0
  <2>1. n = m + 1
    BY <1>3, <1>4, <1>6
  <2> QED
    BY <1>4, <2>1 DEF m, n
<1>7. CASE q - p = 1
  <2>1. n = 1 + m - f
    BY <1>3, <1>4, <1>7
  <2>2. n = 0 /\ m + 1 = f
    BY <1>4, <2>1
  <2> QED
    BY <1>4, <2>2 DEF m, n
<1> QED
  BY <1>5, <1>6, <1>7

\* A period has EffFfreq steps. It goes on in the next step, or it ends with
\* a flush and the next step begins another.
LEMMA Periods ==
  ASSUME NEW k \in Nat, k < NRecs
  PROVE  /\ EffFfreq \in Nat \ {0}
         /\ Base(k) \in Nat /\ Base(k) <= k /\ k - Base(k) + 1 <= EffFfreq
         /\ AfterFlush(k + 1) => Base(k + 1) = k + 1 /\ FlushAfter(k)
         /\ ~AfterFlush(k + 1) => Base(k + 1) = Base(k)
         /\ ~AfterFlush(k + 1) /\ FlushAfter(k) => k + 1 = NRecs
         /\ Base(0) = 0 /\ AfterFlush(0)
<1>1. EffFfreq \in Nat \ {0}
  BY CaseAssumption DEF EffFfreq, Clipped
<1> HIDE DEF EffFfreq
<1>2. /\ k % EffFfreq \in Nat /\ k % EffFfreq < EffFfreq /\ k % EffFfreq <= k
      /\ (k + 1) % EffFfreq = IF (k % EffFfreq) + 1 = EffFfreq THEN 0 ELSE (k % EffFfreq) + 1
  BY <1>1, NextMultiple
<1>3. 0 % EffFfreq = 0
  BY <1>1, NextMultiple
<1> QED
  BY <1>1, <1>2, <1>3 DEF Base, AfterFlush, FlushAfter, FlushEvery
-----------------------------------------------------------------------------
(* One rank at a time.                                                     *)

\* A step of one rank leaves the others as they are.
LEMMA Others ==
  ASSUME Typed, NEW r \in Rank, RankNext(r), NEW q \in Rank, q # r
  PROVE  /\ calls'[q] = calls[q] /\ pc'[q] = pc[q] /\ rec'[q] = rec[q]
         /\ cur'[q] = cur[q] /\ bufLen'[q] = bufLen[q] /\ ptr'[q] = ptr[q]
         /\ pending'[q] = pending[q] /\ stored'[q] = stored[q]
<1>1. CASE DefVar(r) \/ EndDef(r) \/ Allocate(r)
  BY <1>1 DEF DefVar, EndDef, Allocate, Enter, Typed
<1>2. CASE Iput(r)
  BY <1>2 DEF Iput, Typed
<1>3. CASE EndStep(r)
  BY <1>3 DEF EndStep, NextStep, Enter, Typed
<1>4. CASE BeginWait(r)
  BY <1>4 DEF BeginWait, Enter, Typed
<1>5. CASE EndWait(r)
  BY <1>5 DEF EndWait, NextStep, Enter, Typed
<1>6. CASE BeginClose(r) \/ EndClose(r)
  BY <1>6 DEF BeginClose, EndClose, Enter, Typed
<1> QED
  BY <1>1, <1>2, <1>3, <1>4, <1>5, <1>6 DEF RankNext

\* What the invariant says of a rank depends on that rank's variables only.
LEMMA Unmoved ==
  ASSUME NEW q \in Rank, RankInv(q),
         calls'[q] = calls[q], pc'[q] = pc[q], rec'[q] = rec[q],
         cur'[q] = cur[q], bufLen'[q] = bufLen[q], ptr'[q] = ptr[q],
         pending'[q] = pending[q]
  PROVE  RankInv(q)'
<1>1. CallInv(q)'
  BY DEF RankInv, CallInv
<1>2. LenInv(q)'
  BY DEF RankInv, LenInv
<1>3. PtrInv(q)'
  BY DEF RankInv, PtrInv
<1>4. PendInv(q)'
  BY DEF RankInv, PendInv
<1> QED
  BY <1>1, <1>2, <1>3, <1>4 DEF RankInv

\* The types, where they are changed.
LEMMA EnterType ==
  ASSUME Typed, NEW r \in Rank, NEW call \in Call, Enter(r, call)
  PROVE  calls' \in [Rank -> Seq(Call)]
BY DEF Typed, Enter

LEMMA NextStepType ==
  ASSUME Typed, NEW r \in Rank, NextStep(r)
  PROVE  /\ calls' \in [Rank -> Seq(Call)] /\ pc' \in [Rank -> PC]
         /\ rec' \in [Rank -> Step] /\ cur' \in [Rank -> 0 .. NVars]
         /\ ptr' \in [Rank -> [Buffer -> Nat]]
<1>1. CASE rec[r] + 1 < NRecs
  <2>1. PtrAt(r, rec[r] + 1) \in [Buffer -> Nat]
    BY DEF Typed, PtrAt
  <2>2. rec[r] + 1 \in Step /\ 0 \in 0 .. NVars
    BY <1>1, CaseAssumption DEF Typed, Step
  <2> QED
    BY <1>1, <2>1, <2>2 DEF NextStep, Typed, PC
<1>2. CASE ~(rec[r] + 1 < NRecs)
  BY <1>2, EnterType DEF NextStep, Typed, PC, Call
<1> QED
  BY <1>1, <1>2

LEMMA NextTyped == Typed /\ [Next]_vars => Typed'
<1> SUFFICES ASSUME Typed, [Next]_vars PROVE Typed'
  OBVIOUS
<1>1. CASE UNCHANGED vars
  BY <1>1 DEF Typed, vars
<1>2. ASSUME NEW r \in Rank, RankNext(r) PROVE Typed'
  <2>1. CASE DefVar(r)
    <3>1. cur[r] + 1 \in Var /\ cur[r] + 1 \in 0 .. NVars
      BY <2>1, CaseAssumption DEF DefVar, Typed, Var
    <3>2. BufferOf(cur[r] + 1) \in Buffer /\ Defined(r, cur[r] + 1) \in Nat
      BY <3>1, BufferType
    <3> QED
      BY <2>1, <3>1, <3>2 DEF DefVar, Typed
  <2>2. CASE EndDef(r)
    BY <2>2, EnterType DEF EndDef, Typed, PC, Call
  <2>3. CASE Allocate(r)
    <3>1. EffFfreq \in Nat
      BY CaseAssumption DEF EffFfreq, Clipped
    <3>2. \A b \in Buffer : Malloc(b, bufLen[r][b]) \in Nat
      BY <3>1 DEF Malloc, Typed
    <3>3. 0 \in 0 .. NVars
      BY CaseAssumption
    <3> QED
      BY <2>3, <3>2, <3>3 DEF Allocate, Typed, PC
  <2>4. CASE Iput(r)
    <3>1. PICK v \in Var :
            /\ cur' = [cur EXCEPT ![r] = v]
            /\ pending' = [pending EXCEPT ![r] =
                 IF PutLen[r][v] = 0 THEN @
                 ELSE @ \cup {[var |-> v, rec |-> RecOf(rec[r]),
                               from |-> ptr[r][BufferOf(v)]]}]
            /\ ptr' = [ptr EXCEPT ![r][BufferOf(v)] = @ + Advance(r, v)]
      BY <2>4 DEF Iput
    <3>2. BufferOf(v) \in Buffer /\ Advance(r, v) \in Nat /\ v \in 0 .. NVars
      BY BufferType, CaseAssumption DEF Var
    <3>3. RecOf(rec[r]) \in Nat /\ ptr[r][BufferOf(v)] \in Nat
      BY <3>2 DEF RecOf, Typed, Step
    <3>4. pending' \in [Rank -> SUBSET Request]
      BY <3>1, <3>3 DEF Typed, Request
    <3>5. cur' \in [Rank -> 0 .. NVars] /\ ptr' \in [Rank -> [Buffer -> Nat]]
      BY <3>1, <3>2 DEF Typed
    <3> QED
      BY <2>4, <3>4, <3>5 DEF Iput, Typed
  <2>5. CASE EndStep(r)
    <3>1. CASE FlushAfter(rec[r])
      BY <2>5, <3>1, EnterType DEF EndStep, Typed, PC, Call
    <3>2. CASE ~FlushAfter(rec[r])
      BY <2>5, <3>2, NextStepType DEF EndStep, Typed
    <3> QED
      BY <3>1, <3>2
  <2>6. CASE BeginWait(r)
    BY <2>6, EnterType DEF BeginWait, Typed, PC, Call
  <2>7. CASE EndWait(r)
    <3>1. {<<q.var, q.rec>> : q \in Completed(pending[r])} \subseteq Var \X Nat
      BY DEF Typed, Completed, Request
    <3>2. /\ stored' = [stored EXCEPT ![r] =
                 @ \cup {<<q.var, q.rec>> : q \in Completed(pending[r])}]
          /\ pending' = [pending EXCEPT ![r] = @ \ Completed(pending[r])]
          /\ NextStep(r) /\ UNCHANGED bufLen
      BY <2>7 DEF EndWait
    <3>3. stored' \in [Rank -> SUBSET (Var \X Nat)] /\ pending' \in [Rank -> SUBSET Request]
      BY <3>1, <3>2 DEF Typed
    <3> QED
      BY <3>2, <3>3, NextStepType DEF Typed
  <2>8. CASE BeginClose(r)
    BY <2>8, EnterType DEF BeginClose, Typed, PC, Call
  <2>9. CASE EndClose(r)
    BY <2>9 DEF EndClose, Typed, PC
  <2> QED
    BY <1>2, <2>1, <2>2, <2>3, <2>4, <2>5, <2>6, <2>7, <2>8, <2>9 DEF RankNext
<1> QED
  BY <1>1, <1>2 DEF Next, Finished

-----------------------------------------------------------------------------
(* The calls.                                                              *)

LEMMA CallAtFacts ==
  /\ CallAt(1) = "ncmpi_enddef" /\ CallAt(LastCall) = "ncmpi_close"
  /\ \A n \in Nat : n <= Flushes(NRecs) => CallAt(2 * n + 2) = "barrier"
  /\ \A n \in Nat : n < Flushes(NRecs) => CallAt(2 * n + 3) = "ncmpi_wait_all"
<1>1. Flushes(NRecs) \in Nat
  BY FlushesProperties, CaseAssumption
<1>2. LastCall \in Nat /\ LastCall # 1 /\ LastCall = 2 * Flushes(NRecs) + 3
  BY <1>1 DEF LastCall
<1>3. CallAt(1) = "ncmpi_enddef" /\ CallAt(LastCall) = "ncmpi_close"
  BY <1>2 DEF CallAt
<1>4. ASSUME NEW n \in Nat, n <= Flushes(NRecs) PROVE CallAt(2 * n + 2) = "barrier"
  <2>1. 2 * n + 2 # 1 /\ 2 * n + 2 # LastCall /\ (2 * n + 2) % 2 = 0
    BY <1>1, <1>2
  <2> QED
    BY <2>1 DEF CallAt
<1>5. ASSUME NEW n \in Nat, n < Flushes(NRecs)
      PROVE  CallAt(2 * n + 3) = "ncmpi_wait_all"
  <2>1. 2 * n + 3 # 1 /\ 2 * n + 3 # LastCall /\ (2 * n + 3) % 2 # 0
    BY <1>1, <1>2, <1>5
  <2> QED
    BY <2>1 DEF CallAt
<1> QED
  BY <1>3, <1>4, <1>5

\* A call at its place goes on with the program of calls.
LEMMA EnterNext ==
  ASSUME Typed, NEW r \in Rank, CallInv(r), NEW call \in Call, Enter(r, call),
         call = CallAt(Len(calls[r]) + 1)
  PROVE  /\ Len(calls'[r]) = Len(calls[r]) + 1
         /\ \A i \in 1 .. Len(calls'[r]) : calls'[r][i] = CallAt(i)
<1>1. calls[r] \in Seq(Call) /\ calls'[r] = Append(calls[r], call)
  BY DEF Typed, Enter
<1> QED
  BY <1>1 DEF CallInv

\* Steps that flush come before the end.
LEMMA FlushSteps ==
  ASSUME NEW k \in Step, FlushAfter(k)
  PROVE  k \in Nat /\ Flushes(k) < Flushes(NRecs) /\ Flushes(k) \in Nat
<1>1. k \in Nat /\ k + 1 <= NRecs
  BY CaseAssumption DEF FlushAfter, FlushEvery, Step
<1>2. Flushes(k + 1) = Flushes(k) + 1 /\ Flushes(k) \in Nat /\ Flushes(NRecs) \in Nat
  BY <1>1, FlushesProperties, CaseAssumption
<1>3. Flushes(k + 1) <= Flushes(NRecs)
  BY <1>1, FlushesProperties
<1> QED
  BY <1>1, <1>2, <1>3

LEMMA NextStepCalls ==
  ASSUME Typed, NEW r \in Rank, CallInv(r), NextStep(r),
         (pc[r] = "post" /\ ~FlushAfter(rec[r])) \/ pc[r] = "wait"
  PROVE  CallInv(r)'
<1>1. rec[r] \in Step /\ rec[r] \in Int /\ rec[r] + 1 \in Nat /\ rec[r] + 1 <= NRecs
  BY CaseAssumption DEF Typed, Step
<1>2. Len(calls[r]) = 2 * Flushes(rec[r] + 1) + 1
  <2>1. CASE pc[r] = "post" /\ ~FlushAfter(rec[r])
    <3>1. Flushes(rec[r] + 1) = Flushes(rec[r])
      <4>1. CASE rec[r] = -1
        BY <4>1, FlushesProperties
      <4>2. CASE rec[r] \in Nat
        BY <2>1, <4>2, FlushesProperties
      <4> QED
        BY <1>1, <4>1, <4>2
    <3> QED
      BY <2>1, <3>1 DEF CallInv, NCalls
  <2>2. CASE pc[r] = "wait"
    <3>1. FlushAfter(rec[r]) /\ Len(calls[r]) = 2 * Flushes(rec[r]) + 3
      BY <2>2 DEF CallInv, NCalls
    <3>2. rec[r] \in Nat /\ Flushes(rec[r]) \in Nat
      BY <1>1, <3>1, FlushSteps
    <3>3. Flushes(rec[r] + 1) = Flushes(rec[r]) + 1
      BY <3>1, <3>2, FlushesProperties
    <3> QED
      BY <3>1, <3>2, <3>3
  <2> QED
    BY <2>1, <2>2
<1>3. CASE rec[r] + 1 < NRecs
  <2>1. pc'[r] = "post" /\ rec'[r] = rec[r] + 1 /\ calls' = calls
    BY <1>3 DEF NextStep, Typed
  <2> QED
    BY <1>2, <2>1 DEF CallInv, NCalls
<1>4. CASE ~(rec[r] + 1 < NRecs)
  <2>1. rec[r] + 1 = NRecs /\ NRecs \in Nat
    BY <1>1, <1>4, CaseAssumption
  <2>2. pc'[r] = "sync" /\ Enter(r, "barrier")
    BY <1>4 DEF NextStep, Typed
  <2>3. Flushes(NRecs) \in Nat
    BY <2>1, FlushesProperties
  <2>4. CallAt(Len(calls[r]) + 1) = "barrier"
    <3>1. Len(calls[r]) + 1 = 2 * Flushes(NRecs) + 2
      BY <1>2, <2>1, <2>3
    <3> QED
      BY <2>3, <3>1, CallAtFacts
  <2>5. "barrier" \in Call
    BY DEF Call
  <2>6. /\ Len(calls'[r]) = Len(calls[r]) + 1
        /\ \A i \in 1 .. Len(calls'[r]) : calls'[r][i] = CallAt(i)
    BY <2>2, <2>4, <2>5, EnterNext
  <2> QED
    BY <1>2, <2>1, <2>2, <2>3, <2>6 DEF CallInv, NCalls
<1> QED
  BY <1>3, <1>4

\* Every action goes on with the program of calls.
LEMMA CallsKept ==
  ASSUME Typed, NEW r \in Rank, CallInv(r), RankNext(r)
  PROVE  CallInv(r)'
<1>0. rec[r] \in Step /\ Call = {"ncmpi_enddef", "barrier", "ncmpi_wait_all", "ncmpi_close"}
      /\ Flushes(NRecs) \in Nat
  BY FlushesProperties, CaseAssumption DEF Typed, Call
<1>1. CASE DefVar(r)
  BY <1>1 DEF DefVar, CallInv
<1>2. CASE EndDef(r)
  <2>1. Len(calls[r]) = 0 /\ pc'[r] = "enddef" /\ Enter(r, "ncmpi_enddef")
    BY <1>2 DEF EndDef, CallInv, NCalls, Typed
  <2>2. CallAt(Len(calls[r]) + 1) = "ncmpi_enddef"
    BY <2>1, CallAtFacts
  <2>3. /\ Len(calls'[r]) = Len(calls[r]) + 1
        /\ \A i \in 1 .. Len(calls'[r]) : calls'[r][i] = CallAt(i)
    BY <1>0, <2>1, <2>2, EnterNext
  <2>4. rec' = rec /\ rec[r] = -1
    BY <1>2 DEF EndDef, CallInv
  <2> QED
    BY <2>1, <2>3, <2>4 DEF CallInv, NCalls
<1>3. CASE Allocate(r)
  <2>1. pc[r] = "enddef" /\ pc'[r] = "post" /\ calls' = calls /\ rec' = rec
    BY <1>3 DEF Allocate, Typed
  <2>2. rec[r] = -1 /\ Len(calls[r]) = 1
    BY <2>1 DEF CallInv, NCalls
  <2>3. Flushes(rec[r]) = 0
    BY <2>2, FlushesProperties, Zenon
  <2>4. NCalls("post", rec[r]) = 1
    <3> DEFINE n == Flushes(rec[r])
    <3>1. n = 0
      BY <2>3
    <3> HIDE DEF n
    <3>2. 2 * n + 1 = 1
      BY <3>1
    <3> QED
      BY <3>2 DEF n, NCalls
  <2>5. Len(calls'[r]) = NCalls(pc'[r], rec'[r])
    BY <2>1, <2>2, <2>4
  <2> QED
    BY <2>1, <2>5 DEF CallInv
<1>4. CASE Iput(r)
  BY <1>4 DEF Iput, CallInv
<1>5. CASE EndStep(r)
  <2>1. CASE FlushAfter(rec[r])
    <3>1. /\ pc[r] = "post" /\ pc'[r] = "flush" /\ rec' = rec /\ Enter(r, "barrier")
          /\ Len(calls[r]) = 2 * Flushes(rec[r]) + 1
      BY <1>5, <2>1 DEF EndStep, Typed, CallInv, NCalls
    <3>2. Flushes(rec[r]) \in Nat /\ Flushes(rec[r]) < Flushes(NRecs)
      BY <1>0, <2>1, FlushSteps
    <3>3. CallAt(Len(calls[r]) + 1) = "barrier"
      <4>1. Len(calls[r]) + 1 = 2 * Flushes(rec[r]) + 2
        BY <3>1, <3>2
      <4> QED
        BY <1>0, <3>2, <4>1, CallAtFacts
    <3>4. /\ Len(calls'[r]) = Len(calls[r]) + 1
          /\ \A i \in 1 .. Len(calls'[r]) : calls'[r][i] = CallAt(i)
      BY <1>0, <3>1, <3>3, EnterNext
    <3> QED
      BY <2>1, <3>1, <3>2, <3>4 DEF CallInv, NCalls
  <2>2. CASE ~FlushAfter(rec[r])
    BY <1>5, <2>2, NextStepCalls DEF EndStep
  <2> QED
    BY <2>1, <2>2
<1>6. CASE BeginWait(r)
  <2>1. /\ pc[r] = "flush" /\ pc'[r] = "wait" /\ rec' = rec
        /\ Enter(r, "ncmpi_wait_all") /\ FlushAfter(rec[r])
        /\ Len(calls[r]) = 2 * Flushes(rec[r]) + 2
    BY <1>6 DEF BeginWait, Typed, CallInv, NCalls
  <2>2. Flushes(rec[r]) \in Nat /\ Flushes(rec[r]) < Flushes(NRecs)
    BY <1>0, <2>1, FlushSteps
  <2>3. CallAt(Len(calls[r]) + 1) = "ncmpi_wait_all"
    <3>1. Len(calls[r]) + 1 = 2 * Flushes(rec[r]) + 3
      BY <2>1, <2>2
    <3> QED
      BY <1>0, <2>2, <3>1, CallAtFacts
  <2>4. /\ Len(calls'[r]) = Len(calls[r]) + 1
        /\ \A i \in 1 .. Len(calls'[r]) : calls'[r][i] = CallAt(i)
    BY <1>0, <2>1, <2>3, EnterNext
  <2> QED
    BY <2>1, <2>2, <2>4 DEF CallInv, NCalls
<1>7. CASE EndWait(r)
  BY <1>7, NextStepCalls DEF EndWait
<1>8. CASE BeginClose(r)
  <2>1. /\ pc[r] = "sync" /\ pc'[r] = "close" /\ Enter(r, "ncmpi_close")
        /\ Len(calls[r]) = 2 * Flushes(NRecs) + 2
    BY <1>8 DEF BeginClose, Typed, CallInv, NCalls
  <2>2. Len(calls[r]) + 1 = LastCall
    BY <1>0, <2>1 DEF LastCall
  <2>3. /\ Len(calls'[r]) = Len(calls[r]) + 1
        /\ \A i \in 1 .. Len(calls'[r]) : calls'[r][i] = CallAt(i)
    BY <1>0, <2>1, <2>2, EnterNext, CallAtFacts
  <2> QED
    BY <2>1, <2>2, <2>3 DEF CallInv, NCalls
<1>9. CASE EndClose(r)
  BY <1>9 DEF EndClose, CallInv, NCalls, Typed
<1> QED
  BY <1>1, <1>2, <1>3, <1>4, <1>5, <1>6, <1>7, <1>8, <1>9 DEF RankNext
-----------------------------------------------------------------------------
(* The lengths of the buffers and the pointers into them.                  *)

\* The variables a posting loop passes over use nothing of its buffers.
LEMMA Skipped ==
  ASSUME NEW r \in Rank, NEW b \in Buffer, NEW k \in Step,
         b[1] = "rec" <=> k >= 0,
         NEW i \in 0 .. NVars, NEW j \in 0 .. NVars, i <= j,
         \A w \in Remaining(r, k, i) : w > j
  PROVE  Used(r, b)[i] = Used(r, b)[j]
<1>1. ASSUME NEW w \in i + 1 .. j PROVE Uses(r, b)[w] = 0
  <2>1. w \in Var /\ w > i /\ w <= j
    BY CaseAssumption DEF Var
  <2>2. w \notin StepVars(r, k)
    BY <2>1 DEF Remaining
  <2>3. CASE ~Posts(r, w)
    <3>1. Advance(r, w) = 0
      BY <2>1, <2>3, BufferType DEF Buffered
    <3> QED
      BY <2>1, <3>1 DEF Uses
  <2>4. CASE Posts(r, w)
    <3>1. ~(w \in RecVar <=> k >= 0)
      BY <2>1, <2>2, <2>4 DEF StepVars
    <3>2. BufferOf(w) # b
      BY <2>1, <3>1, BufferType DEF Kind
    <3> QED
      BY <2>1, <3>2 DEF Uses
  <2> QED
    BY <2>3, <2>4
<1> QED
  BY <1>1, Lengths

\* The part that the next put of a loop uses begins where the pointer is.
LEMMA NextPut ==
  ASSUME NEW r \in Rank, NEW k \in Step, NEW c \in 0 .. NVars,
         NEW v \in Var, IsNext(v, r, k, c),
         NEW b \in Buffer, b[1] = "rec" <=> k >= 0
  PROVE  /\ Used(r, b)[c] = Used(r, b)[v - 1] /\ Used(r, b)[c] \in Nat
         /\ Used(r, b)[v] = Used(r, b)[c] + (IF b = BufferOf(v) THEN Advance(r, v) ELSE 0)
<1>1. v \in Remaining(r, k, c) /\ v > c /\ \A w \in Remaining(r, k, c) : v <= w
  BY DEF IsNext, Remaining
<1>2. v - 1 \in 0 .. NVars /\ c <= v - 1 /\ v \in Int
  BY <1>1, CaseAssumption DEF Var
<1>3. \A w \in Remaining(r, k, c) : w > v - 1
  BY <1>1, <1>2, CaseAssumption DEF Remaining, StepVars, Var
<1>4. Used(r, b)[c] = Used(r, b)[v - 1]
  BY <1>2, <1>3, Skipped
<1>5. Used(r, b)[v] = Used(r, b)[v - 1] + Uses(r, b)[v] /\ Used(r, b)[c] \in Nat
  BY Lengths
<1>6. Uses(r, b)[v] = IF b = BufferOf(v) THEN Advance(r, v) ELSE 0
  BY DEF Uses
<1> QED
  BY <1>4, <1>5, <1>6

\* def_var() counts what it adds, and wr_buf_malloc() makes room once.
LEMMA LengthsKept ==
  ASSUME Typed, NEW r \in Rank, LenInv(r), RankNext(r)
  PROVE  LenInv(r)'
<1>1. CASE DefVar(r)
  <2> DEFINE v == cur[r] + 1
  <2>1. /\ pc[r] = "define" /\ pc' = pc /\ v \in Var /\ cur'[r] = v /\ v - 1 = cur[r]
        /\ bufLen' = [bufLen EXCEPT ![r][BufferOf(v)] = @ + Defined(r, v)]
    BY <1>1, CaseAssumption DEF DefVar, Typed, Var
  <2> HIDE DEF v
  <2>2. ASSUME NEW b \in Buffer PROVE bufLen'[r][b] = Counted(r, b)[v]
    <3>1. bufLen[r][b] = Counted(r, b)[v - 1]
      BY <2>1 DEF LenInv
    <3>2. Counted(r, b)[v] = Counted(r, b)[v - 1] + Adds(r, b)[v]
      BY <2>1, Lengths
    <3>3. Adds(r, b)[v] = IF BufferOf(v) = b THEN Defined(r, v) ELSE 0
      BY <2>1 DEF Adds
    <3>4. /\ bufLen'[r][b] = IF BufferOf(v) = b THEN bufLen[r][b] + Defined(r, v)
                             ELSE bufLen[r][b]
          /\ bufLen[r][b] \in Nat
      BY <2>1, BufferType DEF Typed
    <3> QED
      BY <3>1, <3>2, <3>3, <3>4
  <2> QED
    BY <2>1, <2>2 DEF LenInv
<1>2. CASE EndDef(r)
  <2>1. /\ pc[r] = "define" /\ pc'[r] = "enddef" /\ cur[r] = NVars
        /\ cur' = cur /\ bufLen' = bufLen
    BY <1>2 DEF EndDef, Typed
  <2> QED
    BY <2>1 DEF LenInv
<1>3. CASE Allocate(r)
  <2>1. pc[r] = "enddef" /\ pc'[r] = "post"
    BY <1>3 DEF Allocate, Typed
  <2>2. \A b \in Buffer : bufLen'[r][b] = Malloc(b, bufLen[r][b])
    BY <1>3 DEF Allocate, Typed
  <2> QED
    BY <2>1, <2>2 DEF LenInv
<1>4. CASE ~(DefVar(r) \/ EndDef(r) \/ Allocate(r))
  <2>1. /\ pc[r] \notin {"define", "enddef"} /\ pc'[r] \notin {"define", "enddef"}
        /\ bufLen' = bufLen
    <3>1. CASE Iput(r) \/ BeginWait(r) \/ BeginClose(r) \/ EndClose(r)
      BY <3>1 DEF Iput, BeginWait, BeginClose, EndClose, Typed
    <3>2. CASE EndStep(r)
      BY <3>2 DEF EndStep, NextStep, Typed
    <3>3. CASE EndWait(r)
      BY <3>3 DEF EndWait, NextStep, Typed
    <3> QED
      BY <1>4, <3>1, <3>2, <3>3 DEF RankNext
  <2> QED
    BY <2>1 DEF LenInv
<1> QED
  BY <1>1, <1>2, <1>3, <1>4

\* The pointers at the beginning of a step.
LEMMA NextStepPtr ==
  ASSUME Typed, NEW r \in Rank, CallInv(r), PtrInv(r), NextStep(r),
         \/ /\ pc[r] = "post" /\ ~FlushAfter(rec[r])
            /\ Remaining(r, rec[r], cur[r]) = {}
         \/ pc[r] = "wait"
  PROVE  PtrInv(r)'
<1>1. CASE ~(rec[r] + 1 < NRecs)
  <2>1. pc'[r] = "sync"
    BY <1>1 DEF NextStep, Typed
  <2> QED
    BY <2>1 DEF PtrInv
<1>2. CASE rec[r] + 1 < NRecs
  <2>1. /\ rec'[r] = rec[r] + 1 /\ cur'[r] = 0 /\ ptr'[r] = PtrAt(r, rec[r] + 1)
        /\ rec[r] \in Step /\ rec[r] \in Int /\ rec[r] >= -1 /\ rec'[r] >= 0
        /\ cur[r] \in 0 .. NVars /\ NRecs \in Nat
    BY <1>2, CaseAssumption DEF NextStep, Typed, Step
  <2> DEFINE k == rec[r] + 1
  <2>2. k \in Nat /\ k < NRecs
    BY <1>2, <2>1
  <2>3. ASSUME NEW b \in Buffer, b[1] = "rec"
        PROVE  ptr'[r][b] = (k - Base(k)) * Total(r, b) + Used(r, b)[0]
    <3>1. Total(r, b) \in Nat /\ Used(r, b)[0] = 0
      BY Lengths
    <3>2. CASE AfterFlush(k)
      <4>1. ptr'[r][b] = 0
        BY <2>1, <2>3, <3>2 DEF PtrAt
      <4>2. Base(k) = k
        <5>1. CASE rec[r] = -1
          BY <2>2, <5>1, Periods
        <5>2. CASE rec[r] \in Nat
          <6>1. rec[r] < NRecs
            BY <2>1, <2>2, <5>2
          <6> QED
            BY <3>2, <5>2, <6>1, Periods
        <5> QED
          BY <2>1, <5>1, <5>2
      <4>3. k - Base(k) = 0 /\ 0 * Total(r, b) = 0
        BY <2>2, <3>1, <4>2
      <4> QED
        BY <3>1, <4>1, <4>3
    <3>3. CASE ~AfterFlush(k)
      <4>1. rec[r] # -1
        <5>1. ASSUME rec[r] = -1 PROVE FALSE
          <6>1. k = 0
            BY <5>1
          <6>2. AfterFlush(0)
            BY <2>2, Periods
          <6> QED
            BY <3>3, <6>1, <6>2
        <5> QED
          BY <5>1
      <4>2. rec[r] \in Nat /\ rec[r] < NRecs
        BY <2>1, <2>2, <4>1
      <4>3. Base(k) = Base(rec[r]) /\ Base(rec[r]) \in Nat /\ ~FlushAfter(rec[r])
        BY <1>2, <2>1, <3>3, <4>2, Periods
      <4>4. pc[r] = "post" /\ Remaining(r, rec[r], cur[r]) = {}
        BY <4>3 DEF CallInv
      <4>5. ptr'[r][b] = (rec[r] - Base(rec[r])) * Total(r, b) + Used(r, b)[cur[r]]
        BY <2>1, <2>3, <3>3, <4>2, <4>4 DEF PtrInv, PtrAt
      <4>6. Used(r, b)[cur[r]] = Total(r, b)
        <5>1. NVars \in 0 .. NVars /\ cur[r] <= NVars
          BY <2>1, CaseAssumption
        <5>2. b[1] = "rec" <=> rec[r] >= 0
          BY <2>3, <4>2
        <5> QED
          BY <2>1, <4>4, <5>1, <5>2, Skipped DEF Total
      <4>7. (k - Base(k)) * Total(r, b) = (rec[r] - Base(rec[r])) * Total(r, b) + Total(r, b)
        <5> DEFINE d == rec[r] - Base(rec[r])
                   t == Total(r, b)
        <5>1. d \in Int /\ t \in Nat /\ k - Base(k) = d + 1
          BY <3>1, <4>2, <4>3
        <5> HIDE DEF d, t
        <5>2. (d + 1) * t = d * t + t
          BY <5>1, Z3
        <5> QED
          BY <5>1, <5>2 DEF d, t
      <4>8. (rec[r] - Base(rec[r])) * Total(r, b) \in Int
        BY <3>1, <4>2, <4>3
      <4> QED
        BY <3>1, <4>5, <4>6, <4>7, <4>8
    <3> QED
      BY <3>2, <3>3
  <2> QED
    BY <2>1, <2>3 DEF PtrInv
<1> QED
  BY <1>1, <1>2

LEMMA PointersKept ==
  ASSUME Typed, NEW r \in Rank, CallInv(r), PtrInv(r), RankNext(r)
  PROVE  PtrInv(r)'
<1>1. CASE DefVar(r) \/ EndDef(r) \/ BeginWait(r) \/ BeginClose(r) \/ EndClose(r)
  <2>1. pc'[r] # "post"
    BY <1>1 DEF DefVar, EndDef, BeginWait, BeginClose, EndClose, Typed
  <2> QED
    BY <2>1 DEF PtrInv
<1>2. CASE Allocate(r)
  <2>1. pc[r] = "enddef" /\ rec[r] = -1 /\ rec' = rec /\ cur'[r] = 0
    BY <1>2 DEF Allocate, Typed, CallInv
  <2>2. \A b \in Buffer : ptr'[r][b] = 0 /\ Used(r, b)[0] = 0
    BY <1>2, Lengths DEF Allocate, Typed
  <2> QED
    BY <2>1, <2>2 DEF PtrInv
<1>3. CASE Iput(r)
  <2>1. PICK v \in Var :
          /\ IsNext(v, r, rec[r], cur[r])
          /\ cur' = [cur EXCEPT ![r] = v]
          /\ ptr' = [ptr EXCEPT ![r][BufferOf(v)] = @ + Advance(r, v)]
    BY <1>3 DEF Iput
  <2>2. pc[r] = "post" /\ pc' = pc /\ rec' = rec /\ cur'[r] = v
    BY <1>3, <2>1 DEF Iput, Typed
  <2>3. /\ rec[r] \in Step /\ cur[r] \in 0 .. NVars
        /\ BufferOf(v) \in Buffer /\ Advance(r, v) \in Nat
    BY BufferType DEF Typed
  <2>4. ASSUME NEW b \in Buffer
        PROVE  /\ ptr'[r][b] = ptr[r][b] + (IF b = BufferOf(v) THEN Advance(r, v) ELSE 0)
               /\ ptr[r][b] \in Nat
    BY <2>1, <2>3 DEF Typed
  <2>5. ASSUME NEW b \in Buffer, b[1] = "rec" <=> rec[r] >= 0
        PROVE  /\ Used(r, b)[v] = Used(r, b)[cur[r]]
                                  + (IF b = BufferOf(v) THEN Advance(r, v) ELSE 0)
               /\ Used(r, b)[cur[r]] \in Nat
    BY <2>1, <2>3, <2>5, NextPut
  <2>6. ASSUME NEW b \in Buffer, rec[r] = -1, b[1] = "fix"
        PROVE  ptr'[r][b] = Used(r, b)[v]
    <3>1. b[1] = "rec" <=> rec[r] >= 0
      BY <2>6
    <3>2. ptr[r][b] = Used(r, b)[cur[r]]
      BY <2>2, <2>6 DEF PtrInv
    <3> QED
      BY <2>4, <2>5, <3>1, <3>2
  <2>7. ASSUME NEW b \in Buffer, rec[r] >= 0, b[1] = "rec"
        PROVE  ptr'[r][b] = (rec[r] - Base(rec[r])) * Total(r, b) + Used(r, b)[v]
    <3>1. b[1] = "rec" <=> rec[r] >= 0
      BY <2>7
    <3>2. ptr[r][b] = (rec[r] - Base(rec[r])) * Total(r, b) + Used(r, b)[cur[r]]
      BY <2>2, <2>7 DEF PtrInv
    <3>3. (rec[r] - Base(rec[r])) * Total(r, b) \in Int
      <4>1. rec[r] \in Nat /\ rec[r] < NRecs
        BY <2>3, <2>7, CaseAssumption DEF Step
      <4>2. Base(rec[r]) \in Nat /\ Total(r, b) \in Nat
        BY <4>1, Periods, Lengths
      <4> QED
        BY <4>1, <4>2
    <3> QED
      BY <2>3, <2>4, <2>5, <3>1, <3>2, <3>3
  <2> QED
    BY <2>2, <2>6, <2>7 DEF PtrInv
<1>4. CASE EndStep(r)
  <2>1. CASE FlushAfter(rec[r])
    <3>1. pc'[r] = "flush"
      BY <1>4, <2>1 DEF EndStep, Typed
    <3> QED
      BY <3>1 DEF PtrInv
  <2>2. CASE ~FlushAfter(rec[r])
    BY <1>4, <2>2, NextStepPtr DEF EndStep
  <2> QED
    BY <2>1, <2>2
<1>5. CASE EndWait(r)
  BY <1>5, NextStepPtr DEF EndWait
<1> QED
  BY <1>1, <1>2, <1>3, <1>4, <1>5 DEF RankNext

-----------------------------------------------------------------------------
(* The pending requests.                                                   *)

\* Nothing is pending from an earlier period when one begins.
LEMMA NextStepPending ==
  ASSUME Typed, NEW r \in Rank, PendInv(r), NextStep(r),
         \/ pc[r] = "post" /\ ~FlushAfter(rec[r]) /\ pending'[r] = pending[r]
         \/ pc[r] = "wait" /\ pending'[r] = {}
  PROVE  PendInv(r)'
<1>1. pc'[r] \in {"post", "sync"}
  BY DEF NextStep, Typed
<1>2. CASE pending'[r] = {}
  BY <1>1, <1>2 DEF PendInv
<1>3. CASE pending'[r] = pending[r] /\ ~FlushAfter(rec[r])
  <2>1. CASE rec[r] + 1 < NRecs
    <3>1. /\ rec'[r] = rec[r] + 1 /\ rec[r] \in Step /\ rec[r] \in Int /\ NRecs \in Nat
      BY <2>1, CaseAssumption DEF NextStep, Typed, Step
    <3>2. ASSUME NEW q \in pending[r], Buffered(r, q.var), q.var \in RecVar
          PROVE  /\ rec'[r] >= 0 /\ Base(rec'[r]) <= q.rec /\ q.rec <= rec'[r]
                 /\ q.from = Place(r, q.var, rec'[r], q.rec)
      <4>1. /\ rec[r] >= 0 /\ Base(rec[r]) <= q.rec /\ q.rec <= rec[r] /\ q.rec \in Nat
            /\ q.from = Place(r, q.var, rec[r], q.rec)
        BY <3>2 DEF PendInv, Typed, Request
      <4>2. rec[r] \in Nat /\ rec[r] < NRecs
        BY <2>1, <3>1, <4>1
      <4>3. Base(rec[r] + 1) = Base(rec[r])
        BY <1>3, <4>2, Periods
      <4> QED
        BY <3>1, <4>1, <4>2, <4>3 DEF Place
    <3> QED
      BY <1>1, <1>3, <3>2 DEF PendInv
  <2>2. CASE ~(rec[r] + 1 < NRecs)
    <3>1. rec' = rec
      BY <2>2 DEF NextStep
    <3> QED
      BY <1>1, <1>3, <3>1 DEF PendInv
  <2> QED
    BY <2>1, <2>2
<1> QED
  BY <1>2, <1>3

LEMMA PendingKept ==
  ASSUME Typed, NEW r \in Rank, CallInv(r), PtrInv(r), PendInv(r), RankNext(r)
  PROVE  PendInv(r)'
<1>1. CASE DefVar(r) \/ EndDef(r) \/ Allocate(r)
  <2>1. pending[r] = {} /\ pending' = pending
    BY <1>1 DEF DefVar, EndDef, Allocate, PendInv
  <2> QED
    BY <2>1 DEF PendInv
<1>2. CASE Iput(r)
  <2>1. PICK v \in Var :
          /\ IsNext(v, r, rec[r], cur[r])
          /\ pending' = [pending EXCEPT ![r] =
               IF PutLen[r][v] = 0 THEN @
               ELSE @ \cup {[var |-> v, rec |-> RecOf(rec[r]),
                             from |-> ptr[r][BufferOf(v)]]}]
    BY <1>2 DEF Iput
  <2> DEFINE new == [var |-> v, rec |-> RecOf(rec[r]), from |-> ptr[r][BufferOf(v)]]
             b == BufferOf(v)
  <2>2. pc[r] = "post" /\ pc' = pc /\ rec' = rec
    BY <1>2 DEF Iput
  <2>3. \A q \in pending'[r] : q \in pending[r] \/ q = new
    BY <2>1 DEF Typed
  <2>4. /\ rec[r] \in Step /\ cur[r] \in 0 .. NVars /\ b \in Buffer
        /\ v \in RecVar <=> rec[r] >= 0
        /\ b[1] = "rec" <=> rec[r] >= 0
        /\ b[1] = "fix" \/ b[1] = "rec"
    <3>1. v \in RecVar <=> rec[r] >= 0
      BY <2>1 DEF IsNext, Remaining, StepVars
    <3>2. b \in Buffer /\ b[1] = Kind(v)
      BY BufferType
    <3> QED
      BY <3>1, <3>2 DEF Typed, Kind
  <2>5. Used(r, b)[cur[r]] = Used(r, b)[v - 1]
    BY <2>1, <2>4, NextPut
  <2>6. v \notin RecVar => new.rec = 0 /\ new.from = Used(r, b)[v - 1]
    <3>1. rec[r] < 0 => rec[r] = -1
      BY <2>4, CaseAssumption DEF Step
    <3> QED
      BY <2>2, <2>4, <2>5, <3>1 DEF PtrInv, RecOf, Step
  <2>7. v \in RecVar => /\ rec[r] >= 0 /\ Base(rec[r]) <= new.rec /\ new.rec <= rec[r]
                        /\ new.from = Place(r, v, rec[r], new.rec)
    <3> SUFFICES ASSUME v \in RecVar
                 PROVE  /\ rec[r] >= 0 /\ Base(rec[r]) <= new.rec /\ new.rec <= rec[r]
                        /\ new.from = Place(r, v, rec[r], new.rec)
      OBVIOUS
    <3>1. rec[r] \in Nat /\ rec[r] < NRecs /\ new.rec = rec[r]
      BY <2>4, CaseAssumption DEF Step, RecOf
    <3>2. Base(rec[r]) <= rec[r]
      BY <3>1, Periods
    <3>3. new.from = (rec[r] - Base(rec[r])) * Total(r, b) + Used(r, b)[cur[r]]
      BY <2>2, <2>4, <3>1 DEF PtrInv
    <3> QED
      BY <2>5, <3>1, <3>2, <3>3 DEF Place
  <2> HIDE DEF new, b
  <2>8. new.var = v /\ b = BufferOf(v)
    BY DEF new, b
  <2> QED
    BY <2>2, <2>3, <2>6, <2>7, <2>8 DEF PendInv
<1>3. CASE EndStep(r)
  <2>1. CASE FlushAfter(rec[r])
    <3>1. pc'[r] = "flush" /\ rec' = rec /\ pending' = pending
      BY <1>3, <2>1 DEF EndStep, Typed
    <3> QED
      BY <3>1 DEF PendInv
  <2>2. CASE ~FlushAfter(rec[r])
    BY <1>3, <2>2, NextStepPending DEF EndStep
  <2> QED
    BY <2>1, <2>2
<1>4. CASE BeginWait(r) \/ EndClose(r)
  <2>1. pc'[r] \in {"wait", "done"} /\ rec' = rec /\ pending' = pending
    BY <1>4 DEF BeginWait, EndClose, Typed
  <2> QED
    BY <2>1 DEF PendInv
<1>5. CASE EndWait(r)
  <2>1. pc[r] = "wait" /\ pending'[r] = {} /\ NextStep(r)
    BY <1>5 DEF EndWait, Completed, Typed
  <2> QED
    BY <2>1, NextStepPending
<1>6. CASE BeginClose(r)
  <2>1. pending'[r] = {}
    BY <1>6 DEF BeginClose, Typed
  <2> QED
    BY <2>1 DEF PendInv
<1> QED
  BY <1>1, <1>2, <1>3, <1>4, <1>5, <1>6 DEF RankNext

-----------------------------------------------------------------------------
(* The theorems.                                                           *)

LEMMA InitInv == Init => IInv
<1> SUFFICES ASSUME Init PROVE IInv
  OBVIOUS
<1>1. Typed
  BY CaseAssumption DEF Init, Typed, PC, Step
<1>2. ASSUME NEW r \in Rank PROVE RankInv(r)
  <2>1. CallInv(r)
    <3>1. calls[r] = <<>> /\ pc[r] = "define" /\ rec[r] = -1
      BY DEF Init
    <3> QED
      BY <3>1 DEF CallInv, NCalls
  <2>2. LenInv(r)
    <3>1. \A b \in Buffer : Counted(r, b)[0] = 0
      BY Lengths
    <3> QED
      BY <3>1 DEF Init, LenInv
  <2>3. PtrInv(r)
    BY DEF Init, PtrInv
  <2>4. PendInv(r)
    BY DEF Init, PendInv
  <2> QED
    BY <2>1, <2>2, <2>3, <2>4 DEF RankInv
<1> QED
  BY <1>1, <1>2 DEF IInv

LEMMA NextInv == IInv /\ [Next]_vars => IInv'
<1> SUFFICES ASSUME IInv, [Next]_vars PROVE IInv'
  OBVIOUS
<1>1. Typed /\ Typed'
  BY NextTyped DEF IInv
<1>2. ASSUME NEW q \in Rank PROVE RankInv(q)'
  <2>1. RankInv(q)
    BY DEF IInv
  <2>2. CASE UNCHANGED vars
    BY <2>1, <2>2, Unmoved DEF vars
  <2>3. ASSUME NEW r \in Rank, RankNext(r) PROVE RankInv(q)'
    <3>1. CASE q = r
      BY <1>1, <2>1, <2>3, <3>1, CallsKept, LengthsKept, PointersKept, PendingKept
         DEF RankInv
    <3>2. CASE q # r
      <4>1. /\ calls'[q] = calls[q] /\ pc'[q] = pc[q] /\ rec'[q] = rec[q]
            /\ cur'[q] = cur[q] /\ bufLen'[q] = bufLen[q] /\ ptr'[q] = ptr[q]
            /\ pending'[q] = pending[q]
        BY <1>1, <2>3, <3>2, Others
      <4> QED
        BY <2>1, <4>1, Unmoved
    <3> QED
      BY <3>1, <3>2
  <2> QED
    BY <2>2, <2>3 DEF Next, Finished
<1> QED
  BY <1>1, <1>2 DEF IInv

THEOREM Invariance == Spec => []IInv
BY InitInv, NextInv, PTL DEF Spec

\* The program of calls fixes the call at every place.
LEMMA InvCallsMatch == IInv => CallsMatch
<1> SUFFICES ASSUME IInv, NEW q \in Rank, NEW r \in Rank,
                    NEW i \in DOMAIN calls[q] \cap DOMAIN calls[r]
             PROVE  calls[q][i] = calls[r][i]
  BY DEF CallsMatch
<1>1. calls[q] \in Seq(Call) /\ calls[r] \in Seq(Call)
  BY DEF IInv, Typed
<1>2. i \in 1 .. Len(calls[q]) /\ i \in 1 .. Len(calls[r])
  BY <1>1
<1> QED
  BY <1>2 DEF IInv, RankInv, CallInv

\* The collective calls of the PnetCDF driver match: whatever a rank has to
\* write, every rank makes the barriers and waits of the flushes, which the
\* flush frequency alone determines.
THEOREM CallsAgree == Spec => []CallsMatch
BY Invariance, InvCallsMatch, PTL

\* A put uses a part of its buffer that ends where the next one's begins.
LEMMA Part ==
  ASSUME NEW r \in Rank, NEW v \in Var, Buffered(r, v),
         NEW b \in Buffer, b = BufferOf(v)
  PROVE  /\ Used(r, b)[v - 1] \in Nat /\ Used(r, b)[v] \in Nat /\ PutLen[r][v] \in Nat
         /\ Used(r, b)[v - 1] + PutLen[r][v] <= Used(r, b)[v]
         /\ Used(r, b)[v] <= Total(r, b)
<1>1. v \in 1 .. NVars /\ v - 1 \in 0 .. NVars /\ v \in 0 .. NVars
      /\ NVars \in 0 .. NVars
  BY CaseAssumption DEF Var
<1>2. /\ Used(r, b) \in [0 .. NVars -> Nat]
      /\ Used(r, b)[v] = Used(r, b)[v - 1] + Uses(r, b)[v]
      /\ \A i, j \in 0 .. NVars : i <= j => Used(r, b)[i] <= Used(r, b)[j]
  BY Lengths
<1>3. Uses(r, b)[v] = Advance(r, v)
  BY DEF Uses
<1>4. PutLen[r][v] \in Nat /\ Advance(r, v) \in Nat /\ PutLen[r][v] <= Advance(r, v)
  BY BufferType
<1>5. Used(r, b)[v] <= Used(r, b)[NVars]
  BY <1>1, <1>2
<1> QED
  BY <1>1, <1>2, <1>3, <1>4, <1>5 DEF Total

\* Parts of earlier records come before those of later ones, and within a
\* record those of earlier variables.
LEMMA PartsInOrder ==
  ASSUME NEW t \in Nat, NEW m \in Nat, NEW n \in Nat,
         NEW u \in Nat, NEW w \in Nat, u <= t,
         m < n \/ (m = n /\ u <= w)
  PROVE  m * t + u <= n * t + w
<1>1. CASE m < n
  <2>1. (m + 1) * t <= n * t /\ (m + 1) * t \in Nat /\ n * t \in Nat
    BY <1>1, Times
  <2>2. (m + 1) * t = m * t + t /\ m * t \in Nat
    BY Z3
  <2> QED
    BY <2>1, <2>2
<1>2. CASE m = n /\ u <= w
  <2>1. m * t \in Nat
    BY Z3
  <2> QED
    BY <1>2, <2>1
<1> QED
  BY <1>1, <1>2

LEMMA InvBuffersIntact == IInv => BuffersIntact
<1> SUFFICES ASSUME IInv, NEW r \in Rank,
                    NEW p \in {x \in pending[r] : Buffered(r, x.var)},
                    NEW q \in {x \in pending[r] : Buffered(r, x.var)}
             PROVE  /\ To(r, q) <= bufLen[r][BufferOf(q.var)]
                    /\ p # q /\ BufferOf(p.var) = BufferOf(q.var) =>
                         To(r, p) <= From(q) \/ To(r, q) <= From(p)
  BY DEF BuffersIntact
<1> DEFINE b == BufferOf(q.var)
           t == Total(r, b)
           U(v) == Used(r, b)[v]
           n == Base(rec[r])
<1>1. /\ p \in Request /\ q \in Request /\ p.var \in Var /\ q.var \in Var
      /\ p.rec \in Nat /\ q.rec \in Nat /\ p.from \in Nat /\ q.from \in Nat
      /\ rec[r] \in Step /\ pc[r] \notin {"define", "enddef"}
  BY DEF IInv, Typed, Request, RankInv, PendInv
<1>2. /\ b \in Buffer /\ b[1] = Kind(q.var) /\ t \in Nat
      /\ Counted(r, b)[NVars] \in Nat /\ t <= Counted(r, b)[NVars]
      /\ \A i, j \in 0 .. NVars : i <= j => U(i) <= U(j)
      /\ bufLen[r][b] = Malloc(b, Counted(r, b)[NVars])
  <2>1. b \in Buffer /\ b[1] = Kind(q.var)
    BY <1>1, BufferType
  <2>2. NVars \in 0 .. NVars
    BY CaseAssumption
  <2>3. bufLen[r][b] = Malloc(b, Counted(r, b)[NVars])
    BY <1>1, <2>1 DEF IInv, RankInv, LenInv
  <2> QED
    BY <2>1, <2>2, <2>3, Lengths
<1>3. /\ U(q.var - 1) \in Nat /\ U(q.var) \in Nat /\ PutLen[r][q.var] \in Nat
      /\ U(q.var - 1) + PutLen[r][q.var] <= U(q.var) /\ U(q.var) <= t
  BY <1>1, <1>2, Part
<1>4. BufferOf(p.var) = b =>
        /\ U(p.var - 1) \in Nat /\ U(p.var) \in Nat /\ PutLen[r][p.var] \in Nat
        /\ U(p.var - 1) + PutLen[r][p.var] <= U(p.var) /\ U(p.var) <= t
  BY <1>1, <1>2, Part
<1>5. BufferOf(p.var) = b => (p.var \in RecVar <=> q.var \in RecVar)
  BY <1>1, BufferType DEF Kind
<1>6. /\ \A x \in {p, q} : x.var \notin RecVar =>
           x.rec = 0 /\ x.from = Used(r, BufferOf(x.var))[x.var - 1]
      /\ \A x \in {p, q} : x.var \in RecVar =>
           /\ rec[r] >= 0 /\ n <= x.rec /\ x.rec <= rec[r]
           /\ x.from = Place(r, x.var, rec[r], x.rec)
  BY DEF IInv, RankInv, PendInv
<1>7. p.var < q.var /\ BufferOf(p.var) = b => U(p.var) <= U(q.var - 1)
  <2>1. p.var \in Int /\ q.var \in Int
        /\ p.var \in 0 .. NVars /\ q.var - 1 \in 0 .. NVars
    BY <1>1, CaseAssumption DEF Var
  <2> QED
    BY <1>2, <2>1
<1>8. q.var < p.var /\ BufferOf(p.var) = b => U(q.var) <= U(p.var - 1)
  <2>1. p.var \in Int /\ q.var \in Int
        /\ q.var \in 0 .. NVars /\ p.var - 1 \in 0 .. NVars
    BY <1>1, CaseAssumption DEF Var
  <2> QED
    BY <1>2, <2>1
<1>9. p.var \in Int /\ q.var \in Int
  BY <1>1, CaseAssumption DEF Var
<1> HIDE DEF b, t, U, n
<1>10. CASE q.var \notin RecVar
  <2>1. q.from = U(q.var - 1) /\ q.rec = 0
    BY <1>6, <1>10 DEF U, b
  <2>2. bufLen[r][b] = Counted(r, b)[NVars]
    BY <1>2, <1>10 DEF Malloc, Kind
  <2>3. To(r, q) <= bufLen[r][b]
    BY <1>2, <1>3, <2>1, <2>2 DEF To
  <2>4. ASSUME p # q, BufferOf(p.var) = b
        PROVE  To(r, p) <= From(q) \/ To(r, q) <= From(p)
    <3>1. p.from = U(p.var - 1) /\ p.rec = 0
      BY <1>5, <1>6, <1>10, <2>4 DEF U
    <3>2. p.var # q.var
      BY <1>1, <2>1, <2>4, <3>1 DEF Request
    <3>3. p.var < q.var \/ q.var < p.var
      BY <1>9, <3>2
    <3> QED
      BY <1>3, <1>4, <1>7, <1>8, <2>1, <2>4, <3>1, <3>3 DEF To, From
  <2> QED
    BY <2>3, <2>4 DEF b
<1>11. CASE q.var \in RecVar
  <2>1. rec[r] \in Nat /\ rec[r] < NRecs
    BY <1>1, <1>6, <1>11, CaseAssumption DEF Step
  <2>2. /\ EffFfreq \in Nat \ {0} /\ n \in Nat /\ n <= rec[r]
        /\ rec[r] - n + 1 <= EffFfreq
    BY <2>1, Periods DEF n
  <2> DEFINE i == q.rec - n
             j == p.rec - n
  <2>3. i \in Nat /\ i + 1 <= EffFfreq /\ q.from = i * t + U(q.var - 1)
    BY <1>1, <1>6, <1>11, <2>1, <2>2 DEF Place, U, t, b, n
  <2>4. bufLen[r][b] = Counted(r, b)[NVars] * EffFfreq
    BY <1>2, <1>11 DEF Malloc, Kind
  <2> HIDE DEF i
  <2>5. To(r, q) <= bufLen[r][b]
    <3>1. i * t + (U(q.var - 1) + PutLen[r][q.var]) <= EffFfreq * t + 0
      BY <1>2, <1>3, <2>2, <2>3, PartsInOrder
    <3>2. t * EffFfreq <= Counted(r, b)[NVars] * EffFfreq
          /\ Counted(r, b)[NVars] * EffFfreq \in Nat /\ t * EffFfreq \in Nat
      BY <1>2, <2>2, Times
    <3>3. EffFfreq * t = t * EffFfreq /\ i * t \in Nat
      BY <1>2, <2>2, <2>3, Z3
    <3> QED
      BY <1>3, <2>3, <2>4, <3>1, <3>2, <3>3 DEF To
  <2>6. ASSUME p # q, BufferOf(p.var) = b
        PROVE  To(r, p) <= From(q) \/ To(r, q) <= From(p)
    <3>1. j \in Nat /\ p.from = j * t + U(p.var - 1)
      BY <1>1, <1>5, <1>6, <1>11, <2>1, <2>2, <2>6 DEF Place, U, t, n
    <3> HIDE DEF j
    <3>2. i = j => p.var # q.var
      <4>1. i = j => p.rec = q.rec
        BY <1>1, <2>2 DEF i, j
      <4> QED
        BY <1>1, <2>3, <2>6, <3>1, <4>1 DEF Request
    <3>3. i * t \in Nat /\ j * t \in Nat
      BY <1>2, <2>3, <3>1, Z3
    <3>4. CASE j < i \/ (j = i /\ p.var < q.var)
      <4>1. j * t + (U(p.var - 1) + PutLen[r][p.var]) <= i * t + U(q.var - 1)
        BY <1>2, <1>3, <1>4, <1>7, <2>3, <2>6, <3>1, <3>4, PartsInOrder
      <4> QED
        BY <1>3, <1>4, <2>3, <2>6, <3>1, <3>3, <4>1 DEF To, From
    <3>5. CASE i < j \/ (j = i /\ q.var < p.var)
      <4>1. i * t + (U(q.var - 1) + PutLen[r][q.var]) <= j * t + U(p.var - 1)
        BY <1>2, <1>3, <1>4, <1>8, <2>3, <2>6, <3>1, <3>5, PartsInOrder
      <4> QED
        BY <1>3, <1>4, <2>3, <2>6, <3>1, <3>3, <4>1 DEF To, From
    <3> QED
      BY <1>9, <2>3, <3>1, <3>2, <3>4, <3>5
  <2> QED
    BY <2>5, <2>6 DEF b
<1> QED
  BY <1>10, <1>11

\* The buffers stay as the pending requests need them: the length def_var()
\* counts and wr_buf_malloc() multiplies is enough for all records of a flush
\* period, and the pointers return to the front only when no request on the
\* record buffers is pending.
THEOREM BuffersStayIntact == Spec => []BuffersIntact
BY Invariance, InvBuffersIntact, PTL

-----------------------------------------------------------------------------
(* The driver implements DeferredStore.                                    *)

\* What is stored belongs to earlier steps than what a rank posts, and nothing
\* is left for ncmpi_close() to give up.
StoreInv(r) ==
  /\ pc[r] \in {"define", "enddef", "sync", "close", "done"} => pending[r] = {}
  /\ rec[r] = -1 => stored[r] = {}
  /\ \A q \in pending[r] : q.var \in RecVar => q.rec <= rec[r]
  /\ \A s \in stored[r] : s[1] \in RecVar =>
       s[2] <= rec[r] /\ (pc[r] = "post" => s[2] < rec[r])

\* The program goes on to the close from a wait, or from a step -1 that is its
\* last.
LEMMA NextStepStore ==
  ASSUME Typed, NEW r \in Rank, NextStep(r), NRecs > 0,
         \/ /\ pc[r] = "post" /\ ~FlushAfter(rec[r]) /\ StoreInv(r)
            /\ pending' = pending /\ stored' = stored
         \/ /\ pending'[r] = {} /\ rec[r] >= 0
            /\ \A s \in stored'[r] : s[1] \in RecVar => s[2] \in Nat /\ s[2] <= rec[r]
  PROVE  StoreInv(r)'
<1>1. /\ rec[r] \in Int /\ rec[r] >= -1 /\ rec[r] < NRecs /\ NRecs \in Nat
      /\ \A q \in pending[r] : q.rec \in Nat
  BY CaseAssumption DEF Typed, Step, Request
<1>2. CASE rec[r] + 1 < NRecs
  <2>1. rec'[r] = rec[r] + 1 /\ pc'[r] = "post"
    BY <1>2 DEF NextStep, Typed
  <2>2. stored \in [Rank -> SUBSET (Var \X Nat)]
    BY DEF Typed
  <2>3. CASE /\ pc[r] = "post" /\ StoreInv(r) /\ pending' = pending /\ stored' = stored
    <3>1. \A s \in stored[r] : s[2] \in Nat
      BY <2>2
    <3> QED
      BY <1>1, <2>1, <2>3, <3>1 DEF StoreInv
  <2>4. CASE /\ pending'[r] = {} /\ rec[r] >= 0
             /\ \A s \in stored'[r] : s[1] \in RecVar => s[2] \in Nat /\ s[2] <= rec[r]
    <3>1. \A s \in stored'[r] : s[1] \in RecVar => s[2] <= rec'[r] /\ s[2] < rec'[r]
      BY <1>1, <2>1, <2>4
    <3> QED
      BY <1>1, <2>1, <2>4, <3>1 DEF StoreInv
  <2> QED
    BY <2>3, <2>4
<1>3. CASE ~(rec[r] + 1 < NRecs)
  <2>1. rec[r] + 1 = NRecs /\ rec[r] >= 0 /\ FlushAfter(rec[r])
    BY <1>1, <1>3 DEF FlushAfter, FlushEvery
  <2>2. pc'[r] = "sync" /\ rec' = rec
    BY <1>3 DEF NextStep, Typed
  <2> QED
    BY <1>1, <2>1, <2>2 DEF StoreInv
<1> QED
  BY <1>2, <1>3

LEMMA StoreKept ==
  ASSUME Typed, NEW r \in Rank, CallInv(r), StoreInv(r), RankNext(r), NRecs > 0
  PROVE  StoreInv(r)'
<1>1. CASE DefVar(r) \/ EndDef(r)
  BY <1>1 DEF DefVar, EndDef, StoreInv, Typed
<1>2. CASE Allocate(r)
  <2>1. /\ pc[r] = "enddef" /\ rec[r] = -1 /\ rec' = rec
        /\ pc'[r] = "post" /\ pending' = pending /\ stored' = stored
    BY <1>2 DEF Allocate, Typed, CallInv
  <2> QED
    BY <2>1 DEF StoreInv
<1>3. CASE Iput(r)
  <2>1. PICK v \in Var :
          /\ IsNext(v, r, rec[r], cur[r])
          /\ pending' = [pending EXCEPT ![r] =
               IF PutLen[r][v] = 0 THEN @
               ELSE @ \cup {[var |-> v, rec |-> RecOf(rec[r]),
                             from |-> ptr[r][BufferOf(v)]]}]
    BY <1>3 DEF Iput
  <2>2. pc[r] = "post" /\ pc' = pc /\ rec' = rec /\ stored' = stored /\ rec[r] \in Step
    BY <1>3 DEF Iput, Typed
  <2>3. v \in RecVar => RecOf(rec[r]) <= rec[r]
    BY <2>1, <2>2, CaseAssumption DEF IsNext, Remaining, StepVars, RecOf, Step
  <2>4. \A q \in pending'[r] : q \in pending[r] \/ (q.var = v /\ q.rec = RecOf(rec[r]))
    BY <2>1 DEF Typed
  <2> QED
    BY <2>2, <2>3, <2>4 DEF StoreInv
<1>4. CASE EndStep(r)
  <2>1. CASE FlushAfter(rec[r])
    <3>1. /\ pc[r] = "post" /\ pc'[r] = "flush" /\ rec' = rec
          /\ pending' = pending /\ stored' = stored
      BY <1>4, <2>1 DEF EndStep, Typed
    <3> QED
      BY <3>1 DEF StoreInv
  <2>2. CASE ~FlushAfter(rec[r])
    BY <1>4, <2>2, NextStepStore DEF EndStep
  <2> QED
    BY <2>1, <2>2
<1>5. CASE BeginWait(r) \/ EndClose(r)
  <2>1. /\ pc'[r] \in {"wait", "done"} /\ rec' = rec
        /\ (pc'[r] = "done" => pc[r] = "close")
        /\ pending' = pending /\ stored' = stored
    BY <1>5 DEF BeginWait, EndClose, Typed
  <2> QED
    BY <2>1 DEF StoreInv
<1>6. CASE EndWait(r)
  <2>1. /\ pc[r] = "wait" /\ NextStep(r) /\ pending'[r] = {}
        /\ stored'[r] = stored[r] \cup {<<q.var, q.rec>> : q \in pending[r]}
    BY <1>6 DEF EndWait, Completed, Typed
  <2>2. rec[r] >= 0
    BY <2>1 DEF CallInv, FlushAfter, FlushEvery
  <2>3. ASSUME NEW s \in stored'[r], s[1] \in RecVar
        PROVE  s[2] \in Nat /\ s[2] <= rec[r]
    <3>1. CASE s \in stored[r]
      BY <2>3, <3>1 DEF Typed, StoreInv
    <3>2. CASE s \notin stored[r]
      <4>1. PICK q \in pending[r] : s = <<q.var, q.rec>>
        BY <2>1, <2>3, <3>2
      <4>2. q.rec \in Nat
        BY DEF Typed, Request
      <4> QED
        BY <2>3, <4>1, <4>2 DEF StoreInv
    <3> QED
      BY <3>1, <3>2
  <2> QED
    BY <2>1, <2>2, <2>3, NextStepStore
<1>7. CASE BeginClose(r)
  <2>1. /\ pc[r] = "sync" /\ pc'[r] = "close" /\ rec' = rec
        /\ pending'[r] = {} /\ stored' = stored
    BY <1>7 DEF BeginClose, Typed
  <2> QED
    BY <2>1 DEF StoreInv
<1> QED
  BY <1>1, <1>2, <1>3, <1>4, <1>5, <1>6, <1>7 DEF RankNext

SInv == IInv /\ \A r \in Rank : StoreInv(r)

LEMMA InitStore == Init => SInv
BY InitInv DEF Init, SInv, StoreInv

LEMMA NextStore == NRecs > 0 /\ SInv /\ [Next]_vars => SInv'
<1> SUFFICES ASSUME NRecs > 0, SInv, [Next]_vars PROVE SInv'
  OBVIOUS
<1>1. IInv' /\ Typed
  BY NextInv DEF SInv, IInv
<1>2. ASSUME NEW q \in Rank PROVE StoreInv(q)'
  <2>1. StoreInv(q) /\ CallInv(q)
    BY DEF SInv, IInv, RankInv
  <2>2. CASE UNCHANGED vars
    BY <2>1, <2>2 DEF vars, StoreInv
  <2>3. ASSUME NEW r \in Rank, RankNext(r) PROVE StoreInv(q)'
    <3>1. CASE q = r
      BY <1>1, <2>1, <2>3, <3>1, StoreKept
    <3>2. CASE q # r
      <4>1. /\ pc'[q] = pc[q] /\ rec'[q] = rec[q]
            /\ pending'[q] = pending[q] /\ stored'[q] = stored[q]
        BY <1>1, <2>3, <3>2, Others
      <4> QED
        BY <2>1, <4>1 DEF StoreInv
    <3> QED
      BY <3>1, <3>2
  <2> QED
    BY <2>2, <2>3 DEF Next, Finished
<1> QED
  BY <1>1, <1>2 DEF SInv

\* What DeferredStore calls posted.
Posted == [r \in Rank |-> {<<q.var, q.rec>> : q \in pending[r]}]

LEMMA StepMaps ==
  ASSUME SInv, SInv', NEW r \in Rank, RankNext(r)
  PROVE  Store!Post(r) \/ Store!Flush(r) \/ (Posted' = Posted /\ stored' = stored)
<1>0. Typed /\ Typed' /\ CallInv(r) /\ StoreInv(r)
  BY DEF SInv, IInv, RankInv
<1>1. CASE pending' = pending /\ stored' = stored
  BY <1>1 DEF Posted
<1>2. CASE Iput(r)
  <2>1. PICK v \in Var :
          /\ IsNext(v, r, rec[r], cur[r])
          /\ pending' = [pending EXCEPT ![r] =
               IF PutLen[r][v] = 0 THEN @
               ELSE @ \cup {[var |-> v, rec |-> RecOf(rec[r]),
                             from |-> ptr[r][BufferOf(v)]]}]
          /\ pc[r] = "post" /\ stored' = stored
    BY <1>2 DEF Iput
  <2>2. /\ \A q \in Rank \ {r} : Posted'[q] = Posted[q]
        /\ Posted' \in [Rank -> SUBSET (Var \X Nat)]
        /\ Posted[r] \subseteq Posted'[r]
        /\ Posted'[r] \subseteq Posted[r] \cup {<<v, RecOf(rec[r])>>}
    <3>1. \A q \in Rank : pending'[q] \subseteq Request
      BY <1>0 DEF Typed
    <3>2. \A q \in Rank : \A x \in pending'[q] : <<x.var, x.rec>> \in Var \X Nat
      BY <3>1 DEF Request
    <3>3. /\ \A q \in Rank \ {r} : pending'[q] = pending[q]
          /\ pending[r] \subseteq pending'[r]
          /\ \A x \in pending'[r] : x \in pending[r] \/ (x.var = v /\ x.rec = RecOf(rec[r]))
      BY <1>0, <2>1 DEF Typed
    <3> QED
      BY <3>2, <3>3 DEF Posted
  <2>3. <<v, RecOf(rec[r])>> \notin stored[r]
    <3>1. rec[r] \in Step /\ (v \in RecVar <=> rec[r] >= 0)
      BY <1>0, <2>1 DEF Typed, IsNext, Remaining, StepVars
    <3>2. CASE rec[r] >= 0
      BY <1>0, <2>1, <3>1, <3>2, CaseAssumption DEF StoreInv, RecOf, Step
    <3>3. CASE ~(rec[r] >= 0)
      <4>1. rec[r] = -1
        BY <3>1, <3>3, CaseAssumption DEF Step
      <4> QED
        BY <1>0, <4>1 DEF StoreInv
    <3> QED
      BY <3>2, <3>3
  <2>4. (Posted'[r] \ Posted[r]) \cap stored[r] = {}
    BY <2>2, <2>3
  <2> QED
    BY <2>1, <2>2, <2>4 DEF Store!Post, Posted
<1>3. CASE EndWait(r)
  <2>1. /\ stored' = [stored EXCEPT ![r] = @ \cup Posted[r]]
        /\ pending' = [pending EXCEPT ![r] = {}]
    BY <1>0, <1>3 DEF EndWait, Completed, Posted, Typed
  <2>2. Posted' = [Posted EXCEPT ![r] = {}]
    BY <1>0, <2>1 DEF Posted, Typed
  <2>3. CASE Posted[r] = {}
    BY <1>0, <2>1, <2>2, <2>3 DEF Typed, Posted
  <2>4. CASE Posted[r] # {}
    BY <2>1, <2>2, <2>4 DEF Store!Flush, Posted
  <2> QED
    BY <2>3, <2>4
<1>4. CASE BeginClose(r)
  <2>1. pending[r] = {} /\ pending' = [pending EXCEPT ![r] = {}] /\ stored' = stored
    BY <1>0, <1>4 DEF BeginClose, StoreInv
  <2>2. pending' = pending
    BY <1>0, <2>1 DEF Typed
  <2> QED
    BY <2>1, <2>2 DEF Posted
<1> QED
  BY <1>1, <1>2, <1>3, <1>4
     DEF RankNext, DefVar, EndDef, Allocate, EndStep, BeginWait, EndClose

\* The safety part of StoreSpec, for runs with at least one record: a flush
\* completes exactly what its rank has posted, what is stored stays, nothing
\* stored is posted again, and ncmpi_close() finds no pending request to give
\* up. Without records nobody waits for the fixed-size variables.
StoreSafe == Store!Init /\ [][Store!Next]_(Store!vars)

THEOREM StoresSafely ==
  ASSUME NRecs > 0
  PROVE  Spec => StoreSafe
<1>1. Init => Store!Init
  BY DEF Init, Store!Init
<1>2. SInv /\ SInv' /\ [Next]_vars => [Store!Next]_(Store!vars)
  <2> SUFFICES ASSUME SInv, SInv', [Next]_vars PROVE [Store!Next]_(Store!vars)
    OBVIOUS
  <2>1. CASE UNCHANGED vars
    BY <2>1 DEF vars, Store!vars
  <2>2. ASSUME NEW r \in Rank, RankNext(r) PROVE [Store!Next]_(Store!vars)
    BY <2>2, StepMaps DEF Store!Next, Store!vars, Posted
  <2> QED
    BY <2>1, <2>2 DEF Next, Finished
<1>3. SInv /\ [Next]_vars => SInv'
  BY NextStore
<1> QED
  BY <1>1, <1>2, <1>3, InitStore, PTL DEF Spec, StoreSafe
-----------------------------------------------------------------------------
(* What is in the file, and the amounts.                                   *)

\* The puts a rank has made when it is at variable c of step k.
Made(r, k, c) ==
  {p \in Puts(r) : IF p[1] \in RecVar THEN p[2] < k \/ (p[2] = k /\ p[1] <= c)
                   ELSE k >= 0 \/ p[1] <= c}

\* Each of them is pending or stored, and only once; the amount is that of
\* the stored ones.
PutInv(r) ==
  /\ pc[r] \in {"define", "enddef"} => rec[r] = -1 /\ stored[r] \cup Posted[r] = {}
  /\ pc[r] \notin {"define", "enddef"} => stored[r] \cup Posted[r] = Made(r, rec[r], cur[r])
  /\ stored[r] \cap Posted[r] = {}
  /\ \A p, q \in pending[r] : p.var = q.var /\ p.rec = q.rec => p = q
  /\ pc[r] \notin {"define", "enddef", "post"} => Remaining(r, rec[r], cur[r]) = {}
  /\ pc[r] \in {"sync", "close", "done"} => rec[r] = NRecs - 1

\* The amounts are numbers, because what a wait completes can be counted ...
AmountInv ==
  /\ amount \in [Rank -> Nat]
  /\ \A r \in Rank : IsFiniteSet(Written(r, pending[r]))

\* ... and each is that of what is stored.
SumInv(r) ==
  /\ IsFiniteSet(PutElements(r, stored[r]))
  /\ amount[r] = Cardinality(PutElements(r, stored[r]))

LEMMA PutType ==
  ASSUME NEW r \in Rank, NEW p \in Puts(r)
  PROVE  /\ p = <<p[1], p[2]>> /\ p[1] \in Var /\ p[1] \in Int /\ p[1] > 0 /\ p[2] \in Nat
         /\ Posts(r, p[1]) /\ PutLen[r][p[1]] > 0
         /\ p[1] \in RecVar => p[2] < NRecs
         /\ p[1] \notin RecVar => p[2] = 0
BY CaseAssumption DEF Puts, Var

\* The next step begins with the puts that the last one has made.
LEMMA MadeStays ==
  ASSUME NEW r \in Rank, NEW k \in Step, NEW c \in 0 .. NVars, Remaining(r, k, c) = {}
  PROVE  Made(r, k + 1, 0) = Made(r, k, c)
<1> SUFFICES ASSUME NEW p \in Puts(r)
             PROVE  (IF p[1] \in RecVar THEN p[2] < k + 1 \/ (p[2] = k + 1 /\ p[1] <= 0)
                     ELSE k + 1 >= 0 \/ p[1] <= 0)
                    <=> (IF p[1] \in RecVar THEN p[2] < k \/ (p[2] = k /\ p[1] <= c)
                         ELSE k >= 0 \/ p[1] <= c)
  BY DEF Made
<1>1. k \in Int /\ k >= -1 /\ c \in Int
  BY CaseAssumption DEF Step
<1>2. (p[1] \in RecVar <=> k >= 0) => p[1] <= c
  <2>1. (p[1] \in RecVar <=> k >= 0) => p[1] \in StepVars(r, k)
    BY PutType DEF StepVars
  <2> QED
    BY <1>1, <2>1, PutType DEF Remaining
<1> QED
  BY <1>1, <1>2, PutType

\* The next put adds itself, unless it is empty.
LEMMA MadeNext ==
  ASSUME NEW r \in Rank, NEW k \in Step, NEW c \in 0 .. NVars, NEW v \in Var,
         IsNext(v, r, k, c)
  PROVE  /\ Made(r, k, v) = Made(r, k, c) \cup
              (IF PutLen[r][v] = 0 THEN {} ELSE {<<v, RecOf(k)>>})
         /\ <<v, RecOf(k)>> \notin Made(r, k, c)
<1>1. k \in Int /\ k >= -1 /\ k < NRecs /\ c \in Int /\ v \in Int /\ NRecs \in Nat
  BY CaseAssumption DEF Step, Var
<1>2. /\ v > c /\ Posts(r, v) /\ (v \in RecVar <=> k >= 0)
      /\ \A w \in Remaining(r, k, c) : v <= w
  BY DEF IsNext, Remaining, StepVars
<1>3. PutLen[r][v] \in Nat
  BY PncDriverAssumption
<1>4. <<v, RecOf(k)>> \in Puts(r) <=> PutLen[r][v] # 0
  BY <1>1, <1>2, <1>3 DEF Puts, RecOf
<1>5. <<v, RecOf(k)>> \notin Made(r, k, c)
  BY <1>1, <1>2 DEF Made, RecOf
<1>6. ASSUME NEW p \in Puts(r)
      PROVE  p \in Made(r, k, v) <=> p \in Made(r, k, c) \/ p = <<v, RecOf(k)>>
  <2>1. (p[1] \in RecVar <=> k >= 0) => (p[1] <= v <=> p[1] <= c \/ p[1] = v)
    <3>1. (p[1] \in RecVar <=> k >= 0) => p[1] \in StepVars(r, k)
      BY <1>6, PutType DEF StepVars
    <3> QED
      BY <1>1, <1>2, <1>6, <3>1, PutType DEF Remaining
  <2>2. p \in Made(r, k, v) <=>
          IF p[1] \in RecVar THEN p[2] < k \/ (p[2] = k /\ p[1] <= v) ELSE k >= 0 \/ p[1] <= v
    BY DEF Made
  <2>3. p \in Made(r, k, c) <=>
          IF p[1] \in RecVar THEN p[2] < k \/ (p[2] = k /\ p[1] <= c) ELSE k >= 0 \/ p[1] <= c
    BY DEF Made
  <2>4. p = <<v, RecOf(k)>> <=> p[1] = v /\ p[2] = RecOf(k)
    BY <1>6, PutType
  <2>5. CASE p[1] \in RecVar
    <3>1. CASE k >= 0
      BY <1>1, <1>2, <1>6, <2>1, <2>2, <2>3, <2>4, <2>5, <3>1, PutType DEF RecOf
    <3>2. CASE ~(k >= 0)
      BY <1>1, <1>2, <1>6, <2>2, <2>3, <2>4, <2>5, <3>2, PutType
    <3> QED
      BY <3>1, <3>2
  <2>6. CASE p[1] \notin RecVar
    <3>1. CASE k >= 0
      BY <1>1, <1>2, <2>2, <2>3, <2>4, <2>6, <3>1
    <3>2. CASE ~(k >= 0)
      BY <1>1, <1>2, <1>6, <2>1, <2>2, <2>3, <2>4, <2>6, <3>2, PutType DEF RecOf
    <3> QED
      BY <3>1, <3>2
  <2> QED
    BY <2>5, <2>6
<1>7. Made(r, k, v) \subseteq Puts(r) /\ Made(r, k, c) \subseteq Puts(r)
  BY DEF Made
<1> QED
  BY <1>4, <1>5, <1>6, <1>7

\* The elements of a set of puts are finitely many.
LEMMA WrittenAdds ==
  ASSUME NEW r \in Rank, NEW reqs \in SUBSET Request, NEW q \in Request,
         IsFiniteSet(Written(r, reqs))
  PROVE  IsFiniteSet(Written(r, reqs \cup {q}))
<1> DEFINE new == {q} \X (1 .. PutLen[r][q.var])
<1>1. PutLen[r][q.var] \in Nat
  BY PncDriverAssumption DEF Request
<1>2. IsFiniteSet({q})
  BY FS_Singleton
<1>3. IsFiniteSet(1 .. PutLen[r][q.var])
  BY <1>1, FS_Interval
<1>4. IsFiniteSet(new)
  BY <1>2, <1>3, FS_Product
<1>5. Written(r, reqs \cup {q}) = Written(r, reqs) \cup new
  <2>1. ASSUME NEW x PROVE x \in Written(r, reqs \cup {q}) <=> x \in Written(r, reqs) \cup new
    BY DEF Written
  <2> QED
    BY <2>1
<1> HIDE DEF new
<1> QED
  BY <1>4, <1>5, FS_Union

\* Requests that differ in variable or record write as much as their puts.
LEMMA WrittenPuts ==
  ASSUME NEW r \in Rank, NEW reqs \in SUBSET Request, IsFiniteSet(Written(r, reqs)),
         \A p, q \in reqs : p.var = q.var /\ p.rec = q.rec => p = q
  PROVE  LET puts == {<<q.var, q.rec>> : q \in reqs}
         IN  /\ IsFiniteSet(PutElements(r, puts))
             /\ Cardinality(PutElements(r, puts)) = Cardinality(Written(r, reqs))
<1> DEFINE puts == {<<q.var, q.rec>> : q \in reqs}
           S == Written(r, reqs)
           T == PutElements(r, puts)
           f == [x \in S |-> <<<<x[1].var, x[1].rec>>, x[2]>>]
<1>1. \A x \in S : x = <<x[1], x[2]>> /\ x[1] \in reqs /\ x[2] \in 1 .. PutLen[r][x[1].var]
  BY DEF Written
<1>2. \A q \in reqs : \A i \in 1 .. PutLen[r][q.var] : <<q, i>> \in S
  BY DEF Written
<1>3. \A y \in T : \E q \in reqs : \E i \in 1 .. PutLen[r][q.var] :
        y = <<<<q.var, q.rec>>, i>>
  BY DEF PutElements
<1>4. \A q \in reqs : \A i \in 1 .. PutLen[r][q.var] : <<<<q.var, q.rec>>, i>> \in T
  BY DEF PutElements
<1>5. f \in [S -> T]
  BY <1>1, <1>4
<1>6. \A x, y \in S : f[x] = f[y] => x = y
  BY <1>1
<1>7. \A y \in T : \E x \in S : f[x] = y
  <2> SUFFICES ASSUME NEW y \in T PROVE \E x \in S : f[x] = y
    OBVIOUS
  <2>1. PICK q \in reqs : \E i \in 1 .. PutLen[r][q.var] : y = <<<<q.var, q.rec>>, i>>
    BY <1>3
  <2>2. PICK i \in 1 .. PutLen[r][q.var] : y = <<<<q.var, q.rec>>, i>>
    BY <2>1
  <2>3. <<q, i>> \in S
    BY <1>2
  <2> QED
    BY <2>2, <2>3
<1> HIDE DEF f
<1>8. f \in Bijection(S, T)
  BY <1>5, <1>6, <1>7 DEF Bijection, Injection, Surjection, IsInjective
<1>9. ExistsBijection(S, T)
  BY <1>8 DEF ExistsBijection
<1> QED
  BY <1>9, FS_Bijection

\* What a rank has posted, and what a step does to it.
LEMMA PostedOf ==
  ASSUME NEW r \in Rank
  PROVE  Posted[r] = {<<q.var, q.rec>> : q \in pending[r]}
BY DEF Posted

LEMMA NextStepPuts ==
  ASSUME Typed, NEW r \in Rank, NextStep(r), Remaining(r, rec[r], cur[r]) = {},
         pc[r] \notin {"define", "enddef"}
  PROVE  /\ Made(r, rec'[r], cur'[r]) = Made(r, rec[r], cur[r])
         /\ pc'[r] \in {"post", "sync"}
         /\ pc'[r] = "sync" => rec'[r] = NRecs - 1 /\ Remaining(r, rec'[r], cur'[r]) = {}
<1>1. rec[r] \in Step /\ cur[r] \in 0 .. NVars
  BY DEF Typed
<1>2. CASE rec[r] + 1 < NRecs
  <2>1. rec'[r] = rec[r] + 1 /\ cur'[r] = 0 /\ pc'[r] = "post"
    BY <1>2 DEF NextStep, Typed
  <2> QED
    BY <1>1, <2>1, MadeStays
<1>3. CASE ~(rec[r] + 1 < NRecs)
  <2>1. rec' = rec /\ cur' = cur /\ pc'[r] = "sync"
    BY <1>3 DEF NextStep, Typed
  <2>2. rec[r] = NRecs - 1
    BY <1>1, <1>3, CaseAssumption DEF Step
  <2> QED
    BY <2>1, <2>2
<1> QED
  BY <1>2, <1>3

LEMMA PutKept ==
  ASSUME Typed, NEW r \in Rank, StoreInv(r), PutInv(r), RankNext(r)
  PROVE  PutInv(r)'
<1>1. CASE DefVar(r) \/ EndDef(r)
  <2>1. /\ pc[r] = "define" /\ pc'[r] \in {"define", "enddef"} /\ rec' = rec
        /\ pending' = pending /\ stored' = stored
    BY <1>1 DEF DefVar, EndDef, Typed
  <2> QED
    BY <2>1 DEF PutInv, Posted
<1>2. CASE Allocate(r)
  <2>1. /\ pc[r] = "enddef" /\ pc'[r] = "post" /\ rec' = rec /\ cur'[r] = 0
        /\ pending' = pending /\ stored' = stored
    BY <1>2 DEF Allocate, Typed
  <2>2. rec[r] = -1
    BY <2>1 DEF PutInv
  <2>3. Made(r, -1, 0) = {}
    <3>1. \A p \in Puts(r) : p[1] \in Int /\ p[1] > 0 /\ p[2] \in Nat
      BY PutType
    <3> QED
      BY <3>1 DEF Made
  <2>4. stored[r] \cup Posted[r] = {}
    BY <2>1 DEF PutInv
  <2>5. Posted' = Posted
    BY <2>1 DEF Posted
  <2> QED
    BY <2>1, <2>2, <2>3, <2>4, <2>5 DEF PutInv
<1>3. CASE Iput(r)
  <2>1. PICK v \in Var :
          /\ IsNext(v, r, rec[r], cur[r])
          /\ cur' = [cur EXCEPT ![r] = v]
          /\ pending' = [pending EXCEPT ![r] =
               IF PutLen[r][v] = 0 THEN @
               ELSE @ \cup {[var |-> v, rec |-> RecOf(rec[r]),
                             from |-> ptr[r][BufferOf(v)]]}]
    BY <1>3 DEF Iput
  <2> DEFINE k == rec[r]
             new == <<v, RecOf(rec[r])>>
  <2>2. pc[r] = "post" /\ pc' = pc /\ rec' = rec /\ stored' = stored /\ cur'[r] = v
    BY <1>3, <2>1 DEF Iput, Typed
  <2>3. /\ Made(r, rec[r], v) = Made(r, rec[r], cur[r]) \cup
              (IF PutLen[r][v] = 0 THEN {} ELSE {new})
        /\ new \notin Made(r, rec[r], cur[r])
    <3>1. rec[r] \in Step /\ cur[r] \in 0 .. NVars
      BY DEF Typed
    <3> QED
      BY <2>1, <3>1, MadeNext
  <2>4. /\ stored[r] \cup Posted[r] = Made(r, rec[r], cur[r])
        /\ stored[r] \cap Posted[r] = {}
        /\ \A p, q \in pending[r] : p.var = q.var /\ p.rec = q.rec => p = q
    BY <2>2 DEF PutInv
  <2>5. CASE PutLen[r][v] = 0
    <3>1. pending'[r] = pending[r]
      BY <2>1, <2>5 DEF Typed
    <3>2. Posted'[r] = Posted[r]
      BY <3>1 DEF Posted
    <3>3. Made(r, rec[r], v) = Made(r, rec[r], cur[r])
      BY <2>3, <2>5
    <3> QED
      BY <2>2, <2>4, <3>1, <3>2, <3>3 DEF PutInv
  <2>6. CASE PutLen[r][v] # 0
    <3> DEFINE q == [var |-> v, rec |-> RecOf(rec[r]), from |-> ptr[r][BufferOf(v)]]
    <3>1. pending'[r] = pending[r] \cup {q}
      BY <2>1, <2>6 DEF Typed
    <3>2. q.var = v /\ q.rec = RecOf(rec[r])
      OBVIOUS
    <3> HIDE DEF q
    <3>3. Posted'[r] = Posted[r] \cup {new}
      BY <3>1, <3>2 DEF Posted
    <3>4. \A p \in pending[r] : <<p.var, p.rec>> # new
      BY <2>3, <2>4 DEF Posted
    <3>5. \A p, x \in pending'[r] : p.var = x.var /\ p.rec = x.rec => p = x
      BY <2>4, <3>1, <3>2, <3>4
    <3>6. Made(r, rec[r], v) = Made(r, rec[r], cur[r]) \cup {new}
      BY <2>3, <2>6
    <3>7. stored[r] \cup Posted'[r] = Made(r, rec[r], v) /\ stored[r] \cap Posted'[r] = {}
      BY <2>3, <2>4, <3>3, <3>6
    <3> QED
      BY <2>2, <3>5, <3>7 DEF PutInv
  <2> QED
    BY <2>5, <2>6
<1>4. CASE EndStep(r)
  <2>1. /\ pc[r] = "post" /\ Remaining(r, rec[r], cur[r]) = {}
        /\ pending' = pending /\ stored' = stored
    BY <1>4 DEF EndStep
  <2>2. Posted' = Posted
    BY <2>1 DEF Posted
  <2>3. CASE FlushAfter(rec[r])
    <3>1. pc'[r] = "flush" /\ rec' = rec /\ cur' = cur
      BY <1>4, <2>3 DEF EndStep, Typed
    <3> QED
      BY <2>1, <2>2, <3>1 DEF PutInv
  <2>4. CASE ~FlushAfter(rec[r])
    <3>1. /\ Made(r, rec'[r], cur'[r]) = Made(r, rec[r], cur[r])
          /\ pc'[r] \in {"post", "sync"}
          /\ pc'[r] = "sync" => rec'[r] = NRecs - 1 /\ Remaining(r, rec'[r], cur'[r]) = {}
      BY <1>4, <2>1, <2>4, NextStepPuts DEF EndStep
    <3> QED
      BY <2>1, <2>2, <3>1 DEF PutInv
  <2> QED
    BY <2>3, <2>4
<1>5. CASE BeginWait(r) \/ EndClose(r)
  <2>1. /\ pc[r] \in {"flush", "close"} /\ pc'[r] \in {"wait", "done"}
        /\ (pc'[r] = "done" => pc[r] = "close")
        /\ rec' = rec /\ cur' = cur /\ pending' = pending /\ stored' = stored
    BY <1>5 DEF BeginWait, EndClose, Typed
  <2>2. Posted' = Posted
    BY <2>1 DEF Posted
  <2> QED
    BY <2>1, <2>2 DEF PutInv
<1>6. CASE EndWait(r)
  <2>1. /\ pc[r] = "wait" /\ NextStep(r) /\ pending'[r] = {}
        /\ stored'[r] = stored[r] \cup Posted[r]
    BY <1>6, PostedOf DEF EndWait, Completed, Typed
  <2>2. Posted'[r] = {}
    BY <2>1 DEF Posted
  <2>3. /\ Made(r, rec'[r], cur'[r]) = Made(r, rec[r], cur[r])
        /\ pc'[r] \in {"post", "sync"}
        /\ pc'[r] = "sync" => rec'[r] = NRecs - 1 /\ Remaining(r, rec'[r], cur'[r]) = {}
    BY <2>1, NextStepPuts DEF PutInv
  <2>4. stored'[r] \cup Posted'[r] = Made(r, rec'[r], cur'[r])
    BY <2>1, <2>2, <2>3 DEF PutInv
  <2> QED
    BY <2>1, <2>2, <2>3, <2>4 DEF PutInv
<1>7. CASE BeginClose(r)
  <2>1. /\ pc[r] = "sync" /\ pc'[r] = "close" /\ rec' = rec /\ cur' = cur
        /\ pending'[r] = {} /\ pending[r] = {} /\ stored' = stored
    BY <1>7 DEF BeginClose, Typed, StoreInv
  <2>2. Posted'[r] = Posted[r]
    BY <2>1 DEF Posted
  <2> QED
    BY <2>1, <2>2 DEF PutInv
<1> QED
  BY <1>1, <1>2, <1>3, <1>4, <1>5, <1>6, <1>7 DEF RankNext

LEMMA PendingFinite ==
  ASSUME Typed, NEW r \in Rank, IsFiniteSet(Written(r, pending[r])), RankNext(r)
  PROVE  IsFiniteSet(Written(r, pending'[r]))
<1>1. pending[r] \in SUBSET Request
  BY DEF Typed
<1>2. CASE DefVar(r) \/ EndDef(r) \/ Allocate(r) \/ EndStep(r) \/ BeginWait(r) \/ EndClose(r)
  BY <1>2 DEF DefVar, EndDef, Allocate, EndStep, BeginWait, EndClose
<1>3. CASE Iput(r)
  <2>1. PICK v \in Var :
          pending' = [pending EXCEPT ![r] =
               IF PutLen[r][v] = 0 THEN @
               ELSE @ \cup {[var |-> v, rec |-> RecOf(rec[r]),
                             from |-> ptr[r][BufferOf(v)]]}]
    BY <1>3 DEF Iput
  <2> DEFINE q == [var |-> v, rec |-> RecOf(rec[r]), from |-> ptr[r][BufferOf(v)]]
  <2>2. pending'[r] \in {pending[r], pending[r] \cup {q}}
    BY <2>1 DEF Typed
  <2>3. q \in Request
    <3>1. RecOf(rec[r]) \in Nat
      BY CaseAssumption DEF Typed, Step, RecOf
    <3>2. ptr[r][BufferOf(v)] \in Nat
      <4>1. BufferOf(v) \in Buffer
        BY BufferType
      <4> QED
        BY <4>1 DEF Typed
    <3> QED
      BY <3>1, <3>2 DEF Request
  <2> HIDE DEF q
  <2>4. IsFiniteSet(Written(r, pending[r] \cup {q}))
    BY <1>1, <2>3, WrittenAdds
  <2> QED
    BY <2>2, <2>4
<1>4. CASE EndWait(r) \/ BeginClose(r)
  <2>1. pending'[r] = {}
    BY <1>4 DEF EndWait, Completed, BeginClose, Typed
  <2>2. Written(r, {}) = {}
    BY DEF Written
  <2> QED
    BY <2>1, <2>2, FS_EmptySet
<1> QED
  BY <1>2, <1>3, <1>4 DEF RankNext

\* Only a wait counts, and what it completes.
LEMMA AmountMoves ==
  ASSUME AmountInv, NEW r \in Rank, RankNext(r)
  PROVE  /\ EndWait(r) => amount' =
              [amount EXCEPT ![r] = @ + Cardinality(Written(r, pending[r]))]
         /\ ~EndWait(r) => amount' = amount
BY DEF RankNext, DefVar, EndDef, Allocate, Iput, EndStep, BeginWait, EndWait, Completed,
       BeginClose, EndClose

LEMMA InitAmounts == Init => AmountInv
<1> SUFFICES ASSUME Init PROVE AmountInv
  OBVIOUS
<1>1. \A r \in Rank : Written(r, {}) = {}
  BY DEF Written
<1>2. \A r \in Rank : pending[r] = {} /\ amount = [q \in Rank |-> 0]
  BY DEF Init
<1> QED
  BY <1>1, <1>2, FS_EmptySet DEF Init, AmountInv

LEMMA NextAmounts == Typed /\ AmountInv /\ [Next]_vars => AmountInv'
<1> SUFFICES ASSUME Typed, AmountInv, [Next]_vars PROVE AmountInv'
  OBVIOUS
<1>1. CASE UNCHANGED vars
  BY <1>1 DEF vars, AmountInv, Written
<1>2. ASSUME NEW r \in Rank, RankNext(r) PROVE AmountInv'
  <2>1. amount' \in [Rank -> Nat]
    <3>1. Cardinality(Written(r, pending[r])) \in Nat
      BY FS_CardinalityType DEF AmountInv
    <3> QED
      BY <1>2, <3>1, AmountMoves DEF AmountInv
  <2>2. ASSUME NEW q \in Rank PROVE IsFiniteSet(Written(q, pending'[q]))
    <3>1. CASE q = r
      BY <1>2, <3>1, PendingFinite DEF AmountInv
    <3>2. CASE q # r
      BY <1>2, <3>2, Others DEF AmountInv
    <3> QED
      BY <3>1, <3>2
  <2> QED
    BY <2>1, <2>2 DEF AmountInv, Written
<1> QED
  BY <1>1, <1>2 DEF Next, Finished

LEMMA SumKept ==
  ASSUME Typed, AmountInv, NEW r \in Rank, PutInv(r), SumInv(r), RankNext(r)
  PROVE  SumInv(r)'
<1>1. CASE ~EndWait(r)
  <2>1. stored' = stored
    BY <1>1 DEF RankNext, DefVar, EndDef, Allocate, Iput, EndStep, BeginWait, BeginClose, EndClose
  <2>2. amount' = amount
    BY <1>1, AmountMoves
  <2> QED
    BY <2>1, <2>2 DEF SumInv, PutElements
<1>2. CASE EndWait(r)
  <2> DEFINE old == PutElements(r, stored[r])
             new == PutElements(r, Posted[r])
  <2>1. stored'[r] = stored[r] \cup Posted[r]
    BY <1>2, PostedOf DEF EndWait, Completed, Typed
  <2>2. amount'[r] = amount[r] + Cardinality(Written(r, pending[r]))
    BY <1>2, AmountMoves DEF AmountInv
  <2>3. IsFiniteSet(new) /\ Cardinality(new) = Cardinality(Written(r, pending[r]))
    <3>1. pending[r] \in SUBSET Request /\ IsFiniteSet(Written(r, pending[r]))
      BY DEF Typed, AmountInv
    <3>2. \A p, q \in pending[r] : p.var = q.var /\ p.rec = q.rec => p = q
      BY DEF PutInv
    <3> QED
      BY <3>1, <3>2, WrittenPuts, PostedOf
  <2>4. PutElements(r, stored'[r]) = old \cup new
    <3>1. ASSUME NEW x PROVE x \in PutElements(r, stored'[r]) <=> x \in old \cup new
      BY <2>1 DEF PutElements
    <3> QED
      BY <3>1
  <2>5. old \cap new = {}
    BY DEF PutElements, PutInv
  <2>6. IsFiniteSet(old) /\ amount[r] = Cardinality(old)
    BY DEF SumInv
  <2> HIDE DEF old, new
  <2>7. /\ IsFiniteSet(old \cup new)
        /\ Cardinality(old \cup new) = Cardinality(old) + Cardinality(new) - Cardinality(old \cap new)
    BY <2>3, <2>6, FS_Union
  <2>8. Cardinality(old \cap new) = 0 /\ Cardinality(old) \in Nat /\ Cardinality(new) \in Nat
    BY <2>3, <2>5, <2>6, FS_EmptySet, FS_CardinalityType
  <2>9. amount'[r] = Cardinality(PutElements(r, stored'[r]))
    BY <2>2, <2>3, <2>4, <2>6, <2>7, <2>8
  <2>10. IsFiniteSet(PutElements(r, stored'[r]))
    BY <2>4, <2>7
  <2> QED
    BY <2>9, <2>10 DEF SumInv, PutElements
<1> QED
  BY <1>1, <1>2

\* Every variable of the driver keeps its type; a pending request writes a
\* finite number of elements, so the amounts are numbers.
THEOREM TypeCorrect == Spec => []TypeOK
<1>1. Init => AmountInv
  BY InitAmounts
<1>2. IInv => Typed
  BY DEF IInv
<1>3. Typed /\ AmountInv => TypeOK
  BY DEF Typed, AmountInv, TypeOK
<1> QED
  BY <1>1, <1>2, <1>3, NextAmounts, Invariance, PTL DEF Spec

FInv == SInv /\ AmountInv /\ \A r \in Rank : PutInv(r) /\ SumInv(r)

LEMMA InitFile == Init => FInv
<1> SUFFICES ASSUME Init PROVE FInv
  OBVIOUS
<1>1. AmountInv
  BY InitAmounts
<1>2. ASSUME NEW r \in Rank PROVE PutInv(r) /\ SumInv(r)
  <2>1. PutElements(r, {}) = {}
    BY DEF PutElements
  <2>2. /\ stored[r] = {} /\ pending[r] = {} /\ amount[r] = 0 /\ rec[r] = -1
        /\ pc[r] = "define"
    BY <1>2 DEF Init
  <2>3. Posted[r] = {}
    BY <2>2, PostedOf
  <2> QED
    BY <2>1, <2>2, <2>3, FS_EmptySet DEF PutInv, SumInv
<1> QED
  BY <1>1, <1>2, InitStore DEF FInv

LEMMA NextFile == NRecs > 0 /\ FInv /\ [Next]_vars => FInv'
<1> SUFFICES ASSUME NRecs > 0, FInv, [Next]_vars PROVE FInv'
  OBVIOUS
<1>1. SInv' /\ Typed
  BY NextStore DEF FInv, SInv, IInv
<1>2. AmountInv'
  BY <1>1, NextAmounts DEF FInv
<1>3. ASSUME NEW q \in Rank PROVE PutInv(q)' /\ SumInv(q)'
  <2>1. PutInv(q) /\ SumInv(q) /\ StoreInv(q) /\ AmountInv
    BY DEF FInv, SInv
  <2>2. ASSUME pc'[q] = pc[q], rec'[q] = rec[q], cur'[q] = cur[q],
               pending'[q] = pending[q], stored'[q] = stored[q], amount'[q] = amount[q]
        PROVE  PutInv(q)' /\ SumInv(q)'
    <3>1. Posted'[q] = Posted[q]
      BY <2>2 DEF Posted
    <3>2. PutInv(q)'
      BY <2>1, <2>2, <3>1 DEF PutInv
    <3>3. SumInv(q)'
      BY <2>1, <2>2 DEF SumInv, PutElements
    <3> QED
      BY <3>2, <3>3
  <2>3. CASE UNCHANGED vars
    BY <2>2, <2>3 DEF vars
  <2>4. ASSUME NEW r \in Rank, RankNext(r) PROVE PutInv(q)' /\ SumInv(q)'
    <3>1. CASE q = r
      BY <1>1, <2>1, <2>4, <3>1, PutKept, SumKept
    <3>2. CASE q # r
      <4>1. amount'[q] = amount[q]
        BY <2>1, <2>4, <3>2, AmountMoves DEF AmountInv
      <4> QED
        BY <1>1, <2>2, <2>4, <3>2, <4>1, Others
    <3> QED
      BY <3>1, <3>2
  <2> QED
    BY <2>3, <2>4 DEF Next, Finished
<1> QED
  BY <1>1, <1>2, <1>3 DEF FInv

\* A closed file holds everything the ranks put, and each rank reports as much
\* as it wrote, for all lengths and every flush frequency. It takes a record:
\* without one nobody waits for the fixed-size variables.
THEOREM FileIsComplete ==
  ASSUME NRecs > 0
  PROVE  Spec => []FileComplete
<1>1. FInv => FileComplete
  <2> SUFFICES ASSUME FInv, NEW r \in Rank, pc[r] = "done"
               PROVE  /\ stored[r] = Puts(r)
                      /\ amount[r] = Cardinality(PutElements(r, Puts(r)))
    BY DEF FileComplete
  <2>1. Typed /\ StoreInv(r) /\ PutInv(r) /\ SumInv(r)
    BY DEF FInv, SInv, IInv
  <2>2. /\ stored[r] = Made(r, NRecs - 1, cur[r])
        /\ Remaining(r, NRecs - 1, cur[r]) = {}
    <3>1. Posted[r] = {}
      BY <2>1, PostedOf DEF StoreInv
    <3> QED
      BY <2>1, <3>1 DEF PutInv
  <2>3. Made(r, NRecs - 1, cur[r]) = Puts(r)
    <3>1. NRecs \in Nat /\ cur[r] \in Int
      BY <2>1, CaseAssumption DEF Typed
    <3>2. ASSUME NEW p \in Puts(r), p[1] \in RecVar, p[2] = NRecs - 1 PROVE p[1] <= cur[r]
      <4>1. p[1] \in StepVars(r, NRecs - 1)
        BY <3>1, <3>2, PutType DEF StepVars
      <4> QED
        BY <2>2, <3>1, <3>2, <4>1, PutType DEF Remaining
    <3>3. ASSUME NEW p \in Puts(r), p[1] \in RecVar
          PROVE  p[2] < NRecs - 1 \/ (p[2] = NRecs - 1 /\ p[1] <= cur[r])
      BY <3>1, <3>2, <3>3, PutType
    <3> QED
      BY <3>1, <3>3 DEF Made
  <2> QED
    BY <2>1, <2>2, <2>3 DEF SumInv
<1>2. FInv /\ [Next]_vars => FInv'
  BY NextFile
<1> QED
  BY <1>1, <1>2, InitFile, PTL DEF Spec
=============================================================================
