------------------------------ MODULE CoreProofs -----------------------------
(***************************************************************************)
(* A run leaves the files it was asked for, whatever the number of ranks,  *)
(* the build, the options and the input files.                             *)
(***************************************************************************)
EXTENDS Core, TLAPS

Labels ==
  {"main", "detect", "bcast", "select", "open", "unlink input", "write", "create",
   "unlink output", "done"}
Lists == {<<>>, <<"h0">>, <<"h1">>, <<"h0", "h1">>}

\* The history files a rank has still to read or to write.
ToDo(r) == {todo[r][i] : i \in DOMAIN todo[r]}

TypeInv ==
  /\ opt \in Options
  /\ pc \in [Rank -> Labels]
  /\ api = [r \in Rank |-> api[r]]
  /\ todo \in [Rank -> Lists]
  /\ store = [f \in FileNames |-> store[f]]

\* A rank that is to delete a file has read or written it.
ListInv == \A r \in Rank : pc[r] \in {"unlink input", "unlink output"} => todo[r] # <<>>

\* The lists are what is left of the files asked for.
SubInv == \A r \in Rank : ToDo(r) \subseteq Asked

\* Nothing happens to a run that main() refuses.
Refused == ~Accepts(opt) => \A r \in Rank : pc[r] = "main"

\* The input files are there as long as -k keeps them.
InputInv ==
  opt.keep \/ ~Accepts(opt) => \A h \in Hist : store[<<"in", h>>] = input[h]

\* Rank 0 has the option's api whenever it writes, although it may have had
\* another one while it read.
ApiInv ==
  /\ pc[0] \in {"main", "detect", "write", "create", "unlink output", "done"} => api[0] = opt.api
  /\ pc[0] \in {"write", "create", "unlink output"} => opt.wr

\* Where rank 0 is tells which output files there are: those written and
\* kept, and the one that is written but not yet deleted.
Written(h) == opt.keep /\ h \in Asked \ ToDo(0)
There(h) ==
  \/ pc[0] = "create" /\ Written(h)
  \/ pc[0] = "unlink output" /\ (Written(h) \/ h = Head(todo[0]))
  \/ pc[0] = "done" /\ opt.wr /\ opt.keep /\ h \in Asked
OutputInv ==
  \A h \in Hist :
    store[<<"out", h>>] = IF There(h) THEN FormatOf(opt.api, opt.strategy) ELSE "absent"

IInv == TypeInv /\ ListInv /\ SubInv /\ Refused /\ InputInv /\ ApiInv /\ OutputInv

-----------------------------------------------------------------------------
(* Lemmas. *)

\* A driver always writes some format.
LEMMA FormatIsFile ==
  ASSUME NEW a \in Api, NEW s PROVE FormatOf(a, s) # "absent"
  BY DEF FormatOf, Api

\* No file is left in the empty list.
LEMMA ListEmpty == {(<<>>)[i] : i \in DOMAIN <<>>} = {}
<1>1. DOMAIN <<>> = {}
  OBVIOUS
<1> QED
  BY <1>1

\* The lists have no file twice, and reading or writing takes the first.
LEMMA ListTail ==
  ASSUME NEW l \in Lists, l # <<>>
  PROVE  /\ Tail(l) \in Lists
         /\ Head(l) \in Hist
         /\ Head(l) \in {l[i] : i \in DOMAIN l}
         /\ {Tail(l)[i] : i \in DOMAIN Tail(l)} = {l[i] : i \in DOMAIN l} \ {Head(l)}
<1>1. CASE l = <<"h0">>
  BY <1>1 DEF Lists, Hist
<1>2. CASE l = <<"h1">>
  BY <1>2 DEF Lists, Hist
<1>3. CASE l = <<"h0", "h1">>
  BY <1>3 DEF Lists, Hist
<1> QED
  BY <1>1, <1>2, <1>3 DEF Lists

-----------------------------------------------------------------------------
(* The invariant. *)

LEMMA InitInv == Init => IInv
<1> SUFFICES ASSUME Init PROVE IInv
  OBVIOUS
<1> USE CoreAssumption
<1>1. TypeInv
  BY DEF Init, TypeInv, Labels, Lists
<1>2. ListInv /\ Refused /\ InputInv /\ ApiInv
  BY DEF Init, ListInv, Refused, InputInv, ApiInv, FileNames, Hist
<1>4. SubInv
  <2>1. \A r \in Rank : todo[r] = <<>>
    BY DEF Init
  <2> QED
    BY <2>1, ListEmpty DEF SubInv, ToDo
<1>3. OutputInv
  BY DEF Init, OutputInv, There, FileNames, Hist
<1> QED
  BY <1>1, <1>2, <1>3, <1>4 DEF IInv

\* What the output files are is a matter of rank 0, the options and the store.
LEMMA OutputFrame ==
  ASSUME OutputInv, UNCHANGED opt, pc'[0] = pc[0], todo'[0] = todo[0],
         \A h \in Hist : store'[<<"out", h>>] = store[<<"out", h>>]
  PROVE  OutputInv'
<1>1. UNCHANGED Asked /\ UNCHANGED ToDo(0)
  BY DEF Asked, ToDo
<1>2. \A h \in Hist : There(h)' <=> There(h)
  BY <1>1 DEF There, Written
<1> QED
  BY <1>2 DEF OutputInv

\* Rank 0 outside of the write test: there is no output file.
LEMMA NoOutput ==
  ASSUME UNCHANGED opt, pc[0] \notin {"create", "unlink output", "done"},
         pc'[0] \notin {"create", "unlink output", "done"} \/ (pc'[0] = "done" /\ ~opt.wr),
         OutputInv,
         \A h \in Hist : store'[<<"out", h>>] = store[<<"out", h>>]
  PROVE  OutputInv'
  BY DEF OutputInv, There

\* A rank's list stays, becomes the whole list, or the rest of its list.
Advances(q) ==
  \/ todo'[q] = todo[q]
  \/ todo'[q] = opt.hist
  \/ todo[q] # <<>> /\ todo'[q] = Tail(todo[q])

LEMMA SubFrame ==
  ASSUME IInv, UNCHANGED opt,
         \A q \in Rank : Advances(q)
  PROVE  SubInv'
<1> SUFFICES ASSUME NEW q \in Rank PROVE ToDo(q)' \subseteq Asked'
  BY DEF SubInv
<1>0. Advances(q)
  OBVIOUS
<1>1. Asked' = Asked /\ ToDo(q) \subseteq Asked /\ todo[q] \in Lists
  BY DEF Asked, IInv, SubInv, TypeInv
<1>2. CASE todo'[q] = todo[q] \/ todo'[q] = opt.hist
  BY <1>1, <1>2 DEF ToDo, Asked
<1>3. CASE todo[q] # <<>> /\ todo'[q] = Tail(todo[q])
  <2>1. ToDo(q)' \subseteq ToDo(q)
    BY <1>1, <1>3, ListTail DEF ToDo
  <2> QED
    BY <1>1, <2>1
<1> QED
  BY <1>0, <1>2, <1>3 DEF Advances

LEMMA SubSame ==
  ASSUME IInv, UNCHANGED <<opt, todo>>
  PROVE  SubInv'
  BY DEF IInv, SubInv, ToDo, Asked

\* An error, and the end, change nothing the invariant is about.
LEMMA SameInv ==
  ASSUME IInv, UNCHANGED <<opt, input, pc, api, todo, store>>
  PROVE  IInv'
<1>1. TypeInv'
  BY DEF IInv, TypeInv
<1>2. ListInv' /\ Refused' /\ InputInv' /\ ApiInv'
  BY DEF IInv, ListInv, Refused, InputInv, ApiInv
<1>3. OutputInv'
  BY OutputFrame DEF IInv
<1>4. SubInv'
  BY SubSame
<1> QED
  BY <1>1, <1>2, <1>3, <1>4 DEF IInv

LEMMA MainInv ==
  ASSUME IInv, NEW r \in Rank, Main(r)
  PROVE  IInv'
<1> USE CoreAssumption
<1>1. CASE Abort
  BY <1>1, SameInv DEF Abort
<1>2. CASE Accepts(opt) /\ pc' = [pc EXCEPT ![r] = IF opt.rd THEN "detect" ELSE "write"]
  <2>1. UNCHANGED <<opt, input, api, todo, store>>
    BY <1>2 DEF Main, Abort
  <2>2. opt.rd \/ opt.wr
    BY <1>2 DEF Accepts
  <2>3. TypeInv' /\ ListInv' /\ Refused' /\ InputInv'
    BY <1>2, <2>1 DEF IInv, TypeInv, ListInv, Refused, InputInv, Labels
  <2>4. pc[r] = "main" /\ pc'[r] \in {"detect", "write"} /\ \A q \in Rank \ {r} : pc'[q] = pc[q]
    BY <1>2 DEF Main, IInv, TypeInv
  <2>5. ApiInv'
    BY <1>2, <2>1, <2>2, <2>4 DEF IInv, TypeInv, ApiInv
  <2>6. OutputInv'
    <3>1. CASE r = 0
      BY <2>1, <2>4, <3>1, NoOutput DEF IInv
    <3>2. CASE r # 0
      BY <2>1, <2>4, <3>2, OutputFrame DEF IInv
    <3> QED
      BY <3>1, <3>2
  <2>s. SubInv'
    BY <2>1, SubSame
  <2> QED
    BY <2>3, <2>5, <2>6, <2>s DEF IInv
<1> QED
  BY <1>1, <1>2 DEF Main, Go

LEMMA DetectInv ==
  ASSUME IInv, NEW r \in Rank, Detect(r)
  PROVE  IInv'
<1> USE CoreAssumption
<1>1. CASE Abort
  BY <1>1, SameInv DEF Abort
<1>2. CASE /\ pc' = [pc EXCEPT ![r] = IF r = 0 THEN "select" ELSE "bcast"]
           /\ UNCHANGED <<opt, input, todo, store>>
           /\ api' = IF r = 0 THEN [api EXCEPT ![0] = Detected(store[<<"in", Head(opt.hist)>>], opt.api)] ELSE api
  <2>1. pc[r] = "detect"
    BY DEF Detect
  <2>2. TypeInv'
    <3>1. api' = [q \in Rank |-> api'[q]]
      BY <1>2 DEF IInv, TypeInv
    <3> QED
      BY <1>2, <3>1 DEF IInv, TypeInv, Labels
  <2>3. ListInv' /\ Refused' /\ InputInv'
    BY <1>2, <2>1 DEF IInv, TypeInv, ListInv, Refused, InputInv
  <2>4. pc'[r] \in {"select", "bcast"} /\ \A q \in Rank \ {r} : pc'[q] = pc[q]
    BY <1>2 DEF IInv, TypeInv
  <2>5. ApiInv'
    BY <1>2, <2>4 DEF IInv, ApiInv
  <2>6. OutputInv'
    <3>1. CASE r = 0
      BY <1>2, <2>1, <2>4, <3>1, NoOutput DEF IInv
    <3>2. CASE r # 0
      BY <1>2, <2>4, <3>2, OutputFrame DEF IInv
    <3> QED
      BY <3>1, <3>2
  <2>s. SubInv'
    BY <1>2, SubSame
  <2> QED
    BY <2>2, <2>3, <2>5, <2>6, <2>s DEF IInv
<1> QED
  BY <1>1, <1>2 DEF Detect, Go

LEMMA BcastInv ==
  ASSUME IInv, NEW r \in Rank, Bcast(r)
  PROVE  IInv'
<1> USE CoreAssumption
<1>1. /\ pc[r] = "bcast" /\ pc' = [pc EXCEPT ![r] = "select"]
      /\ api' = [api EXCEPT ![r] = Received(r)]
      /\ UNCHANGED <<opt, input, todo, store>>
  BY DEF Bcast, Go
<1>2. pc'[r] = "select" /\ \A q \in Rank \ {r} : pc'[q] = pc[q] /\ api'[q] = api[q]
  BY <1>1 DEF IInv, TypeInv
<1>3. TypeInv'
  <2>1. api' = [q \in Rank |-> api'[q]]
    BY <1>1 DEF IInv, TypeInv
  <2> QED
    BY <1>1, <2>1 DEF IInv, TypeInv, Labels
<1>4. ListInv' /\ Refused' /\ InputInv'
  BY <1>1, <1>2 DEF IInv, ListInv, Refused, InputInv
<1>5. ApiInv'
  BY <1>1, <1>2 DEF IInv, ApiInv
<1>6. OutputInv'
  <2>1. CASE r = 0
    BY <1>1, <1>2, <2>1, NoOutput DEF IInv
  <2>2. CASE r # 0
    BY <1>1, <1>2, <2>2, OutputFrame DEF IInv
  <2> QED
    BY <2>1, <2>2
<1>s. SubInv'
  BY <1>1, SubSame
<1> QED
  BY <1>3, <1>4, <1>5, <1>6, <1>s DEF IInv

LEMMA RdTestInv ==
  ASSUME IInv, NEW r \in Rank, RdTest(r)
  PROVE  IInv'
<1> USE CoreAssumption
<1>1. CASE Abort
  BY <1>1, SameInv DEF Abort
<1>2. CASE /\ pc' = [pc EXCEPT ![r] = "open"]
           /\ todo' = [todo EXCEPT ![r] = opt.hist]
           /\ UNCHANGED <<opt, input, api, store>>
  <2>1. pc[r] = "select"
    BY DEF RdTest
  <2>2. pc'[r] = "open" /\ \A q \in Rank \ {r} : pc'[q] = pc[q] /\ todo'[q] = todo[q]
    BY <1>2 DEF IInv, TypeInv
  <2>3. TypeInv'
    BY <1>2 DEF IInv, TypeInv, Labels, Options, Lists
  <2>4. ListInv' /\ Refused' /\ InputInv'
    BY <1>2, <2>1, <2>2 DEF IInv, ListInv, Refused, InputInv
  <2>5. ApiInv'
    BY <1>2, <2>2 DEF IInv, ApiInv
  <2>6. OutputInv'
    <3>1. CASE r = 0
      BY <1>2, <2>1, <2>2, <3>1, NoOutput DEF IInv
    <3>2. CASE r # 0
      BY <1>2, <2>2, <3>2, OutputFrame DEF IInv
    <3> QED
      BY <3>1, <3>2
  <2>t. UNCHANGED opt /\ \A q \in Rank : Advances(q)
    BY <1>2 DEF IInv, TypeInv, Advances
  <2>s. SubInv'
    BY <2>t, SubFrame
  <2> QED
    BY <2>3, <2>4, <2>5, <2>6, <2>s DEF IInv
<1> QED
  BY <1>1, <1>2 DEF RdTest, Go

LEMMA ReadFileInv ==
  ASSUME IInv, ReadFile
  PROVE  IInv'
<1> USE CoreAssumption
<1>1. CASE Abort
  BY <1>1, SameInv DEF Abort
<1>2. CASE pc' = All("unlink input") /\ UNCHANGED <<opt, input, api, todo, store>>
  <2>1. \A q \in Rank : pc[q] = "open" /\ pc'[q] = "unlink input" /\ todo[q] # <<>>
    BY <1>2 DEF ReadFile, Together, All
  <2>2. TypeInv'
    BY <1>2 DEF IInv, TypeInv, Labels, All
  <2>3. ListInv' /\ Refused' /\ InputInv' /\ ApiInv'
    BY <1>2, <2>1 DEF IInv, ListInv, Refused, InputInv, ApiInv
  <2>4. OutputInv'
    BY <1>2, <2>1, NoOutput DEF IInv
  <2>s. SubInv'
    BY <1>2, SubSame
  <2> QED
    BY <2>2, <2>3, <2>4, <2>s DEF IInv
<1> QED
  BY <1>1, <1>2 DEF ReadFile

LEMMA UnlinkInputInv ==
  ASSUME IInv, NEW r \in Rank, UnlinkInput(r)
  PROVE  IInv'
<1> USE CoreAssumption
<1>1. /\ pc[r] = "unlink input" /\ pc' = [pc EXCEPT ![r] = "open"]
      /\ store' = IF r = 0 /\ ~opt.keep
                  THEN [store EXCEPT ![<<"in", Head(todo[r])>>] = "absent"] ELSE store
      /\ todo' = [todo EXCEPT ![r] = Tail(todo[r])]
      /\ UNCHANGED <<opt, input, api>>
  BY DEF UnlinkInput, Unlink, Go
<1>2. pc'[r] = "open" /\ \A q \in Rank \ {r} : pc'[q] = pc[q] /\ todo'[q] = todo[q]
  BY <1>1 DEF IInv, TypeInv
<1>3. todo[r] \in Lists /\ todo[r] # <<>> /\ todo'[r] = Tail(todo[r])
  BY <1>1 DEF IInv, ListInv, TypeInv
<1>4. TypeInv'
  <2>1. Tail(todo[r]) \in Lists
    BY <1>3, ListTail DEF IInv, TypeInv
  <2>2. store' = [f \in FileNames |-> store'[f]]
    BY <1>1 DEF IInv, TypeInv
  <2> QED
    BY <1>1, <2>1, <2>2 DEF IInv, TypeInv, Labels
<1>5. ListInv' /\ Refused'
  BY <1>1, <1>2 DEF IInv, ListInv, Refused
<1>6. InputInv'
  <2>1. opt.keep \/ ~Accepts(opt) => store' = store
    BY <1>1 DEF IInv, Refused
  <2> QED
    BY <1>1, <2>1 DEF IInv, InputInv
<1>7. ApiInv'
  BY <1>1, <1>2 DEF IInv, ApiInv
<1>8. OutputInv'
  <2>1. \A h \in Hist : store'[<<"out", h>>] = store[<<"out", h>>]
    BY <1>1 DEF IInv, TypeInv, FileNames
  <2>2. CASE r = 0
    BY <1>1, <1>2, <2>1, <2>2, NoOutput DEF IInv
  <2>3. CASE r # 0
    BY <1>1, <1>2, <2>1, <2>3, OutputFrame DEF IInv
  <2> QED
    BY <2>2, <2>3
<1>t. UNCHANGED opt /\ \A q \in Rank : Advances(q)
  <2>1. UNCHANGED opt
    BY <1>1
  <2> QED
    BY <2>1, <1>2, <1>3 DEF Advances
<1>s. SubInv'
  BY <1>t, SubFrame
<1> QED
  BY <1>4, <1>5, <1>6, <1>7, <1>8, <1>s DEF IInv

LEMMA EndReadInv ==
  ASSUME IInv, NEW r \in Rank, EndRead(r)
  PROVE  IInv'
<1> USE CoreAssumption
<1>1. /\ pc[r] = "open" /\ pc' = [pc EXCEPT ![r] = IF opt.wr THEN "write" ELSE "done"]
      /\ api' = [api EXCEPT ![r] = opt.api]
      /\ UNCHANGED <<opt, input, todo, store>>
  BY DEF EndRead, Go, Restored
<1>2. /\ (pc'[r] = "write" /\ opt.wr) \/ (pc'[r] = "done" /\ ~opt.wr)
      /\ \A q \in Rank \ {r} : pc'[q] = pc[q]
  BY <1>1 DEF IInv, TypeInv
<1>3. api'[r] = opt.api /\ \A q \in Rank \ {r} : api'[q] = api[q]
  BY <1>1 DEF IInv, TypeInv
<1>4. TypeInv'
  <2>1. api' = [q \in Rank |-> api'[q]]
    BY <1>1 DEF IInv, TypeInv
  <2> QED
    BY <1>1, <2>1 DEF IInv, TypeInv, Labels
<1>5. ListInv' /\ Refused' /\ InputInv'
  BY <1>1, <1>2 DEF IInv, ListInv, Refused, InputInv
<1>6. ApiInv'
  BY <1>1, <1>2, <1>3 DEF IInv, ApiInv
<1>7. OutputInv'
  <2>1. CASE r = 0
    <3>1. pc'[0] \notin {"create", "unlink output", "done"} \/ (pc'[0] = "done" /\ ~opt.wr)
      BY <1>2, <2>1
    <3> QED
      BY <1>1, <2>1, <3>1, NoOutput DEF IInv
  <2>2. CASE r # 0
    BY <1>1, <1>2, <2>2, OutputFrame DEF IInv
  <2> QED
    BY <2>1, <2>2
<1>s. SubInv'
  BY <1>1, SubSame
<1> QED
  BY <1>4, <1>5, <1>6, <1>7, <1>s DEF IInv

LEMMA WrTestInv ==
  ASSUME IInv, NEW r \in Rank, WrTest(r)
  PROVE  IInv'
<1> USE CoreAssumption
<1>1. CASE Abort
  BY <1>1, SameInv DEF Abort
<1>2. CASE /\ pc' = [pc EXCEPT ![r] = "create"]
           /\ todo' = [todo EXCEPT ![r] = opt.hist]
           /\ UNCHANGED <<opt, input, api, store>>
  <2>1. pc[r] = "write"
    BY DEF WrTest
  <2>2. pc'[r] = "create" /\ \A q \in Rank \ {r} : pc'[q] = pc[q] /\ todo'[q] = todo[q]
    BY <1>2 DEF IInv, TypeInv
  <2>3. TypeInv'
    BY <1>2 DEF IInv, TypeInv, Labels, Options, Lists
  <2>4. ListInv' /\ Refused' /\ InputInv'
    BY <1>2, <2>1, <2>2 DEF IInv, ListInv, Refused, InputInv
  <2>5. ApiInv'
    BY <1>2, <2>1, <2>2 DEF IInv, ApiInv
  <2>6. OutputInv'
    <3>1. CASE r = 0
      <4>1. ToDo(0)' = Asked /\ UNCHANGED opt /\ UNCHANGED store
        BY <1>2, <3>1 DEF IInv, TypeInv, ToDo, Asked
      <4>2. pc[0] = "write" /\ pc'[0] = "create"
        BY <2>1, <2>2, <3>1
      <4> QED
        BY <4>1, <4>2 DEF IInv, OutputInv, There, Written, Asked
    <3>2. CASE r # 0
      BY <1>2, <2>2, <3>2, OutputFrame DEF IInv
    <3> QED
      BY <3>1, <3>2
  <2>t. UNCHANGED opt /\ \A q \in Rank : Advances(q)
    BY <1>2 DEF IInv, TypeInv, Advances
  <2>s. SubInv'
    BY <2>t, SubFrame
  <2> QED
    BY <2>3, <2>4, <2>5, <2>6, <2>s DEF IInv
<1> QED
  BY <1>1, <1>2 DEF WrTest, Go

LEMMA WriteFileInv ==
  ASSUME IInv, WriteFile
  PROVE  IInv'
<1> USE CoreAssumption
<1>1. /\ store' = [store EXCEPT ![<<"out", Head(todo[0])>>] = FormatOf(api[0], opt.strategy)]
      /\ pc' = All("unlink output")
      /\ UNCHANGED <<opt, input, api, todo>>
  BY DEF WriteFile, File
<1>2. \A q \in Rank : pc[q] = "create" /\ pc'[q] = "unlink output" /\ todo[q] # <<>>
  BY <1>1 DEF WriteFile, Together, All
<1>3. api[0] = opt.api /\ opt.wr
  BY <1>2 DEF IInv, ApiInv
<1>4. TypeInv'
  <2>1. store' = [f \in FileNames |-> store'[f]]
    BY <1>1 DEF IInv, TypeInv
  <2> QED
    BY <1>1, <2>1 DEF IInv, TypeInv, Labels, All
<1>5. ListInv' /\ Refused' /\ ApiInv'
  BY <1>1, <1>2 DEF IInv, ListInv, Refused, ApiInv
<1>6. InputInv'
  <2>1. \A h \in Hist : store'[<<"in", h>>] = store[<<"in", h>>]
    BY <1>1 DEF IInv, TypeInv, FileNames
  <2> QED
    BY <1>1, <2>1 DEF IInv, InputInv
<1>7. OutputInv'
  <2>1. Head(todo[0]) \in Hist /\ Head(todo[0]) \in ToDo(0)
    <3>1. todo[0] \in Lists /\ todo[0] # <<>>
      BY <1>2 DEF IInv, TypeInv
    <3> QED
      BY <3>1, ListTail DEF ToDo
  <2>2. \A h \in Hist : store'[<<"out", h>>]
          = IF h = Head(todo[0]) THEN FormatOf(opt.api, opt.strategy) ELSE store[<<"out", h>>]
    BY <1>1, <1>3, <2>1 DEF IInv, TypeInv, FileNames
  <2>3. \A h \in Hist : store[<<"out", h>>]
          = IF Written(h) THEN FormatOf(opt.api, opt.strategy) ELSE "absent"
    BY <1>2 DEF IInv, OutputInv, There
  <2>4. \A h \in Hist : Written(h)' <=> Written(h)
    BY <1>1 DEF Written, Asked, ToDo
  <2>5. UNCHANGED <<opt, todo>> /\ pc'[0] = "unlink output"
    BY <1>1, <1>2
  <2> QED
    BY <2>2, <2>3, <2>4, <2>5 DEF OutputInv, There
<1>s. SubInv'
  BY <1>1, SubSame
<1> QED
  BY <1>4, <1>5, <1>6, <1>7, <1>s DEF IInv

LEMMA UnlinkOutputInv ==
  ASSUME IInv, NEW r \in Rank, UnlinkOutput(r)
  PROVE  IInv'
<1> USE CoreAssumption
<1>1. /\ pc[r] = "unlink output" /\ pc' = [pc EXCEPT ![r] = "create"]
      /\ store' = IF r = 0 /\ ~opt.keep
                  THEN [store EXCEPT ![<<"out", Head(todo[r])>>] = "absent"] ELSE store
      /\ todo' = [todo EXCEPT ![r] = Tail(todo[r])]
      /\ UNCHANGED <<opt, input, api>>
  BY DEF UnlinkOutput, Unlink, Go
<1>2. pc'[r] = "create" /\ \A q \in Rank \ {r} : pc'[q] = pc[q] /\ todo'[q] = todo[q]
  BY <1>1 DEF IInv, TypeInv
<1>3. todo[r] \in Lists /\ todo[r] # <<>> /\ todo'[r] = Tail(todo[r])
  BY <1>1 DEF IInv, ListInv, TypeInv
<1>4. TypeInv'
  <2>1. Tail(todo[r]) \in Lists
    BY <1>3, ListTail
  <2>2. store' = [f \in FileNames |-> store'[f]]
    BY <1>1 DEF IInv, TypeInv
  <2> QED
    BY <1>1, <2>1, <2>2 DEF IInv, TypeInv, Labels
<1>5. ListInv' /\ Refused'
  BY <1>1, <1>2 DEF IInv, ListInv, Refused
<1>6. InputInv'
  <2>1. \A h \in Hist : store'[<<"in", h>>] = store[<<"in", h>>]
    BY <1>1 DEF IInv, TypeInv, FileNames
  <2> QED
    BY <1>1, <2>1 DEF IInv, InputInv
<1>7. ApiInv'
  BY <1>1, <1>2 DEF IInv, ApiInv
<1>8. OutputInv'
  <2>1. CASE r # 0
    BY <1>1, <1>2, <2>1, OutputFrame DEF IInv
  <2>2. CASE r = 0
    <3>1. Head(todo[0]) \in Hist /\ Head(todo[0]) \in ToDo(0)
          /\ ToDo(0)' = ToDo(0) \ {Head(todo[0])}
      <4>1. todo[0] \in Lists /\ todo[0] # <<>> /\ todo'[0] = Tail(todo[0])
        BY <1>3, <2>2
      <4>2. /\ Head(todo[0]) \in Hist
            /\ Head(todo[0]) \in {todo[0][i] : i \in DOMAIN todo[0]}
            /\ {Tail(todo[0])[i] : i \in DOMAIN Tail(todo[0])}
                 = {todo[0][i] : i \in DOMAIN todo[0]} \ {Head(todo[0])}
        BY <4>1, ListTail
      <4> QED
        BY <4>1, <4>2, Zenon DEF ToDo
    <3>2. UNCHANGED Asked
      BY <1>1 DEF Asked
    <3>3. \A h \in Hist : store[<<"out", h>>]
            = IF Written(h) \/ h = Head(todo[0]) THEN FormatOf(opt.api, opt.strategy) ELSE "absent"
      BY <1>1, <2>2 DEF IInv, OutputInv, There
    <3>4. \A h \in Hist : store'[<<"out", h>>]
            = IF ~opt.keep /\ h = Head(todo[0]) THEN "absent" ELSE store[<<"out", h>>]
      BY <1>1, <2>2, <3>1 DEF IInv, TypeInv, FileNames
    <3>5. \A h \in Hist : store'[<<"out", h>>]
            = IF opt.keep /\ h \in Asked \ ToDo(0)' THEN FormatOf(opt.api, opt.strategy) ELSE "absent"
      <4>1. (opt.keep /\ Head(todo[0]) \in Asked) \/ ~opt.keep
        BY <1>1, <2>2, <3>1 DEF IInv, SubInv
      <4> QED
        BY <3>1, <3>3, <3>4, <4>1 DEF Written
    <3> QED
      BY <1>1, <1>2, <2>2, <3>2, <3>5 DEF OutputInv, There, Written
  <2> QED
    BY <2>1, <2>2
<1>t. UNCHANGED opt /\ \A q \in Rank : Advances(q)
  <2>1. UNCHANGED opt
    BY <1>1
  <2> QED
    BY <2>1, <1>2, <1>3 DEF Advances
<1>s. SubInv'
  BY <1>t, SubFrame
<1> QED
  BY <1>4, <1>5, <1>6, <1>7, <1>8, <1>s DEF IInv

LEMMA EndWriteInv ==
  ASSUME IInv, NEW r \in Rank, EndWrite(r)
  PROVE  IInv'
<1> USE CoreAssumption
<1>1. /\ pc[r] = "create" /\ todo[r] = <<>> /\ pc' = [pc EXCEPT ![r] = "done"]
      /\ UNCHANGED <<opt, input, api, todo, store>>
  BY DEF EndWrite, Go
<1>2. pc'[r] = "done" /\ \A q \in Rank \ {r} : pc'[q] = pc[q]
  BY <1>1 DEF IInv, TypeInv
<1>3. TypeInv'
  BY <1>1 DEF IInv, TypeInv, Labels
<1>4. ListInv' /\ Refused' /\ InputInv'
  BY <1>1, <1>2 DEF IInv, ListInv, Refused, InputInv
<1>5. ApiInv'
  BY <1>1, <1>2 DEF IInv, ApiInv
<1>6. OutputInv'
  <2>1. CASE r # 0
    BY <1>1, <1>2, <2>1, OutputFrame DEF IInv
  <2>2. CASE r = 0
    <3>1. ToDo(0) = {} /\ UNCHANGED Asked /\ opt.wr
      BY <1>1, <2>2, ListEmpty DEF ToDo, Asked, IInv, ApiInv
    <3>2. \A h \in Hist : There(h)' <=> There(h)
      BY <1>1, <1>2, <2>2, <3>1 DEF There, Written
    <3> QED
      BY <1>1, <3>2 DEF IInv, OutputInv
  <2> QED
    BY <2>1, <2>2
<1>s. SubInv'
  BY <1>1, SubSame
<1> QED
  BY <1>3, <1>4, <1>5, <1>6, <1>s DEF IInv

-----------------------------------------------------------------------------
(* The theorems. *)

LEMMA StepInv == IInv /\ [Next]_vars => IInv'
<1>1. ASSUME IInv, NEW r \in Rank, Step(r) PROVE IInv'
  BY <1>1, MainInv, DetectInv, BcastInv, RdTestInv, UnlinkInputInv, EndReadInv, WrTestInv,
     UnlinkOutputInv, EndWriteInv DEF Step
<1>2. ASSUME IInv, Finished \/ UNCHANGED vars PROVE IInv'
  BY <1>2, SameInv DEF Finished, vars
<1> QED
  BY <1>1, <1>2, ReadFileInv, WriteFileInv DEF Next

\* IInv is an invariant of every run.
THEOREM Invariance == Spec => []IInv
  BY InitInv, StepInv, PTL DEF Spec

\* For every number of ranks, every build, all options and whatever the input
\* files are: no file of a format other than the option's is ever there under
\* an output name, a run that ends leaves the outputs it was asked for and
\* nothing else, and -k keeps the input files.
THEOREM FilesAreAsAsked == Spec => []FilesAsAsked
<1>1. IInv => FilesAsAsked
  <2> SUFFICES ASSUME IInv PROVE FilesAsAsked
    OBVIOUS
  <2>1. FormatOf(opt.api, opt.strategy) # "absent"
    BY FormatIsFile DEF IInv, TypeInv, Options
  <2>2. \A h \in Hist : store[<<"out", h>>] \in {"absent", FormatOf(opt.api, opt.strategy)}
    BY DEF IInv, OutputInv
  <2>3. ASSUME Ended, NEW h \in Hist
        PROVE  Exists(<<"out", h>>) <=> opt.wr /\ opt.keep /\ h \in Asked
    <3>1. pc[0] = "done"
      BY <2>3, CoreAssumption DEF Ended, All
    <3>2. There(h) <=> opt.wr /\ opt.keep /\ h \in Asked
      BY <3>1 DEF There
    <3> QED
      BY <2>1, <3>2 DEF IInv, OutputInv, Exists
  <2> QED
    BY <2>2, <2>3 DEF FilesAsAsked, IInv, InputInv
<1> QED
  BY <1>1, Invariance, PTL
=============================================================================
