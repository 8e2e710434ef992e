-------------------------- MODULE RunHistory_proofs ---------------------------
(***************************************************************************)
(* Proofs about what stays on record of a run.                             *)
(*                                                                         *)
(* ForkReplay: the event log, its forks and their replay, for any forks,   *)
(* timestamps, parent run, continuation and number of failing appends.     *)
(*                                                                         *)
(* Provenance: the graph store, the event store and the ratchet ledger,    *)
(* for any models, log files, number of sessions, however they overlap, and *)
(* number of processes that end early.                                     *)
(***************************************************************************)
EXTENDS ForkReplay, Provenance, DataLemmas

-----------------------------------------------------------------------------
(* ForkReplay.  Its inductive invariant: three kinds of rows that never    *)
(* share an id; a prefix is in reading order; and the copies of a fork     *)
(* stand in the log in the order of its prefix, as many as have been made. *)

ParentIds == {Parent} \X (Nat \ {0})
ParentRows == [id : ParentIds, run : {Parent}, ts : Nat, pay : Payloads]
CopyRows(f) == [id : {f} \X ParentIds, run : {f}, ts : Nat, pay : Payloads]
NewRows(f) == [id : {"new"} \X {f} \X Nat, run : {f}, ts : Nat, pay : Payloads]
Rows == ParentRows \cup UNION {CopyRows(f) \cup NewRows(f) : f \in Forks}

RunAt(run) == {i \in DOMAIN log : log[i].run = run}
CopyAt(f) == {i \in DOMAIN log : log[i].run = f /\ log[i].id[1] = f}

LogInv ==
  /\ log \in Seq(Rows)
  /\ \A i, j \in DOMAIN log : log[i].id = log[j].id => i = j
  /\ \A i \in RunAt(Parent) : log[i].id[2] <= Cardinality(RunAt(Parent))
  /\ \A f \in Forks : \A i \in Continuations(f) : log[i].id[3] <= Cardinality(Continuations(f))

Jobs ==
  [pc : {"none", "requested", "copying", "raised", "done"},
   at : Points, pooled : BOOLEAN, prefix : Seq(ParentRows), copied : Nat]

JobInv ==
  /\ job \in [Forks -> Jobs]
  /\ \A f \in Forks :
       /\ job[f].pc = "none" => job[f] = NoJob
       /\ job[f].pc \in {"none", "requested"} => job[f].prefix = << >>
       /\ job[f].copied <= Len(job[f].prefix)
       /\ job[f].pc = "done" => job[f].copied = Len(job[f].prefix)
       /\ job[f].pc # "done" => Continuations(f) = {}

(* A prefix is in reading order and has no event twice.                    *)
InReadingOrder(f) ==
  \A k, l \in DOMAIN job[f].prefix :
    k < l => /\ job[f].prefix[k].ts <= job[f].prefix[l].ts
             /\ job[f].prefix[k].id # job[f].prefix[l].id

(* g tells where the events of a prefix have been copied to, in order.     *)
Places(g, f) ==
  /\ g \in [1 .. job[f].copied -> DOMAIN log]
  /\ \A k \in 1 .. job[f].copied : log[g[k]] = Copy(f, job[f].prefix[k])
  /\ \A k, l \in 1 .. job[f].copied : k < l => g[k] < g[l]
  /\ \A i \in CopyAt(f) : \E k \in 1 .. job[f].copied : g[k] = i

Placed(f) == \E g \in [1 .. job[f].copied -> DOMAIN log] : Places(g, f)

CopiesInv == \A f \in Forks : InReadingOrder(f) /\ Placed(f)

IInv == LogInv /\ JobInv /\ CopiesInv

-----------------------------------------------------------------------------
(* Rows.                                                                   *)

(* What a row is can be told from its run or from its id.                  *)
LEMMA RowShape ==
  ASSUME NEW r \in Rows
  PROVE  /\ r.ts \in Nat /\ r.pay \in Payloads /\ r.run \in Forks \cup {Parent}
         /\ r.run = Parent => r \in ParentRows
         /\ r.id[1] = Parent => r.run = Parent
         /\ \A f \in Forks : r.id[1] = f => r.run = f /\ r \in CopyRows(f)
         /\ \A f \in Forks : r.run = f => r.id[1] = f \/ (r.id[1] = "new" /\ r \in NewRows(f))
         /\ r.id[1] = "new" => r.run \in Forks /\ r.id[2] = r.run
<1>1. CASE r \in ParentRows
  BY <1>1, RunAssumption, IdAssumption DEF ParentRows, ParentIds
<1>2. ASSUME NEW f \in Forks, r \in CopyRows(f) PROVE r.run = f /\ r.id[1] = f /\ r.ts \in Nat /\ r.pay \in Payloads
  BY <1>2 DEF CopyRows
<1>3. ASSUME NEW f \in Forks, r \in NewRows(f)
      PROVE  r.run = f /\ r.id[1] = "new" /\ r.id[2] = f /\ r.ts \in Nat /\ r.pay \in Payloads
  BY <1>3 DEF NewRows
<1>4. r \in ParentRows \/ \E f \in Forks : r \in CopyRows(f) \/ r \in NewRows(f)
  BY DEF Rows
<1> QED
  BY <1>1, <1>2, <1>3, <1>4, RunAssumption, IdAssumption

(* The rows at any positions can be read in order.                         *)
LEMMA LogReadable ==
  ASSUME LogInv, NEW at, at \subseteq DOMAIN log
  PROVE  ReadableRows(log, at) /\ Cardinality(at) \in Nat
<1>1. DOMAIN log = 1 .. Len(log) /\ Len(log) \in Nat /\ \A i \in DOMAIN log : log[i] \in Rows
  BY LenProperties, StackElement DEF LogInv
<1>2. IsFiniteSet(1 .. Len(log))
  BY <1>1, FS_Interval
<1>3. IsFiniteSet(at) /\ Cardinality(at) \in Nat
  BY <1>1, <1>2, FS_Subset, FS_CardinalityType
<1>4. \A i \in at : i \in Nat /\ log[i].ts \in Nat
  BY <1>1, RowShape
<1> QED
  BY <1>3, <1>4 DEF ReadableRows

(* A new row goes behind all others, and its id is its own.                *)
LEMMA LogGrows ==
  ASSUME LogInv, NEW row \in Rows, row.id \notin IdsIn(log), log' = AppendRow(log, row),
         NEW m, m = Len(log) + 1
  PROVE  /\ log' \in Seq(Rows)
         /\ m \in Nat \ DOMAIN log
         /\ DOMAIN log' = DOMAIN log \cup {m}
         /\ log'[m] = row
         /\ \A i \in DOMAIN log : i \in Nat /\ i < m /\ log'[i] = log[i]
         /\ \A i, j \in DOMAIN log' : log'[i].id = log'[j].id => i = j
<1>1. /\ log' \in Seq(Rows)
      /\ m \in Nat \ DOMAIN log
      /\ DOMAIN log' = DOMAIN log \cup {m}
      /\ log'[m] = row
      /\ \A i \in DOMAIN log : i \in Nat /\ i < m /\ log'[i] = log[i]
  <2>1. log \in Seq(Rows)
    BY DEF LogInv
  <2>2. log' = Append(log, row)
    BY DEF AppendRow
  <2>3. DOMAIN log = 1 .. Len(log) /\ Len(log) \in Nat
    BY <2>1, LenProperties
  <2>4. /\ log' \in Seq(Rows)
        /\ Len(log') = m
        /\ log'[m] = row
        /\ \A i \in 1 .. Len(log) : log'[i] = log[i]
    BY <2>1, <2>2, AppendProperties
  <2>5. DOMAIN log' = 1 .. m
    BY <2>4, LenProperties
  <2> QED
    BY <2>3, <2>4, <2>5
<1>2. \A i, j \in DOMAIN log' : log'[i].id = log'[j].id => i = j
  BY <1>1 DEF LogInv, IdsIn
<1> QED
  BY <1>1, <1>2

-----------------------------------------------------------------------------
(* The invariant holds at the start and is kept.                           *)

LEMMA InitIInv == Init => IInv
<1> SUFFICES ASSUME Init PROVE IInv
  OBVIOUS
<1>1. log = << >> /\ DOMAIN log = {}
  BY DEF Init
<1>2. LogInv
  BY <1>1, EmptySeq DEF LogInv, RunAt, Continuations
<1>3. job = [f \in Forks |-> NoJob] /\ NoJob \in Jobs
  BY EmptySeq DEF Init, NoJob, Jobs, Points
<1>4. JobInv
  BY <1>1, <1>3 DEF JobInv, NoJob, Continuations
<1>5. ASSUME NEW f \in Forks PROVE InReadingOrder(f) /\ Placed(f)
  <2>1. job[f].prefix = << >> /\ job[f].copied = 0
    BY <1>3 DEF NoJob
  <2>2. [k \in 1 .. 0 |-> 0] \in [1 .. job[f].copied -> DOMAIN log]
    BY <2>1
  <2> QED
    BY <1>1, <2>1, <2>2 DEF InReadingOrder, Placed, Places, CopyAt
<1> QED
  BY <1>2, <1>4, <1>5 DEF IInv, CopiesInv

(* Copies stay where they are when rows of other kinds are appended.       *)
LEMMA PlacedKept ==
  ASSUME NEW f \in Forks, Placed(f), DOMAIN log \subseteq DOMAIN log',
         \A i \in DOMAIN log : log'[i] = log[i], CopyAt(f)' = CopyAt(f),
         job'[f].prefix = job[f].prefix, job'[f].copied = job[f].copied
  PROVE  Placed(f)'
<1>1. PICK g \in [1 .. job[f].copied -> DOMAIN log] : Places(g, f)
  BY DEF Placed
<1>2. Places(g, f)'
  BY <1>1 DEF Places
<1> QED
  BY <1>2 DEF Placed, Places

(* A call goes one step without appending.                                 *)
LEMMA JobStepIInv ==
  ASSUME IInv, UNCHANGED log, NEW f \in Forks, NEW j \in Jobs, job' = [job EXCEPT ![f] = j],
         j.copied = job[f].copied, j.prefix = job[f].prefix,
         j.pc \notin {"none", "requested"} \/ j.prefix = << >>,
         j.pc = "none" => j = NoJob,
         job[f].pc # "done",
         j.pc = "done" => j.copied = Len(j.prefix)
  PROVE  IInv'
<1>1. LogInv'
  BY DEF IInv, LogInv, RunAt, Continuations
<1>2. \A e \in Forks : job'[e] = IF e = f THEN j ELSE job[e]
  BY DEF IInv, JobInv
<1>3. JobInv'
  <2>1. job' \in [Forks -> Jobs]
    BY DEF IInv, JobInv
  <2>2. ASSUME NEW e \in Forks
        PROVE  /\ job'[e].pc = "none" => job'[e] = NoJob
               /\ job'[e].pc \in {"none", "requested"} => job'[e].prefix = << >>
               /\ job'[e].copied <= Len(job'[e].prefix)
               /\ job'[e].pc = "done" => job'[e].copied = Len(job'[e].prefix)
               /\ job'[e].pc # "done" => Continuations(e) = {}
    BY <1>2 DEF IInv, JobInv
  <2>3. \A e \in Forks : Continuations(e)' = Continuations(e)
    BY DEF Continuations
  <2> QED
    BY <2>1, <2>2, <2>3 DEF JobInv
<1>4. ASSUME NEW e \in Forks PROVE InReadingOrder(e)' /\ Placed(e)'
  <2>1. job'[e].prefix = job[e].prefix /\ job'[e].copied = job[e].copied
    BY <1>2
  <2>2. Placed(e)'
    BY <2>1, PlacedKept DEF IInv, CopiesInv, CopyAt
  <2>3. InReadingOrder(e)'
    BY <2>1 DEF IInv, CopiesInv, InReadingOrder
  <2> QED
    BY <2>2, <2>3
<1> QED
  BY <1>1, <1>3, <1>4 DEF IInv, CopiesInv

(* What fork keeps of a list of events is a beginning of it.               *)
LEMMA PrefixBegins ==
  ASSUME NEW S, NEW events \in Seq(S), NEW at
  PROVE  /\ Prefix(events, at) \in Seq(S)
         /\ \A k \in DOMAIN Prefix(events, at) :
              k \in DOMAIN events /\ Prefix(events, at)[k] = events[k]
<1> DEFINE hits == {i \in DOMAIN events : events[i].id = at}
           c == CHOOSE i \in hits : \A j \in hits : i <= j
<1>1. DOMAIN events = 1 .. Len(events) /\ Len(events) \in Nat /\ \A i \in DOMAIN events : events[i] \in S
  BY LenProperties, StackElement
<1>2. CASE hits = {}
  <2>1. Prefix(events, at) = events
    BY <1>2 DEF Prefix
  <2> QED
    BY <2>1
<1>3. CASE hits # {}
  <2>1. hits \in SUBSET Nat
    BY <1>1
  <2>2. \E i \in hits : \A j \in hits : i <= j
    BY <1>3, <2>1, SmallestNumber
  <2>3. c \in hits
    BY <2>2
  <2>4. Prefix(events, at) = SubSeq(events, 1, c)
    BY <1>3 DEF Prefix
  <2>5. c \in 1 .. Len(events)
    BY <1>1, <2>3
  <2> HIDE DEF c, hits
  <2>6. \A i \in 1 .. c : events[i] \in S /\ i \in DOMAIN events
    BY <1>1, <2>5
  <2>7. /\ SubSeq(events, 1, c) \in Seq(S)
        /\ Len(SubSeq(events, 1, c)) = c
        /\ \A i \in 1 .. c : SubSeq(events, 1, c)[i] = events[i]
    BY <2>5, <2>6, SubSeqProperties
  <2>8. DOMAIN SubSeq(events, 1, c) = 1 .. c
    BY <2>7, LenProperties
  <2> QED
    BY <2>4, <2>6, <2>7, <2>8
<1> QED
  BY <1>2, <1>3

(* The parent's events are read in order, none twice.                      *)
LEMMA ParentRead ==
  ASSUME LogInv
  PROVE  /\ EventsOf(Parent) \in Seq(ParentRows)
         /\ \A k, l \in DOMAIN EventsOf(Parent) :
              k < l => /\ EventsOf(Parent)[k].ts <= EventsOf(Parent)[l].ts
                       /\ EventsOf(Parent)[k].id # EventsOf(Parent)[l].id
<1> DEFINE at == RunAt(Parent)
           n == Cardinality(at)
           list == Listing(log, at)
<1>1. at \subseteq DOMAIN log /\ EventsOf(Parent) = IterRows(log, at)
  BY DEF RunAt, EventsOf
<1> HIDE DEF at
<1>2. ReadableRows(log, at) /\ n \in Nat
  BY <1>1, LogReadable
<1>3. list \in [1 .. n -> at]
  BY <1>2, ListingPlaces
<1>4. EventsOf(Parent) = [k \in 1 .. n |-> log[list[k]]]
  BY <1>1 DEF IterRows
<1>5. \A k, l \in 1 .. n : k < l => Earlier(log, list[k], list[l])
  BY <1>2, ListingOrder
<1>6. \A i \in at : i \in Nat /\ log[i].ts \in Nat
  BY <1>2 DEF ReadableRows
<1> HIDE DEF list, n
<1>7. \A i \in at : log[i] \in ParentRows
  BY <1>1, StackElement, RowShape DEF LogInv, RunAt, at
<1>8. EventsOf(Parent) \in Seq(ParentRows)
  <2>1. \A k \in 1 .. n : log[list[k]] \in ParentRows
    BY <1>3, <1>7
  <2> QED
    BY <1>2, <1>4, <2>1, IsASeq DEF n
<1>9. ASSUME NEW k \in 1 .. n, NEW l \in 1 .. n, k < l
      PROVE  log[list[k]].ts <= log[list[l]].ts /\ log[list[k]].id # log[list[l]].id
  <2>1. Earlier(log, list[k], list[l]) /\ list[k] \in at /\ list[l] \in at
    BY <1>3, <1>5, <1>9
  <2>2. log[list[k]].ts <= log[list[l]].ts
    BY <1>6, <2>1 DEF Earlier
  <2>3. list[k] # list[l]
    BY <1>6, <2>1 DEF Earlier
  <2> QED
    BY <1>1, <2>1, <2>2, <2>3 DEF LogInv
<1> QED
  BY <1>4, <1>8, <1>9

(* fork reads a prefix in order; it has copied nothing of it yet.          *)
LEMMA ReadPrefixIInv ==
  ASSUME IInv, NEW f \in Forks, ReadPrefix(f)
  PROVE  IInv'
<1> DEFINE p == Prefix(EventsOf(Parent), job[f].at)
<1>1. /\ job[f].pc = "requested" /\ job[f] \in Jobs
      /\ job' = [job EXCEPT ![f].pc = "copying", ![f].prefix = p]
      /\ log' = log
  BY DEF ReadPrefix, IInv, JobInv
<1>2. /\ p \in Seq(ParentRows)
      /\ \A k, l \in DOMAIN p : k < l => p[k].ts <= p[l].ts /\ p[k].id # p[l].id
  <2>1. /\ p \in Seq(ParentRows)
        /\ \A k \in DOMAIN p : k \in DOMAIN EventsOf(Parent) /\ p[k] = EventsOf(Parent)[k]
    BY ParentRead, PrefixBegins DEF IInv
  <2> HIDE DEF p
  <2> QED
    BY <2>1, ParentRead DEF IInv
<1> HIDE DEF p
<1>3. job[f].prefix = << >> /\ job[f].copied = 0
  <2>1. job[f].prefix = << >> /\ job[f].copied <= Len(job[f].prefix) /\ job[f].copied \in Nat
    BY <1>1 DEF IInv, JobInv, Jobs
  <2>2. Len(job[f].prefix) = 0
    BY <2>1
  <2> QED
    BY <2>1, <2>2
<1>4. LogInv'
  BY <1>1 DEF IInv, LogInv, RunAt, Continuations
<1> DEFINE j == [job[f] EXCEPT !.pc = "copying", !.prefix = p]
<1>5. j \in Jobs /\ j.pc = "copying" /\ j.prefix = p /\ j.copied = 0
  BY <1>1, <1>2, <1>3 DEF Jobs
<1>6. job' = [job EXCEPT ![f] = j]
  BY <1>1 DEF IInv, JobInv
<1> HIDE DEF j
<1>7. \A e \in Forks : job'[e] = IF e = f THEN j ELSE job[e]
  BY <1>6 DEF IInv, JobInv
<1>8. JobInv'
  <2>1. job' \in [Forks -> Jobs]
    BY <1>5, <1>6 DEF IInv, JobInv
  <2>2. Len(p) \in Nat
    BY <1>2, LenProperties
  <2>3. \A e \in Forks : Continuations(e)' = Continuations(e)
    BY <1>1 DEF Continuations
  <2>4. job'[f] = j /\ j.pc = "copying" /\ j.copied <= Len(j.prefix) /\ Continuations(f)' = {}
    BY <1>1, <1>5, <1>7, <2>2, <2>3 DEF IInv, JobInv
  <2>5. \A e \in Forks : e # f => job'[e] = job[e] /\ Continuations(e)' = Continuations(e)
    BY <1>7, <2>3
  <2> QED
    BY <2>1, <2>4, <2>5 DEF IInv, JobInv
<1>9. ASSUME NEW e \in Forks PROVE InReadingOrder(e)' /\ Placed(e)'
  <2>1. CASE e = f
    <3>1. PICK g \in [1 .. job[f].copied -> DOMAIN log] : Places(g, f)
      BY DEF IInv, CopiesInv, Placed
    <3>2. Places(g, f)'
      <4>1. job'[f].copied = 0 /\ job[f].copied = 0
        BY <1>3, <1>5, <1>7
      <4>2. g \in [1 .. 0 -> DOMAIN log] /\ CopyAt(f) = {}
        BY <3>1, <4>1 DEF Places
      <4>3. CopyAt(f)' = {}
        BY <1>1, <4>2 DEF CopyAt
      <4>4. 1 .. job'[f].copied = {}
        BY <4>1
      <4>5. g \in [1 .. job'[f].copied -> DOMAIN log']
        <5>1. 1 .. job'[f].copied = 1 .. 0 /\ DOMAIN log' = DOMAIN log
          BY <1>1, <4>1
        <5> QED
          BY <4>2, <5>1
      <4> QED
        BY <4>3, <4>4, <4>5 DEF Places
    <3>3. Placed(f)'
      BY <3>2 DEF Placed, Places
    <3>4. InReadingOrder(f)'
      BY <1>2, <1>5, <1>7 DEF InReadingOrder
    <3> QED
      BY <2>1, <3>3, <3>4
  <2>2. CASE e # f
    <3>1. job'[e].prefix = job[e].prefix /\ job'[e].copied = job[e].copied
      BY <1>7, <2>2
    <3>2. Placed(e)'
      BY <1>1, <3>1, PlacedKept DEF IInv, CopiesInv, CopyAt
    <3>3. InReadingOrder(e)'
      BY <3>1 DEF IInv, CopiesInv, InReadingOrder
    <3> QED
      BY <3>2, <3>3
  <2> QED
    BY <2>1, <2>2
<1> QED
  BY <1>4, <1>8, <1>9 DEF IInv, CopiesInv

(* A request, its end or its failure: nothing is appended.                 *)
LEMMA CallIInv ==
  ASSUME IInv, NEW f \in Forks,
         \/ \E at \in Points, pooled \in BOOLEAN : Request(f, at, pooled)
         \/ ReadRaises(f)
         \/ CopyFails(f)
         \/ Return(f)
  PROVE  IInv'
<1>1. job[f] \in Jobs /\ log' = log /\ job[f].copied <= Len(job[f].prefix)
  BY DEF IInv, JobInv, Request, ReadRaises, CopyFails, Return
<1>2. ASSUME NEW at \in Points, NEW pooled \in BOOLEAN, Request(f, at, pooled) PROVE IInv'
  <2> DEFINE j == [NoJob EXCEPT !.pc = "requested", !.at = at, !.pooled = pooled]
  <2>1. job[f] = NoJob /\ job' = [job EXCEPT ![f] = j]
    BY <1>2 DEF Request, IInv, JobInv
  <2>2. /\ j \in Jobs /\ j.pc = "requested" /\ j.prefix = << >> /\ j.copied = 0
        /\ NoJob.pc = "none" /\ NoJob.prefix = << >> /\ NoJob.copied = 0
    BY EmptySeq DEF Jobs, NoJob
  <2> HIDE DEF j
  <2> QED
    BY <1>1, <2>1, <2>2, JobStepIInv
<1>3. ASSUME NEW pc \in {"raised", "done"}, job[f].pc \in {"requested", "copying"},
             job' = [job EXCEPT ![f].pc = pc], pc = "done" => job[f].copied = Len(job[f].prefix)
      PROVE  IInv'
  <2> DEFINE j == [job[f] EXCEPT !.pc = pc]
  <2>1. job' = [job EXCEPT ![f] = j]
    BY <1>3 DEF IInv, JobInv
  <2>2. j \in Jobs /\ j.pc = pc /\ j.prefix = job[f].prefix /\ j.copied = job[f].copied
    BY <1>1, <1>3 DEF Jobs
  <2> HIDE DEF j
  <2> QED
    BY <1>1, <1>3, <2>1, <2>2, JobStepIInv
<1> QED
  BY <1>2, <1>3 DEF ReadRaises, CopyFails, Copying, Return

(* The parent run appends under the next number of its own.                *)
LEMMA ParentAppends ==
  ASSUME IInv, NEW ts \in Timestamps, AppendParent(ts)
  PROVE  /\ job' = job
         /\ \E m \in Nat \ DOMAIN log :
              /\ log' \in Seq(Rows)
              /\ DOMAIN log' = DOMAIN log \cup {m}
              /\ log'[m] \in ParentRows /\ log'[m].id[2] = Cardinality(RunAt(Parent)) + 1
              /\ \A i \in DOMAIN log : log'[i] = log[i]
              /\ \A i, j \in DOMAIN log' : log'[i].id = log'[j].id => i = j
              /\ RunAt(Parent)' = RunAt(Parent) \cup {m}
              /\ \A f \in Forks : CopyAt(f)' = CopyAt(f) /\ Continuations(f)' = Continuations(f)
<1> DEFINE n == Cardinality(RunAt(Parent)) + 1
           row == [id |-> <<Parent, n>>, run |-> Parent, ts |-> ts, pay |-> ParentRun[n]]
           m == Len(log) + 1
<1>1. LogInv /\ RunAt(Parent) \subseteq DOMAIN log
  BY DEF IInv, RunAt
<1>2. ReadableRows(log, RunAt(Parent)) /\ Cardinality(RunAt(Parent)) \in Nat
  BY <1>1, LogReadable
<1>3. n <= Len(ParentRun) /\ log' = AppendRow(log, row) /\ job' = job
  BY DEF AppendParent, CountOf, RunAt
<1>4. n \in Nat \ {0} /\ ParentRun[n] \in Payloads
  <2>1. n \in 1 .. Len(ParentRun)
    BY <1>2, <1>3, PayloadAssumption, LenProperties
  <2> HIDE DEF n
  <2> QED
    BY <2>1, PayloadAssumption, ElementOfSeq
<1> HIDE DEF n
<1>5. row \in ParentRows /\ row.id[1] = Parent /\ row.id[2] = n /\ row.run = Parent
  BY <1>4, RunAssumption DEF ParentRows, ParentIds
<1>6. row \in Rows
  BY <1>5 DEF Rows
<1> HIDE DEF row, m
<1>7. row.id \notin IdsIn(log)
  <2> SUFFICES ASSUME NEW i \in DOMAIN log, log[i].id = row.id PROVE FALSE
    BY DEF IdsIn
  <2>1. log[i] \in Rows /\ log[i].id[1] = Parent /\ log[i].id[2] = n
    BY <1>1, <1>5, StackElement DEF LogInv
  <2>2. i \in RunAt(Parent)
    BY <2>1, RowShape DEF RunAt
  <2> QED
    BY <1>1, <1>2, <2>1, <2>2 DEF LogInv, n
<1>8. /\ log' \in Seq(Rows)
      /\ m \in Nat \ DOMAIN log
      /\ DOMAIN log' = DOMAIN log \cup {m}
      /\ log'[m] = row
      /\ \A i \in DOMAIN log : i \in Nat /\ i < m /\ log'[i] = log[i]
      /\ \A i, j \in DOMAIN log' : log'[i].id = log'[j].id => i = j
      /\ RunAt(Parent)' = RunAt(Parent) \cup {m}
      /\ \A f \in Forks : CopyAt(f)' = CopyAt(f) /\ Continuations(f)' = Continuations(f)
  <2>1. m = Len(log) + 1 /\ log' = AppendRow(log, row) /\ LogInv
    BY <1>1, <1>3 DEF m
  <2>2. /\ log' \in Seq(Rows)
        /\ m \in Nat \ DOMAIN log
        /\ DOMAIN log' = DOMAIN log \cup {m}
        /\ log'[m] = row
    BY <1>6, <1>7, <2>1, LogGrows
  <2>3. /\ \A i \in DOMAIN log : i \in Nat /\ i < m /\ log'[i] = log[i]
        /\ \A i, j \in DOMAIN log' : log'[i].id = log'[j].id => i = j
    BY <1>6, <1>7, <2>1, LogGrows
  <2>4. RunAt(Parent)' = RunAt(Parent) \cup {m}
    BY <1>5, <2>2, <2>3 DEF RunAt
  <2>5. \A f \in Forks : CopyAt(f)' = CopyAt(f) /\ Continuations(f)' = Continuations(f)
    BY <1>5, <2>2, <2>3, RunAssumption DEF CopyAt, Continuations
  <2> QED
    BY <2>2, <2>3, <2>4, <2>5
<1> QED
  BY <1>3, <1>5, <1>8 DEF n

LEMMA AppendParentIInv ==
  ASSUME IInv, NEW ts \in Timestamps, AppendParent(ts)
  PROVE  IInv'
<1> DEFINE n == Cardinality(RunAt(Parent)) + 1
<1>1. job' = job
  BY ParentAppends
<1>2. PICK m \in Nat \ DOMAIN log :
        /\ log' \in Seq(Rows)
        /\ DOMAIN log' = DOMAIN log \cup {m}
        /\ log'[m] \in ParentRows /\ log'[m].id[2] = n
        /\ \A i \in DOMAIN log : log'[i] = log[i]
        /\ \A i, j \in DOMAIN log' : log'[i].id = log'[j].id => i = j
        /\ RunAt(Parent)' = RunAt(Parent) \cup {m}
        /\ \A f \in Forks : CopyAt(f)' = CopyAt(f) /\ Continuations(f)' = Continuations(f)
  BY ParentAppends
<1>3. LogInv /\ RunAt(Parent) \subseteq DOMAIN log
  BY DEF IInv, RunAt
<1>4. ReadableRows(log, RunAt(Parent)) /\ Cardinality(RunAt(Parent)) \in Nat
  BY <1>3, LogReadable
<1>5. Cardinality(RunAt(Parent)') = n
  <2>1. IsFiniteSet(RunAt(Parent)) /\ m \notin RunAt(Parent)
    BY <1>2, <1>3, <1>4 DEF ReadableRows
  <2> QED
    BY <1>2, <2>1, FS_AddElement
<1>6. ASSUME NEW i \in RunAt(Parent)' PROVE log'[i].id[2] <= n
  <2>1. CASE i = m
    BY <1>2, <1>4, <2>1
  <2>2. CASE i \in RunAt(Parent)
    <3>1. log'[i] = log[i] /\ log[i].id[2] <= Cardinality(RunAt(Parent))
      BY <1>2, <1>3, <2>2 DEF LogInv
    <3>2. log[i] \in ParentRows
      BY <1>3, <2>2, StackElement, RowShape DEF LogInv, RunAt
    <3>3. log[i].id[2] \in Nat
      BY <3>2 DEF ParentRows, ParentIds
    <3> QED
      BY <1>4, <3>1, <3>3
  <2> QED
    BY <1>2, <2>1, <2>2
<1>7. LogInv'
  <2>1. ASSUME NEW f \in Forks, NEW i \in Continuations(f)'
        PROVE  log'[i].id[3] <= Cardinality(Continuations(f)')
    BY <1>2, <1>3 DEF LogInv, Continuations
  <2> HIDE DEF n
  <2> QED
    BY <1>2, <1>5, <1>6, <2>1 DEF LogInv
<1>8. JobInv'
  BY <1>1, <1>2 DEF IInv, JobInv
<1>9. ASSUME NEW f \in Forks PROVE InReadingOrder(f)' /\ Placed(f)'
  BY <1>1, <1>2, PlacedKept DEF IInv, CopiesInv, InReadingOrder
<1> QED
  BY <1>7, <1>8, <1>9 DEF IInv, CopiesInv

(* The continuation of a fork appends under a fresh id.                    *)
LEMMA ContinueIInv ==
  ASSUME IInv, NEW f \in Forks, NEW ts \in Timestamps, Continue(f, ts)
  PROVE  IInv'
<1> DEFINE n == Cardinality(Continuations(f)) + 1
           row == [id |-> <<"new", f, n>>, run |-> f, ts |-> ts, pay |-> Continuation[n]]
           m == Len(log) + 1
<1>1. LogInv /\ Continuations(f) \subseteq DOMAIN log
  BY DEF IInv, Continuations
<1>2. ReadableRows(log, Continuations(f)) /\ Cardinality(Continuations(f)) \in Nat
  BY <1>1, LogReadable
<1>3. /\ n <= Len(Continuation) /\ log' = AppendRow(log, row) /\ job' = job
      /\ job[f].pc = "done"
  BY DEF Continue
<1>4. n \in Nat \ {0} /\ Continuation[n] \in Payloads
  <2>1. n \in 1 .. Len(Continuation)
    BY <1>2, <1>3, PayloadAssumption, LenProperties
  <2> HIDE DEF n
  <2> QED
    BY <2>1, PayloadAssumption, ElementOfSeq
<1> HIDE DEF n
<1>5. /\ row \in NewRows(f) /\ row.run = f
      /\ row.id[1] = "new" /\ row.id[2] = f /\ row.id[3] = n
  BY <1>4, RunAssumption DEF NewRows
<1>6. row \in Rows
  BY <1>5 DEF Rows
<1> HIDE DEF row, m
<1>7. row.id \notin IdsIn(log)
  <2> SUFFICES ASSUME NEW i \in DOMAIN log, log[i].id = row.id PROVE FALSE
    BY DEF IdsIn
  <2>1. /\ log[i] \in Rows /\ log[i].id[1] = "new" /\ log[i].id[2] = f /\ log[i].id[3] = n
    BY <1>1, <1>5, StackElement DEF LogInv
  <2>2. i \in Continuations(f)
    BY <2>1, RowShape DEF Continuations
  <2>3. log[i].id[3] <= Cardinality(Continuations(f))
    BY <1>1, <2>2 DEF LogInv
  <2> QED
    BY <1>2, <2>1, <2>3 DEF n
<1>8. /\ log' \in Seq(Rows)
      /\ m \in Nat \ DOMAIN log
      /\ DOMAIN log' = DOMAIN log \cup {m}
      /\ log'[m] = row
      /\ \A i \in DOMAIN log : i \in Nat /\ i < m /\ log'[i] = log[i]
      /\ \A i, j \in DOMAIN log' : log'[i].id = log'[j].id => i = j
      /\ RunAt(Parent)' = RunAt(Parent)
      /\ \A e \in Forks :
           /\ CopyAt(e)' = CopyAt(e)
           /\ Continuations(e)' = IF e = f THEN Continuations(f) \cup {m} ELSE Continuations(e)
  <2>1. m = Len(log) + 1 /\ log' = AppendRow(log, row) /\ LogInv
    BY <1>1, <1>3 DEF m
  <2>2. /\ log' \in Seq(Rows)
        /\ m \in Nat \ DOMAIN log
        /\ DOMAIN log' = DOMAIN log \cup {m}
        /\ log'[m] = row
    BY <1>6, <1>7, <2>1, LogGrows
  <2>3. /\ \A i \in DOMAIN log : i \in Nat /\ i < m /\ log'[i] = log[i]
        /\ \A i, j \in DOMAIN log' : log'[i].id = log'[j].id => i = j
    BY <1>6, <1>7, <2>1, LogGrows
  <2>4. RunAt(Parent)' = RunAt(Parent)
    BY <1>5, <2>2, <2>3, RunAssumption DEF RunAt
  <2>5. ASSUME NEW e \in Forks
        PROVE  /\ CopyAt(e)' = CopyAt(e)
               /\ Continuations(e)' = IF e = f THEN Continuations(f) \cup {m} ELSE Continuations(e)
    BY <1>5, <2>2, <2>3, IdAssumption DEF CopyAt, Continuations
  <2> QED
    BY <2>2, <2>3, <2>4, <2>5
<1>9. Cardinality(Continuations(f)') = n
  <2>1. IsFiniteSet(Continuations(f)) /\ m \notin Continuations(f)
    BY <1>1, <1>2, <1>8 DEF ReadableRows
  <2> QED
    BY <1>8, <2>1, FS_AddElement DEF n
<1>10. LogInv'
  <2>1. ASSUME NEW i \in RunAt(Parent)' PROVE log'[i].id[2] <= Cardinality(RunAt(Parent)')
    BY <1>1, <1>8 DEF LogInv, RunAt
  <2>2. ASSUME NEW i \in Continuations(f)' PROVE log'[i].id[3] <= n
    <3>1. CASE i = m
      BY <1>4, <1>5, <1>8, <3>1
    <3>2. CASE i \in Continuations(f)
      <4>1. log'[i] = log[i] /\ log[i].id[3] <= Cardinality(Continuations(f))
        BY <1>1, <1>8, <3>2 DEF LogInv
      <4>2. log[i] \in NewRows(f)
        <5>1. log[i] \in Rows /\ log[i].run = f /\ log[i].id[1] = "new"
          BY <1>1, <3>2, StackElement DEF LogInv, Continuations
        <5> QED
          BY <5>1, RowShape, IdAssumption
      <4>3. log[i].id[3] \in Nat
        BY <4>2 DEF NewRows
      <4> QED
        BY <1>2, <4>1, <4>3 DEF n
    <3> QED
      BY <1>8, <3>1, <3>2
  <2>3. ASSUME NEW e \in Forks, NEW i \in Continuations(e)'
        PROVE  log'[i].id[3] <= Cardinality(Continuations(e)')
    <3>1. CASE e = f
      BY <1>9, <2>2, <3>1
    <3>2. CASE e # f
      BY <1>1, <1>8, <3>2 DEF LogInv, Continuations
    <3> QED
      BY <3>1, <3>2
  <2> QED
    BY <1>8, <2>1, <2>3 DEF LogInv
<1>11. JobInv'
  BY <1>3, <1>8 DEF IInv, JobInv
<1>12. ASSUME NEW e \in Forks PROVE InReadingOrder(e)' /\ Placed(e)'
  BY <1>3, <1>8, PlacedKept DEF IInv, CopiesInv, InReadingOrder
<1> QED
  BY <1>10, <1>11, <1>12 DEF IInv, CopiesInv

(* A copy has the event's timestamp and payload under an id and a run of   *)
(* its own.                                                                *)
LEMMA CopyShape ==
  ASSUME NEW f \in Forks, NEW r \in ParentRows
  PROVE  /\ Copy(f, r) \in CopyRows(f)
         /\ Copy(f, r).id = <<f, r.id>>
         /\ Copy(f, r).run = f
         /\ Copy(f, r).ts = r.ts
         /\ Copy(f, r).pay = r.pay
BY DEF ParentRows, CopyRows, Copy

(* The next event of the prefix is copied behind the copies made so far.   *)
LEMMA CopyNextIInv ==
  ASSUME IInv, NEW f \in Forks, CopyNext(f)
  PROVE  IInv'
<1> DEFINE c == job[f].copied
           p == job[f].prefix
           row == Copy(f, p[c + 1])
           m == Len(log) + 1
<1>1. LogInv /\ job[f] \in Jobs
  BY DEF IInv, JobInv
<1>2. /\ job[f].pc = "copying" /\ c < Len(p)
      /\ log' = AppendRow(log, row)
      /\ job' = [job EXCEPT ![f].copied = c + 1]
  BY DEF CopyNext, Copying
<1>3. /\ p \in Seq(ParentRows) /\ c \in Nat /\ Len(p) \in Nat
      /\ c + 1 \in DOMAIN p
      /\ \A k \in 1 .. c : k \in DOMAIN p
      /\ \A k \in DOMAIN p : p[k] \in ParentRows
  <2>1. p \in Seq(ParentRows) /\ c \in Nat
    BY <1>1 DEF Jobs
  <2> HIDE DEF p, c
  <2>2. Len(p) \in Nat /\ DOMAIN p = 1 .. Len(p)
    BY <2>1, LenProperties
  <2> QED
    BY <1>2, <2>1, <2>2, StackElement
<1>4. /\ row \in CopyRows(f) /\ row.id = <<f, p[c + 1].id>> /\ row.id[1] = f
      /\ row.run = f /\ row \in Rows
  <2> HIDE DEF c, p
  <2>1. row \in CopyRows(f) /\ row.id = <<f, p[c + 1].id>> /\ row.run = f
    BY <1>3, CopyShape
  <2> HIDE DEF row
  <2> QED
    BY <2>1 DEF Rows
<1>5. PICK g \in [1 .. c -> DOMAIN log] : Places(g, f)
  BY DEF IInv, CopiesInv, Placed
<1>6. /\ \A k \in 1 .. c : log[g[k]] = Copy(f, p[k])
      /\ \A k, l \in 1 .. c : k < l => g[k] < g[l]
      /\ \A i \in CopyAt(f) : \E k \in 1 .. c : g[k] = i
  BY <1>5 DEF Places
<1>7. \A k, l \in DOMAIN p : k < l => p[k].id # p[l].id
  BY DEF IInv, CopiesInv, InReadingOrder
<1> HIDE DEF c, p, row, m
<1>8. row.id \notin IdsIn(log)
  <2> SUFFICES ASSUME NEW i \in DOMAIN log, log[i].id = row.id PROVE FALSE
    BY DEF IdsIn
  <2>1. log[i] \in Rows /\ log[i].id[1] = f
    BY <1>1, <1>4, StackElement DEF LogInv
  <2>2. i \in CopyAt(f)
    BY <2>1, RowShape DEF CopyAt
  <2>3. PICK k \in 1 .. c : g[k] = i
    BY <1>6, <2>2
  <2>4. log[i] = Copy(f, p[k]) /\ p[k] \in ParentRows
    BY <1>3, <1>6, <2>3
  <2>5. <<f, p[k].id>> = <<f, p[c + 1].id>>
    BY <1>4, <2>4, CopyShape
  <2>6. k < c + 1 /\ k \in DOMAIN p
    BY <1>3
  <2> QED
    BY <1>3, <1>7, <2>5, <2>6
<1>9. /\ log' \in Seq(Rows)
      /\ m \in Nat \ DOMAIN log
      /\ DOMAIN log' = DOMAIN log \cup {m}
      /\ log'[m] = row
      /\ \A i \in DOMAIN log : i \in Nat /\ i < m /\ log'[i] = log[i]
      /\ \A i, j \in DOMAIN log' : log'[i].id = log'[j].id => i = j
  <2>1. m = Len(log) + 1
    BY DEF m
  <2>2. /\ log' \in Seq(Rows)
        /\ m \in Nat \ DOMAIN log
        /\ DOMAIN log' = DOMAIN log \cup {m}
        /\ log'[m] = row
    BY <1>1, <1>2, <1>4, <1>8, <2>1, LogGrows
  <2>3. /\ \A i \in DOMAIN log : i \in Nat /\ i < m /\ log'[i] = log[i]
        /\ \A i, j \in DOMAIN log' : log'[i].id = log'[j].id => i = j
    BY <1>1, <1>2, <1>4, <1>8, <2>1, LogGrows
  <2> QED
    BY <2>2, <2>3
<1>10. /\ RunAt(Parent)' = RunAt(Parent)
       /\ \A e \in Forks : Continuations(e)' = Continuations(e)
       /\ \A e \in Forks : CopyAt(e)' = IF e = f THEN CopyAt(f) \cup {m} ELSE CopyAt(e)
  <2>1. RunAt(Parent)' = RunAt(Parent)
    BY <1>4, <1>9, RunAssumption DEF RunAt
  <2>2. ASSUME NEW e \in Forks PROVE Continuations(e)' = Continuations(e)
    BY <1>4, <1>9, IdAssumption DEF Continuations
  <2>3. ASSUME NEW e \in Forks
        PROVE  CopyAt(e)' = IF e = f THEN CopyAt(f) \cup {m} ELSE CopyAt(e)
    BY <1>4, <1>9 DEF CopyAt
  <2> QED
    BY <2>1, <2>2, <2>3
<1>11. LogInv'
  <2>1. ASSUME NEW i \in RunAt(Parent)' PROVE log'[i].id[2] <= Cardinality(RunAt(Parent)')
    BY <1>1, <1>9, <1>10 DEF LogInv, RunAt
  <2>2. ASSUME NEW e \in Forks, NEW i \in Continuations(e)'
        PROVE  log'[i].id[3] <= Cardinality(Continuations(e)')
    BY <1>1, <1>9, <1>10 DEF LogInv, Continuations
  <2> QED
    BY <1>9, <2>1, <2>2 DEF LogInv
<1>12. \A e \in Forks :
         /\ job'[e].pc = job[e].pc
         /\ job'[e].prefix = job[e].prefix
         /\ job'[e].copied = IF e = f THEN c + 1 ELSE job[e].copied
         /\ e # f => job'[e] = job[e]
  BY <1>1, <1>2 DEF IInv, JobInv, Jobs
<1>13. JobInv'
  <2>1. job' \in [Forks -> Jobs]
    <3>1. c + 1 \in Nat
      BY <1>3
    <3>2. [job[f] EXCEPT !.copied = c + 1] \in Jobs
      BY <1>1, <3>1 DEF Jobs
    <3> QED
      BY <1>2, <3>2 DEF IInv, JobInv
  <2>2. job'[f].pc = "copying" /\ job'[f].copied <= Len(job'[f].prefix) /\ Continuations(f)' = {}
    <3>1. Continuations(f) = {}
      BY <1>2 DEF IInv, JobInv
    <3>2. c + 1 <= Len(p)
      BY <1>2, <1>3
    <3> QED
      BY <1>2, <1>10, <1>12, <3>1, <3>2 DEF p
  <2>3. \A e \in Forks : e # f => job'[e] = job[e] /\ Continuations(e)' = Continuations(e)
    BY <1>10, <1>12
  <2> QED
    BY <2>1, <2>2, <2>3 DEF IInv, JobInv
<1>14. Placed(f)'
  <2>1. PICK h \in [1 .. c + 1 -> DOMAIN log'] :
          \A k \in 1 .. c + 1 : h[k] = IF k = c + 1 THEN m ELSE g[k]
    <3> DEFINE u == [k \in 1 .. c + 1 |-> IF k = c + 1 THEN m ELSE g[k]]
    <3>1. \A k \in 1 .. c + 1 : k = c + 1 \/ k \in 1 .. c
      BY <1>3
    <3>2. u \in [1 .. c + 1 -> DOMAIN log']
      BY <1>9, <3>1
    <3> QED
      BY <3>2
  <2>2. \A k \in 1 .. c + 1 : (k = c + 1 /\ h[k] = m) \/ (k \in 1 .. c /\ k # c + 1 /\ h[k] = g[k])
    BY <1>3, <2>1
  <2>3. h[c + 1] = m /\ \A k \in 1 .. c : h[k] = g[k] /\ k \in 1 .. c + 1
    BY <1>3, <2>1
  <2>4. ASSUME NEW k \in 1 .. c + 1 PROVE log'[h[k]] = Copy(f, p[k])
    <3>1. CASE k = c + 1
      BY <1>9, <2>3, <3>1 DEF row
    <3>2. CASE k \in 1 .. c
      <4>1. g[k] \in DOMAIN log
        BY <3>2
      <4> QED
        BY <1>6, <1>9, <2>3, <3>2, <4>1
    <3> QED
      BY <2>2, <3>1, <3>2
  <2>5. ASSUME NEW k \in 1 .. c + 1, NEW l \in 1 .. c + 1, k < l PROVE h[k] < h[l]
    <3>1. k \in 1 .. c /\ h[k] = g[k] /\ g[k] \in DOMAIN log
      BY <1>3, <2>2, <2>5
    <3>2. CASE l = c + 1
      BY <1>9, <2>3, <3>1, <3>2
    <3>3. CASE l \in 1 .. c
      BY <1>6, <2>3, <2>5, <3>1, <3>3
    <3> QED
      BY <2>2, <3>2, <3>3
  <2>6. ASSUME NEW i \in CopyAt(f)' PROVE \E k \in 1 .. c + 1 : h[k] = i
    <3>1. CASE i = m
      BY <1>3, <2>3, <3>1
    <3>2. CASE i \in CopyAt(f)
      BY <1>6, <2>3, <3>2
    <3> QED
      BY <1>10, <3>1, <3>2
  <2>7. job'[f].copied = c + 1 /\ job'[f].prefix = p
    BY <1>12 DEF p
  <2>8. 1 .. job'[f].copied = 1 .. c + 1
    BY <2>7
  <2>9. h \in [1 .. job'[f].copied -> DOMAIN log']
    BY <2>1, <2>8
  <2>10. \A k \in 1 .. job'[f].copied : log'[h[k]] = Copy(f, job'[f].prefix[k])
    BY <2>4, <2>7, <2>8
  <2>11. Places(h, f)'
    <3>1. \A k, l \in 1 .. job'[f].copied : k < l => h[k] < h[l]
      BY <2>5, <2>8
    <3>2. \A i \in CopyAt(f)' : \E k \in 1 .. job'[f].copied : h[k] = i
      BY <2>6, <2>8
    <3> QED
      BY <2>9, <2>10, <3>1, <3>2 DEF Places
  <2> QED
    BY <2>9, <2>11 DEF Placed, Places
<1>15. ASSUME NEW e \in Forks PROVE InReadingOrder(e)' /\ Placed(e)'
  <2>1. InReadingOrder(e)'
    <3>1. job'[e].prefix = job[e].prefix
      BY <1>12
    <3> QED
      BY <3>1 DEF IInv, CopiesInv, InReadingOrder
  <2>2. CASE e # f
    <3>1. /\ job'[e].prefix = job[e].prefix /\ job'[e].copied = job[e].copied
          /\ CopyAt(e)' = CopyAt(e)
          /\ DOMAIN log \subseteq DOMAIN log'
          /\ \A i \in DOMAIN log : log'[i] = log[i]
      BY <1>9, <1>10, <1>12, <2>2
    <3>2. Placed(e)
      BY DEF IInv, CopiesInv
    <3> QED
      BY <2>1, <3>1, <3>2, PlacedKept
  <2> QED
    BY <1>14, <2>1, <2>2
<1> QED
  BY <1>11, <1>13, <1>15 DEF IInv, CopiesInv

(* Every step of a call, of the parent run and of a continuation keeps it. *)
LEMMA StepIInv == IInv /\ [Next]_vars => IInv'
<1> SUFFICES ASSUME IInv, [Next]_vars PROVE IInv'
  OBVIOUS
<1>1. ASSUME NEW f \in Forks, ForkStep(f) PROVE IInv'
  BY <1>1, ReadPrefixIInv, CallIInv, CopyNextIInv DEF ForkStep
<1>2. ASSUME UNCHANGED vars PROVE IInv'
  <2>1. log' = log /\ job' = job
    BY <1>2 DEF vars
  <2>2. LogInv' /\ JobInv'
    BY <2>1 DEF IInv, LogInv, JobInv, RunAt, Continuations
  <2>3. ASSUME NEW f \in Forks PROVE InReadingOrder(f)' /\ Placed(f)'
    BY <2>1, PlacedKept DEF IInv, CopiesInv, InReadingOrder, CopyAt
  <2> QED
    BY <2>2, <2>3 DEF IInv, CopiesInv
<1> QED
  BY <1>1, <1>2, AppendParentIInv, ContinueIInv, CallIInv DEF Next

LEMMA ForkInvariant == Spec => []IInv
BY InitIInv, StepIInv, PTL DEF Spec

-----------------------------------------------------------------------------
(* What a fork holds of its parent.                                        *)

(* The copies are listed in the order they were made in: the timestamps of *)
(* a prefix never go back.                                                 *)
LEMMA CopiesListed ==
  ASSUME IInv, NEW f \in Forks
  PROVE  /\ job[f].copied \in Nat
         /\ Cardinality(CopyAt(f)) = job[f].copied
         /\ ReadableRows(log, CopyAt(f))
         /\ \A k \in 1 .. job[f].copied :
              /\ k \in DOMAIN job[f].prefix
              /\ Listing(log, CopyAt(f))[k] \in CopyAt(f)
              /\ log[Listing(log, CopyAt(f))[k]] = Copy(f, job[f].prefix[k])
<1> DEFINE c == job[f].copied
           p == job[f].prefix
           at == CopyAt(f)
<1>1. LogInv /\ job[f] \in Jobs /\ c <= Len(p)
  BY DEF IInv, JobInv
<1>2. ReadableRows(log, at)
  BY <1>1, LogReadable DEF CopyAt
<1>3. c \in Nat /\ p \in Seq(ParentRows) /\ Len(p) \in Nat /\ DOMAIN p = 1 .. Len(p)
  BY <1>1, LenProperties DEF Jobs
<1>4. PICK g \in [1 .. c -> DOMAIN log] : Places(g, f)
  BY DEF IInv, CopiesInv, Placed
<1>5. /\ \A k \in 1 .. c : log[g[k]] = Copy(f, p[k])
      /\ \A k, l \in 1 .. c : k < l => g[k] < g[l]
      /\ \A i \in at : \E k \in 1 .. c : g[k] = i
  BY <1>4 DEF Places
<1>6. \A k, l \in DOMAIN p : k < l => p[k].ts <= p[l].ts
  BY DEF IInv, CopiesInv, InReadingOrder
<1>7. c \in Nat /\ \A k \in 1 .. c : k \in DOMAIN p /\ p[k] \in ParentRows
  BY <1>1, <1>3, StackElement
<1> HIDE DEF c, p, at
<1>8. ASSUME NEW k \in 1 .. c
      PROVE  /\ g[k] \in DOMAIN log
             /\ log[g[k]].run = f /\ log[g[k]].id[1] = f /\ log[g[k]].ts = p[k].ts
  <2>1. Copy(f, p[k]).run = f /\ Copy(f, p[k]).id = <<f, p[k].id>> /\ Copy(f, p[k]).ts = p[k].ts
    BY <1>7, CopyShape
  <2> QED
    BY <1>5, <2>1
<1>9. g \in [1 .. c -> at]
  BY <1>8 DEF CopyAt, at
<1>10. ASSUME NEW k \in 1 .. c, NEW l \in 1 .. c, k < l PROVE Earlier(log, g[k], g[l])
  <2>1. g[k] < g[l] /\ p[k].ts <= p[l].ts
    BY <1>5, <1>6, <1>7, <1>10
  <2>2. log[g[k]].ts = p[k].ts /\ log[g[l]].ts = p[l].ts
    BY <1>8
  <2>3. p[k].ts \in Nat /\ p[l].ts \in Nat
    BY <1>7 DEF ParentRows
  <2> QED
    BY <2>1, <2>2, <2>3 DEF Earlier
<1>11. /\ Cardinality(at) = c
       /\ \A k \in 1 .. c : Listing(log, at)[k] = g[k]
  BY <1>2, <1>5, <1>7, <1>9, <1>10, ListedInOrder
<1>12. ASSUME NEW k \in 1 .. c
       PROVE  Listing(log, at)[k] \in at /\ log[Listing(log, at)[k]] = Copy(f, p[k])
  BY <1>5, <1>9, <1>11
<1> QED
  BY <1>2, <1>7, <1>11, <1>12 DEF at, c, p

(* Copies as they are read back, under the parent's names again.           *)
Original(row) == [row EXCEPT !.id = @[2], !.run = Parent]
Back(rows) == [i \in DOMAIN rows |-> Original(rows[i])]

(* Renaming the copy of an event gives the event back.                     *)
LEMMA CopyBack ==
  ASSUME NEW f \in Forks, NEW r \in ParentRows
  PROVE  Original(Copy(f, r)) = r
BY DEF ParentRows, Copy, Original

LEMMA CopiesBack ==
  ASSUME NEW f \in Forks
  PROVE  /\ Copies(f) = Back(IterRows(log, CopyAt(f)))
         /\ Copies(f)' = Back(IterRows(log', CopyAt(f)'))
BY DEF Copies, CopyAt, Back, Original

(* What a finished fork holds of its parent reads back as the prefix.      *)
LEMMA CopiesRead ==
  ASSUME IInv, NEW f \in Forks, job[f].copied = Len(job[f].prefix)
  PROVE  Copies(f) = job[f].prefix
<1> DEFINE c == job[f].copied
           p == job[f].prefix
<1>1. PICK rows : rows = IterRows(log, CopyAt(f))
  OBVIOUS
<1>2. /\ c \in Nat /\ DOMAIN rows = 1 .. c
      /\ \A k \in 1 .. c : rows[k] = Copy(f, p[k])
  BY <1>1, CopiesListed DEF IterRows
<1>3. p \in Seq(ParentRows) /\ DOMAIN p = 1 .. c /\ \A k \in 1 .. c : p[k] \in ParentRows
  <2>1. p \in Seq(ParentRows)
    BY DEF IInv, JobInv, Jobs
  <2> QED
    BY <2>1, LenProperties, StackElement
<1>4. Copies(f) = Back(rows)
  BY <1>1, CopiesBack
<1> HIDE DEF c, p
<1>5. ASSUME NEW k \in 1 .. c PROVE Original(rows[k]) = p[k]
  <2>1. PICK r \in ParentRows : r = p[k]
    BY <1>3
  <2>2. rows[k] = Copy(f, r)
    BY <1>2, <2>1
  <2> QED
    BY <2>1, <2>2, CopyBack
<1>6. Back(rows) = [k \in 1 .. c |-> p[k]]
  BY <1>2, <1>5 DEF Back
<1>7. p = [k \in 1 .. c |-> p[k]]
  BY <1>3, LenProperties
<1> QED
  BY <1>4, <1>6, <1>7 DEF p

(* What is appended elsewhere changes nothing of it.                       *)
LEMMA CopiesKept ==
  ASSUME IInv, NEW f \in Forks, CopyAt(f)' = CopyAt(f), \A i \in DOMAIN log : log'[i] = log[i]
  PROVE  Copies(f)' = Copies(f)
<1>1. CopyAt(f) \subseteq DOMAIN log
  BY DEF CopyAt
<1>2. ReadableRows(log, CopyAt(f))
  BY <1>1, LogReadable DEF IInv
<1>3. IterRows(log', CopyAt(f)) = IterRows(log, CopyAt(f))
  BY <1>1, <1>2, ReadSame
<1> QED
  BY <1>3, CopiesBack

(* So it is for the parent run.                                            *)
LEMMA ParentKept ==
  ASSUME IInv, RunAt(Parent)' = RunAt(Parent), \A i \in DOMAIN log : log'[i] = log[i]
  PROVE  EventsOf(Parent)' = EventsOf(Parent)
<1>1. RunAt(Parent) \subseteq DOMAIN log
  BY DEF RunAt
<1>2. ReadableRows(log, RunAt(Parent))
  BY <1>1, LogReadable DEF IInv
<1>3. IterRows(log', RunAt(Parent)) = IterRows(log, RunAt(Parent))
  BY <1>1, <1>2, ReadSame
<1>4. EventsOf(Parent) = IterRows(log, RunAt(Parent))
  BY DEF EventsOf, RunAt
<1>5. EventsOf(Parent)' = IterRows(log', RunAt(Parent)')
  BY DEF EventsOf, RunAt
<1> QED
  BY <1>3, <1>4, <1>5

-----------------------------------------------------------------------------
(* Forks implement the port.                                               *)

Branches == [f \in Forks |-> BranchOf(f)]

(* A call nothing of which changes, and what it has copied, shows the same *)
(* to its caller.                                                          *)
LEMMA BranchKept ==
  ASSUME NEW f \in Forks, job'[f] = job[f], Copies(f)' = Copies(f)
  PROVE  BranchOf(f)' = BranchOf(f)
BY DEF BranchOf

LEMMA OneBranch ==
  ASSUME NEW f \in Forks, NEW b, BranchOf(f)' = b,
         \A e \in Forks : e # f => BranchOf(e)' = BranchOf(e)
  PROVE  Branches' = [Branches EXCEPT ![f] = b]
BY DEF Branches

(* A step of a call that appends nothing changes its own branch only.      *)
Seen(f, j) ==
  [state |-> CASE j.pc = "copying" -> "branched"
               [] j.pc = "raised" -> "failed"
               [] OTHER -> j.pc,
   at |-> j.at,
   events |-> CASE j.pc = "copying" -> j.prefix
                [] j.pc = "done" -> Copies(f)
                [] OTHER -> << >>]

LEMMA CallMaps ==
  ASSUME IInv, UNCHANGED log, NEW f \in Forks, NEW j, job' = [job EXCEPT ![f] = j]
  PROVE  /\ EventsOf(Parent)' = EventsOf(Parent)
         /\ Branches' = [Branches EXCEPT ![f] = Seen(f, j)]
<1>1. RunAt(Parent)' = RunAt(Parent) /\ \A e \in Forks : CopyAt(e)' = CopyAt(e)
  BY DEF RunAt, CopyAt
<1>2. EventsOf(Parent)' = EventsOf(Parent)
  BY <1>1, ParentKept
<1>3. \A e \in Forks : Copies(e)' = Copies(e)
  BY <1>1, CopiesKept
<1>4. \A e \in Forks : job'[e] = IF e = f THEN j ELSE job[e]
  BY DEF IInv, JobInv
<1>5. BranchOf(f)' = Seen(f, j)
  BY <1>3, <1>4 DEF BranchOf, Seen
<1>6. ASSUME NEW e \in Forks, e # f PROVE BranchOf(e)' = BranchOf(e)
  BY <1>3, <1>4, <1>6, BranchKept
<1> QED
  BY <1>2, <1>5, <1>6, OneBranch

(* What the caller sees of a call.                                         *)
LEMMA BranchSeen ==
  ASSUME IInv, NEW f \in Forks
  PROVE  /\ Branches[f] = BranchOf(f)
         /\ BranchOf(f).at = job[f].at
         /\ job[f].pc = "none" => BranchOf(f) = Port!NoBranch
         /\ job[f].pc = "requested" =>
              BranchOf(f) = [state |-> "requested", at |-> job[f].at, events |-> << >>]
         /\ job[f].pc = "copying" =>
              BranchOf(f) = [state |-> "branched", at |-> job[f].at, events |-> job[f].prefix]
<1>1. Branches[f] = BranchOf(f) /\ BranchOf(f).at = job[f].at
  BY DEF Branches, BranchOf
<1>2. ASSUME job[f].pc = "none" PROVE BranchOf(f) = Port!NoBranch
  <2>1. job[f].at = Missing
    BY <1>2 DEF IInv, JobInv, NoJob
  <2> QED
    BY <1>2, <2>1 DEF BranchOf, Port!NoBranch
<1>3. job[f].pc = "requested" =>
        BranchOf(f) = [state |-> "requested", at |-> job[f].at, events |-> << >>]
  BY DEF BranchOf
<1>4. job[f].pc = "copying" =>
        BranchOf(f) = [state |-> "branched", at |-> job[f].at, events |-> job[f].prefix]
  BY DEF BranchOf
<1> QED
  BY <1>1, <1>2, <1>3, <1>4

LEMMA RequestMaps ==
  ASSUME IInv, NEW f \in Forks, NEW at \in Points, NEW pooled \in BOOLEAN, Request(f, at, pooled)
  PROVE  Port!Request(f, at)
<1> DEFINE j == [NoJob EXCEPT !.pc = "requested", !.at = at, !.pooled = pooled]
<1>1. job[f].pc = "none" /\ job' = [job EXCEPT ![f] = j] /\ UNCHANGED log
  BY DEF Request
<1>2. j.pc = "requested" /\ j.at = at
  BY DEF NoJob
<1> HIDE DEF j
<1>3. EventsOf(Parent)' = EventsOf(Parent) /\ Branches' = [Branches EXCEPT ![f] = Seen(f, j)]
  BY <1>1, CallMaps
<1>4. Branches[f] = Port!NoBranch
  BY <1>1, BranchSeen
<1>5. Seen(f, j) = [state |-> "requested", at |-> at, events |-> << >>]
  BY <1>2 DEF Seen
<1>6. Seen(f, j) = [Port!NoBranch EXCEPT !.state = "requested", !.at = at]
  <2>1. [Port!NoBranch EXCEPT !.state = "requested", !.at = at]
          = [state |-> "requested", at |-> at, events |-> << >>]
    <3>1. PICK b : b = Port!NoBranch
      OBVIOUS
    <3> DEFINE c == [state |-> "requested", at |-> Missing, events |-> << >>]
    <3>2. b = [state |-> "none", at |-> Missing, events |-> << >>]
      BY <3>1 DEF Port!NoBranch
    <3>3. [b EXCEPT !.state = "requested"] = c
      BY <3>2
    <3>4. [b EXCEPT !.state = "requested", !.at = at] = [c EXCEPT !.at = at]
      BY <3>3
    <3>5. [c EXCEPT !.at = at] = [state |-> "requested", at |-> at, events |-> << >>]
      OBVIOUS
    <3> HIDE DEF c
    <3> QED
      BY <3>1, <3>4, <3>5
  <2> QED
    BY <1>5, <2>1
<1> QED
  BY <1>3, <1>4, <1>6 DEF Port!Request, Branches

LEMMA ReadMaps ==
  ASSUME IInv, NEW f \in Forks, ReadPrefix(f)
  PROVE  Port!Branch(f)
<1> DEFINE p == Prefix(EventsOf(Parent), job[f].at)
           j == [job[f] EXCEPT !.pc = "copying", !.prefix = p]
<1>1. job[f].pc = "requested" /\ job[f] \in Jobs /\ UNCHANGED log
  BY DEF ReadPrefix, IInv, JobInv
<1>2. job' = [job EXCEPT ![f] = j]
  BY DEF ReadPrefix, IInv, JobInv
<1>3. j.pc = "copying" /\ j.at = job[f].at /\ j.prefix = p
  BY <1>1 DEF Jobs
<1>4. p = Port!Prefix(EventsOf(Parent), job[f].at)
  BY DEF Prefix, Port!Prefix
<1> HIDE DEF j, p
<1>5. EventsOf(Parent)' = EventsOf(Parent) /\ Branches' = [Branches EXCEPT ![f] = Seen(f, j)]
  BY <1>1, <1>2, CallMaps
<1>6. Branches[f] = [state |-> "requested", at |-> job[f].at, events |-> << >>]
  BY <1>1, BranchSeen
<1>7. Seen(f, j) = [Branches[f] EXCEPT !.state = "branched", !.events = p]
  <2>1. Seen(f, j) = [state |-> "branched", at |-> job[f].at, events |-> p]
    BY <1>3 DEF Seen
  <2>2. [Branches[f] EXCEPT !.state = "branched", !.events = p]
          = [state |-> "branched", at |-> job[f].at, events |-> p]
    <3>1. PICK b : b = Branches[f]
      OBVIOUS
    <3> DEFINE c == [state |-> "branched", at |-> job[f].at, events |-> << >>]
    <3>2. b = [state |-> "requested", at |-> job[f].at, events |-> << >>]
      BY <3>1, <1>6
    <3>3. [b EXCEPT !.state = "branched"] = c
      BY <3>2
    <3>4. [b EXCEPT !.state = "branched", !.events = p] = [c EXCEPT !.events = p]
      BY <3>3
    <3>5. [c EXCEPT !.events = p] = [state |-> "branched", at |-> job[f].at, events |-> p]
      OBVIOUS
    <3> HIDE DEF c
    <3> QED
      BY <3>1, <3>4, <3>5
  <2> QED
    BY <2>1, <2>2
<1>8. Branches' = [Branches EXCEPT ![f].state = "branched", ![f].events = p]
  BY <1>5, <1>7
<1>9. /\ Branches[f].state = "requested"
      /\ p = Port!Prefix(EventsOf(Parent), Branches[f].at)
  BY <1>4, <1>6
<1> QED
  BY <1>5, <1>8, <1>9 DEF Port!Branch, Branches

(* The call raises: nothing that it copied is promised.                    *)
LEMMA FailMaps ==
  ASSUME IInv, NEW f \in Forks, ReadRaises(f) \/ CopyFails(f)
  PROVE  Port!Fail(f)
<1> DEFINE j == [job[f] EXCEPT !.pc = "raised"]
<1>1. job[f].pc \in {"requested", "copying"} /\ job[f] \in Jobs /\ UNCHANGED log
  BY DEF ReadRaises, CopyFails, Copying, IInv, JobInv
<1>2. job' = [job EXCEPT ![f] = j]
  BY DEF ReadRaises, CopyFails, IInv, JobInv
<1>3. j.pc = "raised" /\ j.at = job[f].at
  BY <1>1 DEF Jobs
<1> HIDE DEF j
<1>4. EventsOf(Parent)' = EventsOf(Parent) /\ Branches' = [Branches EXCEPT ![f] = Seen(f, j)]
  BY <1>1, <1>2, CallMaps
<1>5. PICK s, e : Branches[f] = [state |-> s, at |-> job[f].at, events |-> e]
                  /\ s \in {"requested", "branched"}
  BY <1>1, BranchSeen
<1>6. Seen(f, j) = [Branches[f] EXCEPT !.state = "failed", !.events = << >>]
  <2>1. Seen(f, j) = [state |-> "failed", at |-> job[f].at, events |-> << >>]
    BY <1>3 DEF Seen
  <2>2. [Branches[f] EXCEPT !.state = "failed", !.events = << >>]
          = [state |-> "failed", at |-> job[f].at, events |-> << >>]
    <3>1. PICK b : b = Branches[f]
      OBVIOUS
    <3> DEFINE c == [state |-> "failed", at |-> job[f].at, events |-> e]
    <3>2. b = [state |-> s, at |-> job[f].at, events |-> e]
      BY <3>1, <1>5
    <3>3. [b EXCEPT !.state = "failed"] = c
      BY <3>2
    <3>4. [b EXCEPT !.state = "failed", !.events = << >>] = [c EXCEPT !.events = << >>]
      BY <3>3
    <3>5. [c EXCEPT !.events = << >>] = [state |-> "failed", at |-> job[f].at, events |-> << >>]
      OBVIOUS
    <3> HIDE DEF c
    <3> QED
      BY <3>1, <3>4, <3>5
  <2> QED
    BY <2>1, <2>2
<1>7. Branches' = [Branches EXCEPT ![f].state = "failed", ![f].events = << >>]
  BY <1>4, <1>6
<1> QED
  BY <1>4, <1>5, <1>7 DEF Port!Fail, Branches

(* The call returns: everything of the prefix has been copied.             *)
LEMMA ReturnMaps ==
  ASSUME IInv, NEW f \in Forks, Return(f)
  PROVE  Port!Return(f)
<1> DEFINE j == [job[f] EXCEPT !.pc = "done"]
<1>1. /\ job[f].pc = "copying" /\ job[f].copied = Len(job[f].prefix)
      /\ job[f] \in Jobs /\ UNCHANGED log
  BY DEF Return, IInv, JobInv
<1>2. job' = [job EXCEPT ![f] = j]
  BY DEF Return, IInv, JobInv
<1>3. j.pc = "done" /\ j.at = job[f].at
  BY <1>1 DEF Jobs
<1>4. Copies(f) = job[f].prefix
  BY <1>1, CopiesRead
<1> HIDE DEF j
<1>5. EventsOf(Parent)' = EventsOf(Parent) /\ Branches' = [Branches EXCEPT ![f] = Seen(f, j)]
  BY <1>1, <1>2, CallMaps
<1>6. Branches[f] = [state |-> "branched", at |-> job[f].at, events |-> job[f].prefix]
  BY <1>1, BranchSeen
<1>7. Seen(f, j) = [Branches[f] EXCEPT !.state = "done"]
  BY <1>3, <1>4, <1>6 DEF Seen
<1>8. Branches' = [Branches EXCEPT ![f].state = "done"]
  BY <1>5, <1>7
<1> QED
  BY <1>5, <1>6, <1>8 DEF Port!Return, Branches

ParentListed == EventsOf(Parent) \in Seq(ParentRows)

LEMMA ParentReadNext == LogInv' => ParentListed'
<1>1. LogInv => ParentListed
  BY ParentRead DEF ParentListed
<1> QED
  BY <1>1, PTL

(* The parent's events after an append are those before and one more,      *)
(* wherever its timestamp puts it.                                         *)
LEMMA ParentRecords ==
  ASSUME IInv, IInv', NEW ts \in Timestamps, AppendParent(ts)
  PROVE  \E k \in DOMAIN EventsOf(Parent)' : EventsOf(Parent) = RemoveAt(EventsOf(Parent)', k)
<1> DEFINE at == RunAt(Parent)
           n == Cardinality(at)
<1>1. PICK m \in Nat \ DOMAIN log :
        /\ log'[m] \in ParentRows
        /\ \A i \in DOMAIN log : log'[i] = log[i]
        /\ RunAt(Parent)' = at \cup {m}
  BY ParentAppends
<1>2. at \subseteq DOMAIN log
  BY DEF RunAt
<1>3. PICK s : s = EventsOf(Parent)'
  OBVIOUS
<1>4. PICK t : t = EventsOf(Parent)
  OBVIOUS
<1>5. s = IterRows(log', at \cup {m}) /\ t = IterRows(log, at)
  BY <1>1, <1>3, <1>4 DEF EventsOf, RunAt
<1>6. s \in Seq(ParentRows) /\ t \in Seq(ParentRows)
  BY <1>3, <1>4, ParentRead, ParentReadNext DEF IInv, ParentListed
<1> HIDE DEF at
<1>7. ReadableRows(log, at)
  BY <1>2, LogReadable DEF IInv
<1>8. /\ m \in Nat \ at /\ log'[m].ts \in Nat
      /\ \A i \in at : log'[i] = log[i]
  BY <1>1, <1>2 DEF ParentRows
<1>9. PICK more : more = log'
  OBVIOUS
<1> DEFINE k == Place(more, at \cup {m}, m)
<1>10. /\ n \in Nat
       /\ Cardinality(at \cup {m}) = n + 1
       /\ k \in 1 .. n + 1
       /\ \A l \in 1 .. n : l < k => IterRows(more, at \cup {m})[l] = IterRows(log, at)[l]
       /\ \A l \in 1 .. n : k <= l => IterRows(more, at \cup {m})[l + 1] = IterRows(log, at)[l]
  BY <1>7, <1>8, <1>9, ReadOneMore
<1> HIDE DEF k, n
<1>11. /\ \A l \in 1 .. n : l < k => s[l] = t[l]
       /\ \A l \in 1 .. n : k <= l => s[l + 1] = t[l]
  BY <1>5, <1>9, <1>10
<1>12. DOMAIN s = 1 .. n + 1 /\ DOMAIN t = 1 .. n
  BY <1>5, <1>9, <1>10 DEF IterRows, n
<1>13. Len(s) = n + 1 /\ Len(t) = n
  BY <1>6, <1>10, <1>12, LenProperties
<1>14. t = RemoveAt(s, k)
  BY <1>6, <1>10, <1>11, <1>13, RemovedAt
<1> QED
  BY <1>3, <1>4, <1>10, <1>12, <1>14

LEMMA AppendParentMaps ==
  ASSUME IInv, IInv', NEW ts \in Timestamps, AppendParent(ts)
  PROVE  Port!Record
<1>1. \E k \in DOMAIN EventsOf(Parent)' : EventsOf(Parent) = RemoveAt(EventsOf(Parent)', k)
  BY ParentRecords
<1>2. job' = job
  BY ParentAppends
<1>3. \A e \in Forks : CopyAt(e)' = CopyAt(e) /\ \A i \in DOMAIN log : log'[i] = log[i]
  BY ParentAppends
<1>4. \A e \in Forks : BranchOf(e)' = BranchOf(e)
  BY <1>2, <1>3, CopiesKept, BranchKept
<1>5. UNCHANGED Branches
  BY <1>4 DEF Branches
<1> QED
  BY <1>1, <1>5 DEF Port!Record, Port!RemoveAt, RemoveAt, Branches

(* What is appended to another run, and under an id of its own, is not     *)
(* read among the copies of a fork.                                        *)
LEMMA AppendKeeps ==
  ASSUME LogInv, NEW row, log' = AppendRow(log, row)
  PROVE  /\ \A i \in DOMAIN log : log'[i] = log[i]
         /\ row.run # Parent => RunAt(Parent)' = RunAt(Parent)
         /\ \A e \in Forks : row.run # e \/ row.id[1] # e => CopyAt(e)' = CopyAt(e)
<1>1. CASE row.id \in IdsIn(log)
  BY <1>1 DEF AppendRow, RunAt, CopyAt
<1>2. CASE row.id \notin IdsIn(log)
  <2> DEFINE S == Rows \cup {row}
             m == Len(log) + 1
  <2>1. log \in Seq(S) /\ row \in S
    BY IsASeq, LenProperties, StackElement DEF LogInv
  <2>2. log' = Append(log, row)
    BY <1>2 DEF AppendRow
  <2> HIDE DEF S
  <2>3. /\ log' \in Seq(S) /\ Len(log') = m /\ log'[m] = row
        /\ \A i \in 1 .. Len(log) : log'[i] = log[i]
    BY <2>1, <2>2, AppendProperties
  <2>4. DOMAIN log = 1 .. Len(log) /\ DOMAIN log' = 1 .. m /\ Len(log) \in Nat
    BY <2>1, <2>3, LenProperties
  <2>5. DOMAIN log' = DOMAIN log \cup {m} /\ m \notin DOMAIN log
    BY <2>4
  <2>6. \A i \in DOMAIN log : log'[i] = log[i]
    BY <2>3, <2>4
  <2> HIDE DEF m
  <2>7. row.run # Parent => RunAt(Parent)' = RunAt(Parent)
    BY <2>3, <2>5, <2>6 DEF RunAt
  <2>8. \A e \in Forks : row.run # e \/ row.id[1] # e => CopyAt(e)' = CopyAt(e)
    BY <2>3, <2>5, <2>6 DEF CopyAt
  <2> QED
    BY <2>6, <2>7, <2>8
<1> QED
  BY <1>1, <1>2

(* A copy shows to nobody before the call returns.                         *)
LEMMA CopyNextMaps ==
  ASSUME IInv, NEW f \in Forks, CopyNext(f)
  PROVE  UNCHANGED <<EventsOf(Parent), Branches>>
<1>1. job[f].pc = "copying" /\ LogInv /\ job[f] \in Jobs
  BY DEF CopyNext, Copying, IInv, JobInv
<1>2. PICK row \in CopyRows(f) : log' = AppendRow(log, row)
  <2>1. job[f].prefix \in Seq(ParentRows) /\ job[f].copied \in Nat
    BY <1>1 DEF Jobs
  <2>2. job[f].copied + 1 \in 1 .. Len(job[f].prefix)
    BY <2>1, LenProperties DEF CopyNext, Copying
  <2>3. job[f].prefix[job[f].copied + 1] \in ParentRows
    BY <2>1, <2>2, ElementOfSeq
  <2> QED
    BY <2>3, CopyShape DEF CopyNext
<1>3. row.run = f
  BY DEF CopyRows
<1>4. /\ \A i \in DOMAIN log : log'[i] = log[i]
      /\ RunAt(Parent)' = RunAt(Parent)
      /\ \A e \in Forks : e # f => CopyAt(e)' = CopyAt(e)
  BY <1>1, <1>2, <1>3, AppendKeeps, RunAssumption
<1>5. EventsOf(Parent)' = EventsOf(Parent)
  BY <1>4, ParentKept
<1>6. \A e \in Forks : e # f => job'[e] = job[e]
  BY DEF CopyNext, IInv, JobInv
<1>7. job'[f].pc = "copying" /\ job'[f].prefix = job[f].prefix /\ job'[f].at = job[f].at
  BY <1>1 DEF CopyNext, IInv, JobInv, Jobs
<1>8. BranchOf(f)' = BranchOf(f)
  BY <1>1, <1>7 DEF BranchOf
<1>9. \A e \in Forks : e # f => BranchOf(e)' = BranchOf(e)
  BY <1>4, <1>6, CopiesKept, BranchKept
<1> QED
  BY <1>5, <1>8, <1>9 DEF Branches

(* Nor is what a run appends that takes a fork on any of its copies.       *)
LEMMA ContinueMaps ==
  ASSUME IInv, NEW f \in Forks, NEW ts \in Timestamps, Continue(f, ts)
  PROVE  UNCHANGED <<EventsOf(Parent), Branches>>
<1>1. PICK row : log' = AppendRow(log, row) /\ row.run = f /\ row.id[1] = "new"
  BY DEF Continue
<1>2. /\ \A i \in DOMAIN log : log'[i] = log[i]
      /\ RunAt(Parent)' = RunAt(Parent)
      /\ \A e \in Forks : CopyAt(e)' = CopyAt(e)
  BY <1>1, AppendKeeps, RunAssumption, IdAssumption DEF IInv
<1>3. EventsOf(Parent)' = EventsOf(Parent)
  BY <1>2, ParentKept
<1>4. \A e \in Forks : BranchOf(e)' = BranchOf(e)
  BY <1>2, CopiesKept, BranchKept DEF Continue
<1> QED
  BY <1>3, <1>4 DEF Branches

LEMMA StepMaps ==
  ASSUME IInv, IInv', [Next]_vars
  PROVE  Port!Next \/ UNCHANGED <<EventsOf(Parent), Branches>>
<1>1. ASSUME NEW ts \in Timestamps, AppendParent(ts) PROVE Port!Next
  BY <1>1, AppendParentMaps DEF Port!Next
<1>2. ASSUME NEW f \in Forks, NEW at \in Points, NEW pooled \in BOOLEAN, Request(f, at, pooled)
      PROVE  Port!Next
  BY <1>2, RequestMaps DEF Port!Next
<1>3. ASSUME NEW f \in Forks, ReadPrefix(f) PROVE Port!Next
  BY <1>3, ReadMaps DEF Port!Next
<1>4. ASSUME NEW f \in Forks, ReadRaises(f) \/ CopyFails(f) PROVE Port!Next
  BY <1>4, FailMaps DEF Port!Next
<1>5. ASSUME NEW f \in Forks, Return(f) PROVE Port!Next
  BY <1>5, ReturnMaps DEF Port!Next
<1>6. ASSUME NEW f \in Forks, NEW ts \in Timestamps, CopyNext(f) \/ Continue(f, ts)
      PROVE  UNCHANGED <<EventsOf(Parent), Branches>>
  BY <1>6, CopyNextMaps, ContinueMaps
<1>7. ASSUME NEW f \in Forks, CopyNext(f) PROVE UNCHANGED <<EventsOf(Parent), Branches>>
  BY <1>7, CopyNextMaps
<1>8. ASSUME UNCHANGED vars PROVE UNCHANGED <<EventsOf(Parent), Branches>>
  BY <1>8 DEF vars, EventsOf, Branches, BranchOf, Copies
<1> QED
  BY <1>1, <1>2, <1>3, <1>4, <1>5, <1>6, <1>7, <1>8 DEF Next, ForkStep

(* Whatever other forks, the parent run and the runs that continue forks   *)
(* append between two copies and afterwards, a fork holds the parent's     *)
(* events up to the chosen one as they read at one moment of the call, in  *)
(* the same order: NativeForkEngine.fork implements the ForkEngine port.   *)
THEOREM ForksImplementPort == Spec => ImplementsPort
<1>1. Init => Port!Init
  <2> SUFFICES ASSUME Init PROVE Port!Init
    OBVIOUS
  <2>1. log = << >> /\ job = [f \in Forks |-> NoJob]
    BY DEF Init
  <2>2. EventsOf(Parent) = << >>
    <3>1. RunAt(Parent) = {} /\ EventsOf(Parent) = IterRows(log, RunAt(Parent))
      BY <2>1 DEF RunAt, EventsOf
    <3>2. 1 .. Cardinality(RunAt(Parent)) = {}
      BY <3>1, FS_EmptySet
    <3> QED
      BY <3>1, <3>2 DEF IterRows
  <2>3. \A f \in Forks : BranchOf(f) = Port!NoBranch
    BY <2>1, InitIInv, BranchSeen DEF NoJob
  <2> QED
    BY <2>2, <2>3 DEF Port!Init
<1>2. IInv /\ IInv' /\ [Next]_vars => [Port!Next]_(Port!portVars)
  BY StepMaps DEF Port!portVars, Branches
<1> QED
  BY <1>1, <1>2, ForkInvariant, PTL DEF Spec, ImplementsPort, Port!Spec

-----------------------------------------------------------------------------
(* What a fork replays to.                                                 *)

(* Replay gives a vertex the data of the last event that writes it.        *)
LEMMA LastWriter ==
  ASSUME NEW n \in Nat, NEW events, DOMAIN events = 1 .. n, NEW v \in Vertices
  PROVE  \/ /\ \A k \in 1 .. n : events[k].pay.vertex # v
            /\ Replayed(events).vertices[v] = "absent"
         \/ \E k \in 1 .. n :
              /\ events[k].pay.vertex = v
              /\ \A l \in 1 .. n : events[l].pay.vertex = v => l <= k
              /\ Replayed(events).vertices[v] = events[k].pay.data
<1> DEFINE W == {i \in DOMAIN events : events[i].pay.vertex = v}
           last == CHOOSE i \in W : \A j \in W : j <= i
<1>1. Replayed(events).vertices[v] = IF W = {} THEN "absent" ELSE events[last].pay.data
  BY DEF Replayed
<1>2. ASSUME W # {} PROVE last \in W /\ \A j \in W : j <= last
  <2>1. W \in SUBSET (1 .. n)
    OBVIOUS
  <2>2. \E i \in W : \A j \in W : j <= i
    BY <1>2, <2>1, LargestNumber
  <2> QED
    BY <2>2
<1>3. CASE W = {}
  BY <1>1, <1>3
<1>4. CASE W # {}
  <2>1. last \in 1 .. n /\ events[last].pay.vertex = v
    BY <1>2, <1>4
  <2>2. \A l \in 1 .. n : events[l].pay.vertex = v => l <= last
    BY <1>2, <1>4
  <2> HIDE DEF last, W
  <2> QED
    BY <1>1, <1>4, <2>1, <2>2
<1> QED
  BY <1>3, <1>4

(* A fork's run is its copies, in the order of the prefix, and what was    *)
(* appended to take it on.                                                 *)
LEMMA ForkListed ==
  ASSUME IInv, NEW f \in Forks, job[f].pc = "done",
         NEW list, list = Listing(log, RunAt(f)), NEW g, g = Listing(log, CopyAt(f)),
         NEW n, n = Cardinality(RunAt(f)), NEW c, c = Cardinality(CopyAt(f))
  PROVE  /\ n \in Nat /\ c \in Nat
         /\ list \in [1 .. n -> RunAt(f)] /\ g \in [1 .. c -> CopyAt(f)]
         /\ DOMAIN EventsOf(f) = 1 .. n /\ \A k \in 1 .. n : EventsOf(f)[k] = log[list[k]]
         /\ DOMAIN job[f].prefix = 1 .. c
         /\ \A k \in 1 .. c : job[f].prefix[k].pay = log[g[k]].pay
         /\ \A i \in RunAt(f) : \E k \in 1 .. n : list[k] = i
         /\ \A i \in CopyAt(f) : \E k \in 1 .. c : g[k] = i
         /\ \A k, l \in 1 .. n : list[k] = list[l] => k = l
         /\ \A k, l \in 1 .. c : g[k] = g[l] => k = l
         /\ \A k, l \in 1 .. n : k < l => Earlier(log, list[k], list[l])
         /\ \A k, l \in 1 .. c : k < l => Earlier(log, g[k], g[l])
<1>1. LogInv /\ CopyAt(f) \subseteq DOMAIN log /\ RunAt(f) \subseteq DOMAIN log
  BY DEF IInv, CopyAt, RunAt
<1>2. ReadableRows(log, RunAt(f)) /\ ReadableRows(log, CopyAt(f))
  BY <1>1, LogReadable
<1>3. /\ n \in Nat
      /\ list \in [1 .. n -> RunAt(f)]
      /\ \A k \in 1 .. n : Place(log, RunAt(f), list[k]) = k
      /\ \A i \in RunAt(f) : Place(log, RunAt(f), i) \in 1 .. n /\ list[Place(log, RunAt(f), i)] = i
  BY <1>2, ListingPlaces
<1>4. /\ c \in Nat
      /\ g \in [1 .. c -> CopyAt(f)]
      /\ \A k \in 1 .. c : Place(log, CopyAt(f), g[k]) = k
      /\ \A i \in CopyAt(f) : Place(log, CopyAt(f), i) \in 1 .. c /\ g[Place(log, CopyAt(f), i)] = i
  BY <1>2, ListingPlaces
<1>5. \A k, l \in 1 .. n : k < l => Earlier(log, list[k], list[l])
  BY <1>2, ListingOrder
<1>6. \A k, l \in 1 .. c : k < l => Earlier(log, g[k], g[l])
  BY <1>2, ListingOrder
<1>7. EventsOf(f) = [k \in 1 .. n |-> log[list[k]]]
  BY DEF EventsOf, RunAt, IterRows
<1>8. /\ c = job[f].copied
      /\ \A k \in 1 .. c : log[g[k]] = Copy(f, job[f].prefix[k])
  BY CopiesListed
<1>9. job[f].prefix \in Seq(ParentRows) /\ c = Len(job[f].prefix)
  BY <1>8 DEF IInv, JobInv, Jobs
<1>10. DOMAIN job[f].prefix = 1 .. c /\ \A k \in 1 .. c : job[f].prefix[k] \in ParentRows
  BY <1>9, LenProperties, StackElement
<1>11. \A k \in 1 .. c : job[f].prefix[k].pay = log[g[k]].pay
  BY <1>8, <1>10, CopyShape
<1>12. \A k, l \in 1 .. n : list[k] = list[l] => k = l
  BY <1>3
<1>13. \A k, l \in 1 .. c : g[k] = g[l] => k = l
  BY <1>4
<1>14. \A i \in RunAt(f) : \E k \in 1 .. n : list[k] = i
  BY <1>3
<1>15. \A i \in CopyAt(f) : \E k \in 1 .. c : g[k] = i
  BY <1>4
<1> QED
  BY <1>3, <1>4, <1>5, <1>6, <1>7, <1>10, <1>11, <1>12, <1>13, <1>14, <1>15

(* Every row of a fork's run is a copy or was appended to take it on.      *)
LEMMA ForkParts ==
  ASSUME IInv, NEW f \in Forks
  PROVE  /\ RunAt(f) = CopyAt(f) \cup Continuations(f)
         /\ CopyAt(f) \cap Continuations(f) = {}
         /\ \A i \in RunAt(f) : log[i].pay \in Payloads
<1>1. \A i \in DOMAIN log : log[i] \in Rows
  BY StackElement DEF IInv, LogInv
<1>2. ASSUME NEW i \in RunAt(f) PROVE i \in CopyAt(f) \cup Continuations(f)
  <2>1. i \in DOMAIN log /\ log[i].run = f /\ log[i] \in Rows
    BY <1>1 DEF RunAt
  <2>2. log[i].id[1] = f \/ log[i].id[1] = "new"
    BY <2>1, RowShape
  <2> QED
    BY <2>1, <2>2 DEF CopyAt, Continuations
<1>3. CopyAt(f) \subseteq RunAt(f) /\ Continuations(f) \subseteq RunAt(f)
  BY DEF CopyAt, Continuations, RunAt
<1>4. CopyAt(f) \cap Continuations(f) = {}
  BY IdAssumption DEF CopyAt, Continuations
<1>5. \A i \in RunAt(f) : log[i].pay \in Payloads
  BY <1>1, RowShape DEF RunAt
<1> QED
  BY <1>2, <1>3, <1>4, <1>5

(* The last event of a fork that writes a vertex: when it is a copy, the   *)
(* prefix ends on it too.                                                  *)
LEMMA CopyWritesLast ==
  ASSUME IInv, NEW f \in Forks, job[f].pc = "done", NEW v \in Vertices
  PROVE  \/ /\ \A i \in RunAt(f) : log[i].pay.vertex # v
            /\ Replayed(EventsOf(f)).vertices[v] = "absent"
            /\ Replayed(job[f].prefix).vertices[v] = "absent"
         \/ \E i \in Continuations(f) :
              /\ log[i].pay.vertex = v
              /\ Replayed(EventsOf(f)).vertices[v] = log[i].pay.data
         \/ /\ Replayed(EventsOf(f)).vertices[v] = Replayed(job[f].prefix).vertices[v]
            /\ Replayed(EventsOf(f)).vertices[v] # "absent"
<1>1. PICK list : list = Listing(log, RunAt(f))
  OBVIOUS
<1>2. PICK g : g = Listing(log, CopyAt(f))
  OBVIOUS
<1>3. PICK n : n = Cardinality(RunAt(f))
  OBVIOUS
<1>4. PICK c : c = Cardinality(CopyAt(f))
  OBVIOUS
<1>5. PICK p : p = job[f].prefix
  OBVIOUS
<1>6. PICK events : events = EventsOf(f)
  OBVIOUS
<1>7. /\ n \in Nat /\ c \in Nat
      /\ list \in [1 .. n -> RunAt(f)] /\ g \in [1 .. c -> CopyAt(f)]
      /\ DOMAIN events = 1 .. n /\ \A k \in 1 .. n : events[k] = log[list[k]]
      /\ DOMAIN p = 1 .. c /\ \A k \in 1 .. c : p[k].pay = log[g[k]].pay
  <2>1. /\ n \in Nat /\ c \in Nat
        /\ list \in [1 .. n -> RunAt(f)] /\ g \in [1 .. c -> CopyAt(f)]
        /\ DOMAIN EventsOf(f) = 1 .. n /\ \A k \in 1 .. n : EventsOf(f)[k] = log[list[k]]
    BY <1>1, <1>2, <1>3, <1>4, ForkListed
  <2>2. DOMAIN job[f].prefix = 1 .. c /\ \A k \in 1 .. c : job[f].prefix[k].pay = log[g[k]].pay
    BY <1>1, <1>2, <1>3, <1>4, ForkListed
  <2> QED
    BY <1>5, <1>6, <2>1, <2>2
<1>8. /\ \A i \in RunAt(f) : \E k \in 1 .. n : list[k] = i
      /\ \A i \in CopyAt(f) : \E k \in 1 .. c : g[k] = i
      /\ \A k, l \in 1 .. n : k < l => Earlier(log, list[k], list[l])
      /\ \A k, l \in 1 .. c : k < l => Earlier(log, g[k], g[l])
  BY <1>1, <1>2, <1>3, <1>4, ForkListed
<1>9. ReadableRows(log, RunAt(f))
  BY LogReadable DEF RunAt, IInv
<1>10. CASE \A k \in 1 .. n : events[k].pay.vertex # v
  <2>1. \A i \in RunAt(f) : log[i].pay.vertex # v
    BY <1>7, <1>8, <1>10
  <2>2. \A k \in 1 .. c : p[k].pay.vertex # v
    BY <1>7, <2>1, ForkParts
  <2>3. Replayed(events).vertices[v] = "absent"
    BY <1>7, <1>10, LastWriter
  <2>4. Replayed(p).vertices[v] = "absent"
    BY <1>7, <2>2, LastWriter
  <2> QED
    BY <1>5, <1>6, <2>1, <2>3, <2>4
<1>11. ASSUME NEW k \in 1 .. n, events[k].pay.vertex = v,
              \A l \in 1 .. n : events[l].pay.vertex = v => l <= k,
              Replayed(events).vertices[v] = events[k].pay.data,
              list[k] \in CopyAt(f)
       PROVE  /\ Replayed(events).vertices[v] = Replayed(p).vertices[v]
              /\ Replayed(events).vertices[v] # "absent"
  <2>1. PICK a \in 1 .. c : g[a] = list[k]
    BY <1>8, <1>11
  <2>2. p[a].pay = events[k].pay
    BY <1>7, <2>1
  <2>3. PICK b \in 1 .. c : /\ p[b].pay.vertex = v
                            /\ \A l \in 1 .. c : p[l].pay.vertex = v => l <= b
                            /\ Replayed(p).vertices[v] = p[b].pay.data
    <3>1. p[a].pay.vertex = v
      BY <1>11, <2>2
    <3>2. \/ \A k1 \in 1 .. c : p[k1].pay.vertex # v
          \/ \E b \in 1 .. c : /\ p[b].pay.vertex = v
                               /\ \A l \in 1 .. c : p[l].pay.vertex = v => l <= b
                               /\ Replayed(p).vertices[v] = p[b].pay.data
      BY <1>7, LastWriter
    <3> QED
      BY <3>1, <3>2
  <2>4. a <= b
    BY <1>11, <2>2, <2>3
  <2>5. PICK l \in 1 .. n : list[l] = g[b]
    BY <1>7, <1>8, ForkParts
  <2>6. l <= k
    BY <1>7, <1>11, <2>3, <2>5
  <2>7. list[l] \in RunAt(f) /\ list[k] \in RunAt(f)
    BY <1>7
  <2>8. a = b
    <3> SUFFICES ASSUME a < b PROVE FALSE
      BY <1>7, <2>4
    <3>1. Earlier(log, list[k], list[l])
      BY <1>8, <2>1, <2>5
    <3>2. l = k \/ Earlier(log, list[l], list[k])
      BY <1>7, <1>8, <2>6
    <3> QED
      BY <1>9, <2>7, <3>1, <3>2, EarlierOrders
  <2>9. Replayed(p).vertices[v] = events[k].pay.data
    BY <2>2, <2>3, <2>8
  <2>10. events[k].pay \in Payloads
    BY <1>7, ForkParts
  <2> QED
    BY <1>11, <2>9, <2>10, PayloadAssumption
<1>12. ASSUME NEW k \in 1 .. n, events[k].pay.vertex = v,
              Replayed(events).vertices[v] = events[k].pay.data,
              list[k] \notin CopyAt(f)
       PROVE  \E i \in Continuations(f) :
                log[i].pay.vertex = v /\ Replayed(events).vertices[v] = log[i].pay.data
  <2>1. list[k] \in Continuations(f)
    BY <1>7, <1>12, ForkParts
  <2> QED
    BY <1>7, <1>12, <2>1
<1>13. \/ \A k \in 1 .. n : events[k].pay.vertex # v
       \/ \E k \in 1 .. n : /\ events[k].pay.vertex = v
                            /\ \A l \in 1 .. n : events[l].pay.vertex = v => l <= k
                            /\ Replayed(events).vertices[v] = events[k].pay.data
  BY <1>7, LastWriter, SMTT(30)
<1> QED
  BY <1>5, <1>6, <1>10, <1>11, <1>12, <1>13

(* A fork adds the edges its prefix adds, and those of its continuation.   *)
LEMMA EdgesAdded ==
  ASSUME IInv, NEW f \in Forks, job[f].pc = "done"
  PROVE  Replayed(EventsOf(f)).edges
           = Replayed(job[f].prefix).edges
             + Cardinality({i \in Continuations(f) : log[i].pay.vertex = NoVertex})
<1> DEFINE B == {i \in RunAt(f) : log[i].pay.vertex = NoVertex}
           C == {i \in CopyAt(f) : log[i].pay.vertex = NoVertex}
           D == {i \in Continuations(f) : log[i].pay.vertex = NoVertex}
<1>1. PICK list : list = Listing(log, RunAt(f))
  OBVIOUS
<1>2. PICK g : g = Listing(log, CopyAt(f))
  OBVIOUS
<1>3. PICK n : n = Cardinality(RunAt(f))
  OBVIOUS
<1>4. PICK c : c = Cardinality(CopyAt(f))
  OBVIOUS
<1>5. PICK p : p = job[f].prefix
  OBVIOUS
<1>6. PICK events : events = EventsOf(f)
  OBVIOUS
<1>7. /\ n \in Nat /\ c \in Nat
      /\ list \in [1 .. n -> RunAt(f)] /\ g \in [1 .. c -> CopyAt(f)]
      /\ DOMAIN events = 1 .. n /\ \A k \in 1 .. n : events[k] = log[list[k]]
      /\ DOMAIN p = 1 .. c /\ \A k \in 1 .. c : p[k].pay = log[g[k]].pay
  <2>1. /\ n \in Nat /\ c \in Nat
        /\ list \in [1 .. n -> RunAt(f)] /\ g \in [1 .. c -> CopyAt(f)]
        /\ DOMAIN EventsOf(f) = 1 .. n /\ \A k \in 1 .. n : EventsOf(f)[k] = log[list[k]]
    BY <1>1, <1>2, <1>3, <1>4, ForkListed
  <2>2. DOMAIN job[f].prefix = 1 .. c /\ \A k \in 1 .. c : job[f].prefix[k].pay = log[g[k]].pay
    BY <1>1, <1>2, <1>3, <1>4, ForkListed
  <2> QED
    BY <1>5, <1>6, <2>1, <2>2
<1>8. /\ \A i \in RunAt(f) : \E k \in 1 .. n : list[k] = i
      /\ \A i \in CopyAt(f) : \E k \in 1 .. c : g[k] = i
      /\ \A k, l \in 1 .. n : list[k] = list[l] => k = l
      /\ \A k, l \in 1 .. c : g[k] = g[l] => k = l
  BY <1>1, <1>2, <1>3, <1>4, ForkListed
<1>9. Replayed(events).edges = Cardinality(B) /\ IsFiniteSet(B)
  <2>1. Replayed(events).edges = Cardinality({k \in DOMAIN events : events[k].pay.vertex = NoVertex})
    BY DEF Replayed
  <2>2. {k \in DOMAIN events : events[k].pay.vertex = NoVertex} = {k \in 1 .. n : list[k] \in B}
    BY <1>7
  <2>3. B \subseteq RunAt(f)
    OBVIOUS
  <2> HIDE DEF B
  <2>4. PICK at : at = RunAt(f)
    OBVIOUS
  <2>5. PICK S : S = B
    OBVIOUS
  <2>6. n \in Nat /\ list \in [1 .. n -> at] /\ S \subseteq at
    BY <1>7, <2>3, <2>4, <2>5
  <2>7. /\ \A k, l \in 1 .. n : list[k] = list[l] => k = l
        /\ \A i \in at : \E k \in 1 .. n : list[k] = i
    BY <1>8, <2>4
  <2>8. Cardinality({k \in 1 .. n : list[k] \in S}) = Cardinality(S) /\ IsFiniteSet(S)
    BY <2>6, <2>7, ListedCount
  <2> QED
    BY <2>1, <2>2, <2>5, <2>8
<1>10. Replayed(p).edges = Cardinality(C) /\ IsFiniteSet(C)
  <2>1. Replayed(p).edges = Cardinality({k \in DOMAIN p : p[k].pay.vertex = NoVertex})
    BY DEF Replayed
  <2>2. {k \in DOMAIN p : p[k].pay.vertex = NoVertex} = {k \in 1 .. c : g[k] \in C}
    BY <1>7
  <2>3. C \subseteq CopyAt(f)
    OBVIOUS
  <2> HIDE DEF C
  <2>4. PICK at : at = CopyAt(f)
    OBVIOUS
  <2>5. PICK S : S = C
    OBVIOUS
  <2>6. c \in Nat /\ g \in [1 .. c -> at] /\ S \subseteq at
    BY <1>7, <2>3, <2>4, <2>5
  <2>7. /\ \A k, l \in 1 .. c : g[k] = g[l] => k = l
        /\ \A i \in at : \E k \in 1 .. c : g[k] = i
    BY <1>8, <2>4
  <2>8. Cardinality({k \in 1 .. c : g[k] \in S}) = Cardinality(S) /\ IsFiniteSet(S)
    BY <2>6, <2>7, ListedCount
  <2> QED
    BY <2>1, <2>2, <2>5, <2>8
<1>11. B = C \cup D /\ C \cap D = {} /\ D \subseteq B
  BY ForkParts
<1> HIDE DEF B, C, D
<1>12. IsFiniteSet(D)
  BY <1>9, <1>11, FS_Subset
<1>13. Cardinality(C) \in Nat /\ Cardinality(D) \in Nat
  BY <1>10, <1>12, FS_CardinalityType
<1>14. Cardinality(B) = Cardinality(C) + Cardinality(D)
  <2>1. Cardinality(C \cup D) = Cardinality(C) + Cardinality(D) - Cardinality(C \cap D)
    BY <1>10, <1>12, FS_Union
  <2>2. Cardinality(C \cap D) = 0
    BY <1>11, FS_EmptySet
  <2> QED
    BY <1>11, <1>13, <2>1, <2>2
<1> QED
  BY <1>5, <1>6, <1>9, <1>10, <1>14 DEF D

(* A finished fork replays to what its prefix replays to, but for the      *)
(* vertices its continuation writes: NativeReplayEngine over the run       *)
(* NativeForkEngine made.                                                  *)
THEOREM ReplayAlwaysKeepsPrefix == Spec => []ReplayKeepsPrefix
<1>1. ASSUME IInv PROVE ReplayKeepsPrefix
  <2> SUFFICES ASSUME NEW f \in Forks, job[f].pc = "done"
               PROVE  LET was == Replayed(job[f].prefix)
                          is == Replayed(EventsOf(f))
                          written == {log[i].pay : i \in Continuations(f)}
                      IN  /\ \A v \in Vertices :
                               is.vertices[v] \in
                                 IF \E p \in written : p.vertex = v
                                 THEN {p.data : p \in {q \in written : q.vertex = v}} \cup ({was.vertices[v]} \ {"absent"})
                                 ELSE {was.vertices[v]}
                          /\ is.edges = was.edges + Cardinality({i \in Continuations(f) : log[i].pay.vertex = NoVertex})
    BY DEF ReplayKeepsPrefix
  <2> DEFINE was == Replayed(job[f].prefix)
             is == Replayed(EventsOf(f))
             written == {log[i].pay : i \in Continuations(f)}
  <2>1. is.edges = was.edges + Cardinality({i \in Continuations(f) : log[i].pay.vertex = NoVertex})
    BY <1>1, EdgesAdded
  <2>2. ASSUME NEW v \in Vertices
        PROVE  is.vertices[v] \in
                 IF \E p \in written : p.vertex = v
                 THEN {p.data : p \in {q \in written : q.vertex = v}} \cup ({was.vertices[v]} \ {"absent"})
                 ELSE {was.vertices[v]}
    <3>1. PICK x : x = is.vertices[v]
      OBVIOUS
    <3>2. PICK y : y = was.vertices[v]
      OBVIOUS
    <3>3. \/ (\A i \in RunAt(f) : log[i].pay.vertex # v) /\ x = "absent" /\ y = "absent"
          \/ \E i \in Continuations(f) : log[i].pay.vertex = v /\ x = log[i].pay.data
          \/ x = y /\ x # "absent"
      BY <1>1, <3>1, <3>2, CopyWritesLast
    <3>4. Continuations(f) \subseteq RunAt(f)
      BY <1>1, ForkParts
    <3> HIDE DEF is, was
    <3>5. x \in IF \E p \in written : p.vertex = v
                THEN {p.data : p \in {q \in written : q.vertex = v}} \cup ({y} \ {"absent"})
                ELSE {y}
      <4>1. CASE \E i \in Continuations(f) : log[i].pay.vertex = v /\ x = log[i].pay.data
        BY <4>1
      <4>2. CASE x = y /\ x # "absent"
        BY <4>2
      <4>3. CASE (\A i \in RunAt(f) : log[i].pay.vertex # v) /\ x = y
        BY <3>4, <4>3
      <4> QED
        BY <3>3, <4>1, <4>2, <4>3
    <3> QED
      BY <3>1, <3>2, <3>5
  <2> QED
    BY <2>1, <2>2
<1> QED
  BY <1>1, ForkInvariant, PTL

-----------------------------------------------------------------------------
(* Provenance.  Its invariant has four parts: what a run is, what the      *)
(* graph store holds of it, what the event store holds of it, and what the *)
(* ledger says of it.                                                      *)

EventKinds == {"started", "verified", "finished", "failed"}
LoopStates == {"pending", "running", "verifying", "done", "failed"}
Names == {Unnamed, "sandbox-verifier", "program-bench-parity"}
Skills == {"sandbox-cache-task", "program-bench"}
StepKinds == {"prompt_build", "llm_respond", "code_extract", "candidate_write", "autofix",
              "executor_gate", "verify", "finish", "failure"}
VertexKinds == {"loop", "intent", "skill", "verifier", "failure", "trajectory_step"}
EdgeKinds == {"created", "uses", "verified_by", "learns_from", "next"}

Labels == {"loop", "intent"} \cup Skills \cup Names \cup StepKinds
GraphIds == VertexKinds \X (Nat \cup Labels \cup (Nat \X Nat))
GraphVertices == [id : GraphIds, kind : VertexKinds, label : Labels]
GraphEdges == [kind : EdgeKinds, src : GraphIds, dst : GraphIds]

RunRecords ==
  [model : Models, file : LogFiles, state : {"done", "failed"}, steps : Seq(StepKinds),
   error : BOOLEAN, graph : [vertices : Seq(GraphVertices), edges : Seq(GraphEdges)],
   phase : Phases \cup {"over"}, cut : BOOLEAN]

(* Only the last process can be at work; a bench passes and has no         *)
(* trajectory; a run that reaches the ratchet has failed.                  *)
RunFacts ==
  \A n \in DOMAIN runs :
    /\ n < Latest => runs[n].phase = "over" \/ runs[n].cut
    /\ IsBench(n) => Done(n) /\ runs[n].phase \in {"store", "over"}
    /\ runs[n].error => ~Done(n)
    /\ runs[n].phase \in {"ratchet", "saving"} => ~Done(n)

RunsInv ==
  /\ runs \in Seq(RunRecords)
  /\ cursor \in Nat \ {0}
  /\ RunFacts

(* A process without a loop yet has its line in the log.                   *)
Lines == [kind : {"session_start"}, of : Models, file : LogFiles]
           \cup [kind : {"run_complete"}, of : Nat, file : LogFiles]

SessionsInv == runLog \in Seq(Lines) /\ sessions \subseteq Starts

(* Entries are of failed runs, on disk, in memory or ever saved; while the *)
(* file is written anew, its entries are in memory.                        *)
LedgerInv ==
  /\ \A e \in ledger \cup pending \cup saved :
       e.run \in DOMAIN runs /\ ~Done(e.run) /\ Stored(e.run)
  /\ \A n \in DOMAIN runs :
       runs[n].phase = "over" /\ ~Done(n) => \E e \in saved : e.run = n
  /\ torn => damaged
  /\ ~damaged /\ ~Running("saving") => ledger = saved
  /\ Running("saving") => /\ \E e \in pending : e.run = Latest
                          /\ ~damaged => saved \subseteq pending

(* The events of a run are numbered from 1, each caused by the one before; *)
(* while they are emitted, cursor tells how many there are.                *)
EventRows == [id : Nat \X Nat, run : Nat, cause : {<< >>} \cup (Nat \X Nat)]

EventsInv ==
  /\ eventStore \in Seq(EventRows)
  /\ \A i \in DOMAIN eventStore :
       LET e == eventStore[i]
       IN  /\ e.run \in DOMAIN runs /\ Stored(e.run)
           /\ e.id[1] = e.run
           /\ e.cause # << >> => \E j \in 1..(i - 1) : eventStore[j].id = e.cause
  /\ \A n \in DOMAIN runs :
       /\ runs[n].phase \in {"store", "log"} => EventsOfRun(n) = {}
       /\ runs[n].phase \in {"query", "ratchet", "saving", "over"} =>
            Cardinality(EventsOfRun(n)) \in {0, Len(runs[n].steps)}
  /\ Running("log") => cursor = 1
  /\ Running("events") =>
       /\ cursor <= Len(runs[Latest].steps)
       /\ Cardinality(EventsOfRun(Latest)) = cursor - 1
       /\ \A i \in EventsOfRun(Latest) : eventStore[i].id[2] < cursor
       /\ cursor > 1 => \E i \in DOMAIN eventStore : eventStore[i].id = <<Latest, cursor - 1>>

-----------------------------------------------------------------------------
(* The loop of a run.                                                      *)

LoopEvents == [kind : EventKinds, state : LoopStates, names : Names]
LoopRecords == [id : Nat, skills : Seq(Skills), lifecycle : Seq(LoopEvents), state : LoopStates]

LEMMA AdvanceFacts ==
  ASSUME NEW loop \in LoopRecords, NEW e \in LoopEvents
  PROVE  /\ Advance(loop, e) \in LoopRecords
         /\ Advance(loop, e).state = e.state
         /\ Advance(loop, e).id = loop.id
<1> DEFINE journal == Append(loop.lifecycle, e)
<1>1. journal \in Seq(LoopEvents)
  BY AppendProperties DEF LoopRecords
<1>2. Advance(loop, e) = [id |-> loop.id, skills |-> loop.skills,
                          lifecycle |-> journal, state |-> e.state]
  <2>1. loop = [id |-> loop.id, skills |-> loop.skills,
                lifecycle |-> loop.lifecycle, state |-> loop.state]
    BY DEF LoopRecords
  <2>2. Advance(loop, e) = [[loop EXCEPT !.lifecycle = journal] EXCEPT !.state = e.state]
    BY DEF Advance
  <2>3. [loop EXCEPT !.lifecycle = journal]
          = [id |-> loop.id, skills |-> loop.skills, lifecycle |-> journal, state |-> loop.state]
    BY <2>1
  <2> QED
    BY <2>2, <2>3
<1> HIDE DEF journal
<1> QED
  BY <1>1, <1>2 DEF LoopRecords, LoopEvents

LEMMA StartFacts ==
  ASSUME NEW n \in Nat, NEW skills \in Seq(Skills)
  PROVE  Start(n, skills) \in LoopRecords /\ Start(n, skills).id = n
<1> DEFINE first == [id |-> n, skills |-> skills, lifecycle |-> << >>, state |-> "pending"]
<1>1. first \in LoopRecords /\ first.id = n
  BY EmptySeq DEF LoopRecords, LoopStates
<1>2. Event("started", "running", Unnamed) \in LoopEvents
  BY DEF Event, Unnamed, LoopEvents, EventKinds, LoopStates, Names
<1>3. Start(n, skills) = Advance(first, Event("started", "running", Unnamed))
  BY DEF Start
<1> HIDE DEF first
<1> QED
  BY <1>1, <1>2, <1>3, AdvanceFacts

(* A loop after one more event, and after two.                             *)
Played(loop, es) == FoldLeft(Advance, loop, es)

LEMMA FoldOne ==
  ASSUME NEW loop, NEW a
  PROVE  Played(loop, <<a>>) = Advance(loop, a)
<1> DEFINE es == <<a>>
           Fold(s, it) == IF s = {} THEN loop ELSE Advance(it[s \ {Max(s)}], es[Max(s)])
           F == CHOOSE f : f = [s \in SUBSET (DOMAIN es) |-> Fold(s, f)]
           G == [s \in SUBSET {1} |-> IF s = {} THEN loop ELSE Advance(loop, a)]
<1>1. Played(loop, es) = F[DOMAIN es]
  BY Zenon DEF Played, FoldLeft, MapThenFoldSet
<1> HIDE DEF Fold
<1>2. DOMAIN es = {1} /\ es[1] = a
  OBVIOUS
<1>3. Max({1}) = 1 /\ {1} \ {1} = {}
  BY DEF Max
<1> HIDE DEF es
<1>4. Fold({}, G) = G[{}]
  BY DEF Fold
<1>5. Fold({1}, G) = G[{1}]
  BY <1>2, <1>3 DEF Fold
<1>6. G = [s \in SUBSET (DOMAIN es) |-> Fold(s, G)]
  <2>1. \A s \in SUBSET {1} : s = {} \/ s = {1}
    OBVIOUS
  <2>2. \A s \in SUBSET {1} : G[s] = Fold(s, G)
    BY <2>1, <1>4, <1>5, Zenon
  <2> QED
    BY <2>2, <1>2
<1>7. F = [s \in SUBSET (DOMAIN es) |-> Fold(s, F)]
  <2> HIDE DEF G
  <2> QED
    BY <1>6, Zenon
<1> HIDE DEF F
<1>8. F[{}] = loop
  BY <1>7, <1>2 DEF Fold
<1>9. F[{1}] = Advance(F[{}], a)
  <2>1. F[{1}] = Fold({1}, F)
    BY <1>7, <1>2
  <2> QED
    BY <2>1, <1>2, <1>3 DEF Fold
<1> QED
  BY <1>1, <1>2, <1>8, <1>9 DEF es

LEMMA FoldTwo ==
  ASSUME NEW loop, NEW a, NEW b
  PROVE  Played(loop, <<a, b>>) = Advance(Advance(loop, a), b)
<1> DEFINE es == <<a, b>>
           Fold(s, it) == IF s = {} THEN loop ELSE Advance(it[s \ {Max(s)}], es[Max(s)])
           F == CHOOSE f : f = [s \in SUBSET (DOMAIN es) |-> Fold(s, f)]
           one == Advance(loop, a)
           G == [s \in SUBSET {1, 2} |-> IF s = {} THEN loop
                                         ELSE IF s = {1} THEN one
                                         ELSE IF s = {2} THEN Advance(loop, b)
                                         ELSE Advance(one, b)]
<1>1. Played(loop, es) = F[DOMAIN es]
  BY Zenon DEF Played, FoldLeft, MapThenFoldSet
<1> HIDE DEF Fold
<1>2. DOMAIN es = {1, 2} /\ es[1] = a /\ es[2] = b
  OBVIOUS
<1> HIDE DEF es
<1>3. /\ Max({1}) = 1 /\ Max({2}) = 2 /\ Max({1, 2}) = 2
      /\ {1} \ {1} = {} /\ {2} \ {2} = {} /\ {1, 2} \ {2} = {1}
  BY DEF Max
<1>4. /\ Fold({}, G) = loop /\ Fold({1}, G) = one
      /\ Fold({2}, G) = Advance(loop, b) /\ Fold({1, 2}, G) = Advance(one, b)
  <2>1. G[{}] = loop /\ G[{1}] = one
    OBVIOUS
  <2> QED
    BY <1>2, <1>3, <2>1, Zenon DEF Fold
<1>5. G = [s \in SUBSET (DOMAIN es) |-> Fold(s, G)]
  <2>1. \A s \in SUBSET {1, 2} : G[s] = Fold(s, G)
    <3> TAKE s \in SUBSET {1, 2}
    <3>1. s = {} \/ s = {1} \/ s = {2} \/ s = {1, 2}
      OBVIOUS
    <3> QED
      BY <3>1, <1>4
  <2> QED
    BY <2>1, <1>2
<1>6. F = [s \in SUBSET (DOMAIN es) |-> Fold(s, F)]
  <2> HIDE DEF G
  <2> QED
    BY <1>5, Zenon
<1> HIDE DEF F
<1>7. F[{}] = loop
  BY <1>6, <1>2 DEF Fold
<1>8. F[{1}] = one
  <2>1. F[{1}] = Fold({1}, F)
    BY <1>6, <1>2
  <2> QED
    BY <2>1, <1>2, <1>3, <1>7 DEF Fold
<1>9. F[{1, 2}] = Advance(one, b)
  <2>1. F[{1, 2}] = Fold({1, 2}, F)
    BY <1>6, <1>2
  <2> QED
    BY <2>1, <1>2, <1>3, <1>8 DEF Fold
<1> QED
  BY <1>1, <1>2, <1>9 DEF es

(* What the loop of a run comes to.                                        *)
LEMMA FinalLoop ==
  ASSUME NEW n \in Nat, NEW skills \in Seq(Skills), NEW verifier \in Names
  PROVE  LET passed == Played(Start(n, skills), Passing(verifier))
             failed == Played(Start(n, skills), Failing)
         IN  /\ passed \in LoopRecords /\ passed.id = n /\ passed.state = "done"
             /\ failed \in LoopRecords /\ failed.id = n /\ failed.state = "failed"
<1> DEFINE start == Start(n, skills)
           v == Event("verified", "verifying", verifier)
           d == Event("finished", "done", Unnamed)
           f == Event("failed", "failed", Unnamed)
<1>1. start \in LoopRecords /\ start.id = n
  BY StartFacts
<1>2. /\ v \in LoopEvents /\ d \in LoopEvents /\ f \in LoopEvents
      /\ d.state = "done" /\ f.state = "failed"
  BY DEF Event, Unnamed, LoopEvents, EventKinds, LoopStates, Names
<1>3. /\ Played(start, Passing(verifier)) = Advance(Advance(start, v), d)
      /\ Played(start, Failing) = Advance(start, f)
  <2> HIDE DEF start
  <2>1. Passing(verifier) = <<v, d>> /\ Failing = <<f>>
    BY Zenon DEF Passing, Failing
  <2> HIDE DEF v, d, f
  <2>2. Played(start, <<v, d>>) = Advance(Advance(start, v), d)
    BY FoldTwo
  <2>3. Played(start, <<f>>) = Advance(start, f)
    BY FoldOne
  <2> QED
    BY <2>1, <2>2, <2>3
<1> HIDE DEF start, v, d, f
<1>4. Advance(start, v) \in LoopRecords /\ Advance(start, v).id = n
  BY <1>1, <1>2, AdvanceFacts
<1>5. /\ Advance(start, f) \in LoopRecords /\ Advance(start, f).id = n
      /\ Advance(start, f).state = "failed"
  BY <1>1, <1>2, AdvanceFacts
<1>6. /\ Advance(Advance(start, v), d) \in LoopRecords /\ Advance(Advance(start, v), d).id = n
      /\ Advance(Advance(start, v), d).state = "done"
  BY <1>2, <1>4, AdvanceFacts
<1> QED
  BY <1>3, <1>5, <1>6 DEF start

-----------------------------------------------------------------------------
(* The projection of a loop.                                               *)

(* The vertices the projection of run n may have, each known by its id.    *)
Known(v, n, steps) ==
  /\ v.id[1] = v.kind
  /\ v.kind \in {"loop", "intent"} => v.label = v.kind
  /\ v.kind \in {"skill", "verifier", "failure"} => v.label = v.id[2]
  /\ v.kind = "trajectory_step" => /\ v.id[2] \in {n} \X DOMAIN steps
                                   /\ v.label = steps[v.id[2][2]]

VerticesOf(n, steps) == {v \in GraphVertices : Known(v, n, steps)}

(* The edges that join vertices of a list.                                 *)
EdgesAmong(vs) ==
  {e \in GraphEdges : e.src \in {v.id : v \in Range(vs)} /\ e.dst \in {v.id : v \in Range(vs)}}

Rank(S, i) == Cardinality({j \in S : j <= i})

(* Every place in a finite set of numbers is that of one of them.          *)
LEMMA RankedNumbers ==
  ASSUME NEW S \in SUBSET Nat, IsFiniteSet(S)
  PROVE  /\ Cardinality(S) \in Nat
         /\ \A k \in 1 .. Cardinality(S) : \E i \in S : Rank(S, i) = k
         /\ \A i \in S : Rank(S, i) \in 1 .. Cardinality(S)
         /\ \A i, j \in S : i < j => Rank(S, i) < Rank(S, j)
<1> DEFINE rows == [i \in S |-> [ts |-> 0]]
<1>1. ReadableRows(rows, S)
  BY DEF ReadableRows
<1>2. \A i, j \in S : Earlier(rows, j, i) <=> j < i
  BY DEF Earlier
<1> HIDE DEF rows
<1>3. ASSUME NEW i \in S PROVE Place(rows, S, i) = Rank(S, i)
  <2> DEFINE below == {j \in S : j < i}
  <2>0. \A j \in S : Earlier(rows, j, i) <=> j < i
    BY <1>2
  <2>1. {j \in S : Earlier(rows, j, i)} = below
    BY <2>0, Zenon
  <2>2. {j \in S : j <= i} = below \cup {i} /\ i \notin below
    <3>1. i \in Nat /\ \A j \in S : j \in Nat
      OBVIOUS
    <3>2. \A j \in S : (j <= i) <=> (j < i \/ j = i)
      BY <3>1
    <3>3. ~(i < i)
      BY <3>1
    <3> QED
      BY <3>2, <3>3, Zenon
  <2>3. IsFiniteSet(below)
    BY FS_Subset
  <2> HIDE DEF below
  <2>4. Cardinality(below \cup {i}) = Cardinality(below) + 1
    BY <2>2, <2>3, FS_AddElement
  <2> QED
    BY <2>1, <2>2, <2>4 DEF Place, Rank
<1>4. Cardinality(S) \in Nat
  BY FS_CardinalityType
<1>5. ASSUME NEW k \in 1 .. Cardinality(S) PROVE \E i \in S : Rank(S, i) = k
  <2>1. /\ Listing(rows, S) \in [1 .. Cardinality(S) -> S]
        /\ Place(rows, S, Listing(rows, S)[k]) = k
    BY <1>1, ListingPlaces
  <2>2. Listing(rows, S)[k] \in S
    BY <2>1
  <2> QED
    BY <1>3, <2>1, <2>2
<1>6. ASSUME NEW i \in S PROVE Rank(S, i) \in 1 .. Cardinality(S)
  <2>1. Place(rows, S, i) \in 1 .. Cardinality(S)
    BY <1>1, ListingPlaces
  <2> QED
    BY <1>3, <2>1
<1>7. ASSUME NEW i \in S, NEW j \in S, i < j PROVE Rank(S, i) < Rank(S, j)
  <2>1. Earlier(rows, i, j)
    BY <1>2, <1>7
  <2>2. Place(rows, S, i) < Place(rows, S, j)
    BY <1>1, <2>1, PlaceGrows
  <2> QED
    BY <1>3, <2>2
<1> QED
  BY <1>4, <1>5, <1>6, <1>7

LEMMA OutcomesTyped ==
  ASSUME NEW loop \in LoopRecords
  PROVE  Outcomes(loop) \in Seq(LoopEvents)
<1> DEFINE where == {i \in DOMAIN loop.lifecycle : NamesOutcome(loop.lifecycle[i])}
           Nth(k) == CHOOSE i \in where : Cardinality({j \in where : j <= i}) = k
<1>1. loop.lifecycle \in Seq(LoopEvents) /\ DOMAIN loop.lifecycle = 1 .. Len(loop.lifecycle)
  BY DEF LoopRecords
<1>2. IsFiniteSet(where) /\ Cardinality(where) \in Nat
  <2>1. IsFiniteSet(1 .. Len(loop.lifecycle))
    <3>1. PICK h : h = Len(loop.lifecycle)
      OBVIOUS
    <3>2. h \in Nat
      BY <1>1, <3>1, LenProperties
    <3> QED
      BY <3>1, <3>2, FS_Interval
  <2> QED
    BY <1>1, <2>1, FS_Subset, FS_CardinalityType
<1>3. \A k \in 1 .. Cardinality(where) : loop.lifecycle[Nth(k)] \in LoopEvents
  <2> TAKE k \in 1 .. Cardinality(where)
  <2>1. where \in SUBSET Nat
    BY <1>1
  <2> HIDE DEF where
  <2>2. \E i \in where : Rank(where, i) = k
    BY <1>2, <2>1, RankedNumbers
  <2>3. Nth(k) \in where
    BY <2>2 DEF Rank
  <2> HIDE DEF Nth
  <2>4. Nth(k) \in DOMAIN loop.lifecycle
    BY <2>3 DEF where
  <2> QED
    BY <1>1, <2>4, StackElement
<1>4. Outcomes(loop) = [k \in 1 .. Cardinality(where) |-> loop.lifecycle[Nth(k)]]
  BY DEF Outcomes
<1> HIDE DEF where, Nth
<1> QED
  BY <1>2, <1>3, <1>4

LEMMA VerticesTyped ==
  ASSUME NEW loop \in LoopRecords, NEW steps \in Seq(StepKinds)
  PROVE  LET G == VerticesOf(loop.id, steps)
         IN  /\ LoopVertex(loop) \in G /\ IntentVertex(loop) \in G
             /\ SkillVertices(loop) \in Seq(G) /\ DOMAIN SkillVertices(loop) = DOMAIN loop.skills
             /\ OutcomeVertices(loop) \in Seq(G)
             /\ DOMAIN OutcomeVertices(loop) = DOMAIN Outcomes(loop)
             /\ StepVertices(loop, steps) \in Seq(G)
             /\ DOMAIN StepVertices(loop, steps) = DOMAIN steps
<1> DEFINE G == VerticesOf(loop.id, steps)
<1>1. loop.id \in Nat /\ loop.skills \in Seq(Skills)
  BY DEF LoopRecords
<1>2. LoopVertex(loop) \in G /\ IntentVertex(loop) \in G
  BY <1>1 DEF LoopVertex, IntentVertex, Vertex, VerticesOf, Known, GraphVertices, GraphIds,
              VertexKinds, Labels
<1>3. ASSUME NEW i \in DOMAIN loop.skills
      PROVE  Vertex("skill", loop.skills[i], loop.skills[i]) \in G
  <2>1. loop.skills[i] \in Skills
    BY <1>1, StackElement
  <2> DEFINE s == loop.skills[i]
             id == <<"skill", s>>
  <2> HIDE DEF s
  <2>2. id \in GraphIds /\ s \in Labels /\ id[1] = "skill" /\ id[2] = s
    BY <2>1 DEF GraphIds, VertexKinds, Labels, s
  <2> HIDE DEF id
  <2>3. [id |-> id, kind |-> "skill", label |-> s] \in G
    BY <2>2 DEF VerticesOf, Known, GraphVertices, VertexKinds
  <2> QED
    BY <2>3 DEF Vertex, id, s
<1>4. SkillVertices(loop) \in Seq(G) /\ DOMAIN SkillVertices(loop) = DOMAIN loop.skills
  <2> HIDE DEF G
  <2> DEFINE D == Len(loop.skills)
             F == [i \in 1 .. D |-> Vertex("skill", loop.skills[i], loop.skills[i])]
  <2>1. D \in Nat /\ DOMAIN loop.skills = 1 .. D
    BY <1>1
  <2>2. SkillVertices(loop) = F
    BY <2>1 DEF SkillVertices
  <2>3. F \in [1 .. D -> G]
    BY <1>3, <2>1
  <2> HIDE DEF F, D
  <2>4. F \in Seq(G) /\ DOMAIN F = 1 .. D
    BY <2>1, <2>3
  <2> QED
    BY <2>1, <2>2, <2>4
<1>5. ASSUME NEW e \in LoopEvents, NEW kind \in {"verifier", "failure"}
      PROVE  Vertex(kind, e.names, e.names) \in G
  <2> DEFINE s == e.names
             id == <<kind, s>>
  <2>1. s \in Names
    BY DEF LoopEvents
  <2> HIDE DEF s
  <2>2. id \in GraphIds /\ s \in Labels /\ id[1] = kind /\ id[2] = s
    BY <2>1 DEF GraphIds, VertexKinds, Labels
  <2> HIDE DEF id
  <2>3. [id |-> id, kind |-> kind, label |-> s] \in G
    BY <2>2 DEF VerticesOf, Known, GraphVertices, VertexKinds
  <2> QED
    BY <2>3 DEF Vertex, id, s
<1>6. OutcomeVertices(loop) \in Seq(G) /\ DOMAIN OutcomeVertices(loop) = DOMAIN Outcomes(loop)
  <2> HIDE DEF G
  <2>1. PICK es \in Seq(LoopEvents) : es = Outcomes(loop)
    BY OutcomesTyped
  <2> DEFINE D == Len(es)
             Kind(i) == IF es[i].kind = "verified" THEN "verifier" ELSE "failure"
             F == [i \in 1 .. D |-> Vertex(Kind(i), es[i].names, es[i].names)]
  <2>2. D \in Nat /\ DOMAIN es = 1 .. D
    BY <2>1
  <2>3. OutcomeVertices(loop) = F
    BY <2>1, <2>2 DEF OutcomeVertices
  <2>4. ASSUME NEW i \in 1 .. D PROVE Vertex(Kind(i), es[i].names, es[i].names) \in G
    <3>1. es[i] \in LoopEvents
      BY <2>1, <2>2, StackElement
    <3> QED
      BY <1>5, <3>1
  <2>5. F \in [1 .. D -> G]
    BY <2>4
  <2> HIDE DEF F, D
  <2>6. F \in Seq(G) /\ DOMAIN F = 1 .. D
    BY <2>2, <2>5
  <2> QED
    BY <2>1, <2>2, <2>3, <2>6
<1>7. ASSUME NEW i \in DOMAIN steps
      PROVE  Vertex("trajectory_step", <<loop.id, i>>, steps[i]) \in G
  <2> DEFINE key == <<loop.id, i>>
             id == <<"trajectory_step", key>>
  <2>1. i \in Nat /\ steps[i] \in Labels
    BY StackElement DEF Labels
  <2>2. key \in Nat \X Nat /\ key \in {loop.id} \X DOMAIN steps /\ key[2] = i
    BY <1>1, <2>1
  <2> HIDE DEF key
  <2>3. id \in GraphIds /\ id[1] = "trajectory_step" /\ id[2] = key
    BY <2>2 DEF GraphIds, VertexKinds
  <2> HIDE DEF id
  <2>4. [id |-> id, kind |-> "trajectory_step", label |-> steps[i]] \in G
    BY <2>1, <2>2, <2>3 DEF VerticesOf, Known, GraphVertices, VertexKinds
  <2> QED
    BY <2>4 DEF Vertex, id, key
<1>8. /\ StepVertices(loop, steps) \in Seq(G)
      /\ DOMAIN StepVertices(loop, steps) = DOMAIN steps
  <2> HIDE DEF G
  <2> DEFINE D == Len(steps)
             F == [i \in 1 .. D |-> Vertex("trajectory_step", <<loop.id, i>>, steps[i])]
  <2>1. D \in Nat /\ DOMAIN steps = 1 .. D
    OBVIOUS
  <2>2. StepVertices(loop, steps) = F
    BY <2>1 DEF StepVertices
  <2>3. F \in [1 .. D -> G]
    BY <1>7, <2>1
  <2> HIDE DEF F, D
  <2>4. F \in Seq(G) /\ DOMAIN F = 1 .. D
    BY <2>1, <2>3
  <2> QED
    BY <2>1, <2>2, <2>4
<1> QED
  BY <1>2, <1>4, <1>6, <1>8

LEMMA EdgeAmong ==
  ASSUME NEW n, NEW steps, NEW vs \in Seq(VerticesOf(n, steps)),
         NEW kind \in EdgeKinds, NEW v \in Range(vs), NEW w \in Range(vs)
  PROVE  Edge(kind, v, w) \in EdgesAmong(vs)
<1>1. v \in GraphVertices /\ w \in GraphVertices
  BY RangeOfSeq DEF VerticesOf
<1>2. v.id \in GraphIds /\ w.id \in GraphIds
  BY <1>1 DEF GraphVertices
<1> QED
  BY <1>2 DEF Edge, EdgesAmong, GraphEdges

(* The vertices of a projection are known by their ids, and its edges join *)
(* them.                                                                   *)
LEMMA ProjectionTyped ==
  ASSUME NEW loop \in LoopRecords, NEW steps \in Seq(StepKinds)
  PROVE  LET p == Project(loop, steps)
         IN  /\ p = [vertices |-> p.vertices, edges |-> p.edges]
             /\ p.vertices \in Seq(VerticesOf(loop.id, steps)) /\ p.vertices # << >>
             /\ p.edges \in Seq(EdgesAmong(p.vertices))
             /\ Range(p.vertices) = {LoopVertex(loop), IntentVertex(loop)}
                                     \cup Range(SkillVertices(loop)) \cup Range(OutcomeVertices(loop))
                                     \cup Range(StepVertices(loop, steps))
             /\ \A i \in DOMAIN steps :
                  Edge("uses", LoopVertex(loop), StepVertices(loop, steps)[i]) \in Range(p.edges)
<1> DEFINE p == Project(loop, steps)
<1>1. PICK G, lv, iv, sv, ov, tv :
        /\ G = VerticesOf(loop.id, steps)
        /\ lv = LoopVertex(loop) /\ iv = IntentVertex(loop) /\ sv = SkillVertices(loop)
        /\ ov = OutcomeVertices(loop) /\ tv = StepVertices(loop, steps)
  OBVIOUS
<1>2. /\ lv \in G /\ iv \in G /\ sv \in Seq(G) /\ ov \in Seq(G) /\ tv \in Seq(G)
      /\ DOMAIN sv = DOMAIN loop.skills /\ DOMAIN ov = DOMAIN Outcomes(loop)
      /\ DOMAIN tv = DOMAIN steps
  BY <1>1, VerticesTyped
<1> DEFINE a == <<lv, iv>>
           b == a \o sv
           c == b \o ov
           vs == c \o tv
<1>3. a \in Seq(G) /\ Range(a) = {lv, iv}
  BY <1>2 DEF Range
<1> HIDE DEF a
<1>4. b \in Seq(G) /\ Range(b) = Range(a) \cup Range(sv)
  BY <1>2, <1>3, ConcatProperties, RangeConcatenation
<1> HIDE DEF b
<1>5. c \in Seq(G) /\ Range(c) = Range(b) \cup Range(ov)
  BY <1>2, <1>4, ConcatProperties, RangeConcatenation
<1> HIDE DEF c
<1>6. vs \in Seq(G) /\ Range(vs) = Range(c) \cup Range(tv)
  BY <1>2, <1>5, ConcatProperties, RangeConcatenation
<1>7. p.vertices = vs
  BY <1>1 DEF Project, a, b, c
<1>0. vs # << >>
  <2>1. lv \in Range(vs)
    BY <1>3, <1>4, <1>5, <1>6
  <2> HIDE DEF vs
  <2>2. DOMAIN vs # {}
    BY <2>1 DEF Range
  <2> QED
    BY <2>2
<1> HIDE DEF vs
<1>8. /\ lv \in Range(vs) /\ iv \in Range(vs)
      /\ \A i \in DOMAIN sv : sv[i] \in Range(vs)
      /\ \A i \in DOMAIN ov : ov[i] \in Range(vs)
      /\ \A i \in DOMAIN tv : tv[i] \in Range(vs)
  BY <1>3, <1>4, <1>5, <1>6 DEF Range
<1> DEFINE E == EdgesAmong(vs)
<1>9. ASSUME NEW kind \in EdgeKinds, NEW v \in Range(vs), NEW w \in Range(vs)
      PROVE  Edge(kind, v, w) \in E
  BY <1>1, <1>6, EdgeAmong
<1> HIDE DEF E
<1>10. <<Edge("created", iv, lv)>> \in Seq(E)
  <2>1. Edge("created", iv, lv) \in E
    BY <1>8, <1>9 DEF EdgeKinds
  <2> QED
    BY <2>1
<1>11. [i \in DOMAIN loop.skills |-> Edge("uses", lv, sv[i])] \in Seq(E)
  <2> DEFINE D == Len(sv)
             F == [i \in 1 .. D |-> Edge("uses", lv, sv[i])]
  <2>1. D \in Nat /\ DOMAIN sv = 1 .. D
    BY <1>2
  <2>2. \A i \in 1 .. D : Edge("uses", lv, sv[i]) \in E
    BY <1>8, <1>9, <2>1 DEF EdgeKinds
  <2>3. F \in [1 .. D -> E]
    BY <2>2
  <2> HIDE DEF D
  <2> QED
    BY <1>2, <2>1, <2>3
<1>12. OutcomeEdges(loop) \in Seq(E)
  <2> DEFINE D == Len(ov)
             Kind(i) == IF Outcomes(loop)[i].kind = "verified" THEN "verified_by"
                        ELSE "learns_from"
             F == [i \in 1 .. D |-> Edge(Kind(i), lv, ov[i])]
  <2>1. D \in Nat /\ DOMAIN ov = 1 .. D
    BY <1>2
  <2>2. OutcomeEdges(loop) = F
    BY <1>1, <1>2, <2>1 DEF OutcomeEdges
  <2>3. ASSUME NEW i \in 1 .. D PROVE Edge(Kind(i), lv, ov[i]) \in E
    <3>1. Kind(i) \in EdgeKinds
      BY DEF EdgeKinds
    <3> QED
      BY <1>8, <1>9, <2>1, <3>1
  <2>4. F \in [1 .. D -> E]
    BY <2>3
  <2> HIDE DEF F, D
  <2> QED
    BY <2>1, <2>2, <2>4
<1>13. /\ StepEdges(loop, steps) \in Seq(E)
       /\ \A i \in DOMAIN steps : Edge("uses", lv, tv[i]) \in Range(StepEdges(loop, steps))
  <2>1. PICK m : m = Len(steps)
    OBVIOUS
  <2>2. m \in Nat /\ DOMAIN steps = 1 .. m
    BY <2>1
  <2> DEFINE At(k) == IF k = 1 \/ k % 2 = 0 THEN Edge("uses", lv, tv[k \div 2 + 1])
                      ELSE Edge("next", tv[k \div 2 + 1 - 1], tv[k \div 2 + 1])
             F == [k \in 1 .. (2 * m - 1) |-> At(k)]
  <2>3. StepEdges(loop, steps) = F
    BY <1>1, <2>1 DEF StepEdges
  <2>4. ASSUME NEW k \in 1 .. (2 * m - 1) PROVE At(k) \in E
    <3>1. k \div 2 + 1 \in 1 .. m
      BY <2>2
    <3>2. k # 1 => k \div 2 + 1 - 1 \in 1 .. m
      BY <2>2
    <3>3. tv[k \div 2 + 1] \in Range(vs) /\ (k # 1 => tv[k \div 2 + 1 - 1] \in Range(vs))
      BY <1>2, <1>8, <2>2, <3>1, <3>2
    <3>4. Edge("uses", lv, tv[k \div 2 + 1]) \in E
      BY <1>8, <1>9, <3>3 DEF EdgeKinds
    <3>5. k # 1 => Edge("next", tv[k \div 2 + 1 - 1], tv[k \div 2 + 1]) \in E
      BY <1>9, <3>3 DEF EdgeKinds
    <3> QED
      BY <3>4, <3>5
  <2>5. F \in [1 .. (2 * m - 1) -> E]
    BY <2>4
  <2>6. ASSUME NEW i \in DOMAIN steps PROVE Edge("uses", lv, tv[i]) \in Range(F)
    <3>1. i \in 1 .. m /\ m \in Nat
      BY <2>2, <2>6
    <3>2. PICK k \in 1 .. (2 * m - 1) : k \div 2 + 1 = i /\ (k = 1 \/ k % 2 = 0)
      <4>1. CASE i = 1
        <5>1. 1 \in 1 .. (2 * m - 1) /\ 1 \div 2 + 1 = i
          BY <3>1, <4>1
        <5> QED
          BY <5>1
      <4>2. CASE i # 1
        <5>1. PICK j \in 1 .. (m - 1) : i = j + 1
          BY <3>1, <4>2
        <5>2. 2 * j \in 1 .. (2 * m - 1) /\ (2 * j) \div 2 + 1 = i /\ (2 * j) % 2 = 0
          BY <3>1, <5>1
        <5> QED
          BY <5>2
      <4> QED
        BY <4>1, <4>2
    <3>3. F[k] = Edge("uses", lv, tv[i]) /\ k \in DOMAIN F
      BY <3>2
    <3> QED
      BY <3>3 DEF Range
  <2> HIDE DEF F
  <2>7. CASE m = 0
    <3>1. F = << >>
      BY <2>5, <2>7
    <3> QED
      BY <2>3, <2>6, <3>1
  <2>8. CASE m > 0
    <3>1. 2 * m - 1 \in Nat
      BY <2>2, <2>8
    <3> QED
      BY <2>3, <2>5, <2>6, <3>1
  <2> QED
    BY <2>2, <2>7, <2>8
<1> DEFINE d == <<Edge("created", iv, lv)>>
           e == [i \in DOMAIN loop.skills |-> Edge("uses", lv, sv[i])]
           f == d \o e
           g == f \o OutcomeEdges(loop)
           h == g \o StepEdges(loop, steps)
<1>14. p = [vertices |-> p.vertices, edges |-> h]
  BY <1>1 DEF Project
<1> HIDE DEF d, e, p
<1>15. f \in Seq(E)
  BY <1>10, <1>11, ConcatProperties DEF d, e
<1> HIDE DEF f
<1>16. g \in Seq(E)
  BY <1>12, <1>15, ConcatProperties
<1> HIDE DEF g
<1>17. h \in Seq(E) /\ Range(h) = Range(g) \cup Range(StepEdges(loop, steps))
  BY <1>13, <1>16, ConcatProperties, RangeConcatenation
<1> HIDE DEF h
<1>18. p = [vertices |-> p.vertices, edges |-> p.edges] /\ p.edges = h
  BY <1>14
<1>19. Range(vs) = {lv, iv} \cup Range(sv) \cup Range(ov) \cup Range(tv)
  BY <1>3, <1>4, <1>5, <1>6
<1>20. \A i \in DOMAIN steps : Edge("uses", lv, tv[i]) \in Range(p.edges)
  BY <1>13, <1>17, <1>18
<1>21. p = [vertices |-> p.vertices, edges |-> p.edges]
       /\ p.vertices \in Seq(VerticesOf(loop.id, steps)) /\ p.vertices # << >>
       /\ p.edges \in Seq(EdgesAmong(p.vertices))
  BY <1>0, <1>1, <1>6, <1>7, <1>17, <1>18 DEF E, p
<1> QED
  BY <1>1, <1>7, <1>19, <1>20, <1>21 DEF p

-----------------------------------------------------------------------------
(* What the steps do to the list of runs.                                  *)

Hows == {"error", "rejected", "scored", "passed"}

LEMMA TrajectoryTyped ==
  ASSUME NEW how \in Hows
  PROVE  Trajectory(how) \in Seq(StepKinds) /\ Trajectory(how) # << >>
<1> DEFINE a == <<"prompt_build", "llm_respond">>
           b == <<"code_extract", "candidate_write", "autofix", "executor_gate">>
           c == CASE how = "rejected" -> <<"failure">>
                  [] how = "scored"   -> <<"verify", "failure">>
                  [] how = "passed"   -> <<"verify", "finish">>
           d == IF how = "error" THEN <<"failure">> ELSE b \o c
<1>1. a \in Seq(StepKinds) /\ b \in Seq(StepKinds) /\ <<"failure">> \in Seq(StepKinds)
      /\ Len(a) = 2
  BY DEF StepKinds
<1>2. ASSUME how # "error" PROVE c \in Seq(StepKinds)
  <2>1. <<"verify", "failure">> \in Seq(StepKinds) /\ <<"verify", "finish">> \in Seq(StepKinds)
    BY DEF StepKinds
  <2>2. how = "rejected" \/ how = "scored" \/ how = "passed"
    BY <1>2 DEF Hows
  <2> QED
    BY <1>1, <2>1, <2>2
<1>3. Trajectory(how) = a \o d
  BY DEF Trajectory
<1> HIDE DEF a, b, c
<1>4. d \in Seq(StepKinds)
  BY <1>1, <1>2, ConcatProperties
<1> HIDE DEF d
<1>5. a \o d \in Seq(StepKinds) /\ Len(a \o d) = Len(a) + Len(d)
  BY <1>1, <1>4, ConcatProperties
<1>6. Len(a \o d) # 0
  BY <1>1, <1>4, <1>5, LenProperties
<1> QED
  BY <1>3, <1>5, <1>6

(* What a run brings with it when it is produced as the n-th.              *)
Fresh(r, n) ==
  /\ r.phase = "store" /\ ~r.cut
  /\ r.steps = << >> => r.state = "done"
  /\ r.error => r.state = "failed"
  /\ r.graph.vertices \in Seq(VerticesOf(n, r.steps)) /\ r.graph.vertices # << >>
  /\ r.graph.edges \in Seq(EdgesAmong(r.graph.vertices))

LEMMA FreshRun ==
  ASSUME NEW m \in Models, NEW file \in LogFiles, NEW n \in Nat,
         NEW loop \in LoopRecords, loop.id = n,
         NEW steps \in Seq(StepKinds), NEW error \in BOOLEAN,
         loop.state \in {"done", "failed"},
         steps = << >> => loop.state = "done", error => loop.state = "failed"
  PROVE  LET r == [model |-> m, file |-> file, state |-> loop.state, steps |-> steps,
                   error |-> error, graph |-> Project(loop, steps), phase |-> "store",
                   cut |-> FALSE]
         IN  r \in RunRecords /\ Fresh(r, n)
<1>1. PICK p, vs, es :
        /\ p = Project(loop, steps) /\ p = [vertices |-> vs, edges |-> es]
        /\ vs \in Seq(VerticesOf(n, steps)) /\ vs # << >> /\ es \in Seq(EdgesAmong(vs))
  BY ProjectionTyped
<1>2. vs \in Seq(GraphVertices) /\ es \in Seq(GraphEdges)
  BY <1>1 DEF VerticesOf, EdgesAmong
<1>3. p \in [vertices : Seq(GraphVertices), edges : Seq(GraphEdges)]
      /\ p.vertices = vs /\ p.edges = es
  BY <1>1, <1>2
<1>4. Project(loop, steps) = p
  BY <1>1
<1> QED
  BY <1>1, <1>3, <1>4 DEF Fresh, RunRecords, Phases

(* A session gets a loop, or it starts or ends without one.                *)
GetsLoop == \E s \in sessions : RunProgramBench(s) \/ \E how \in Hows : RunSingleModel(s, how)
NoLoop == (\E m \in Models, file \in LogFiles : SessionStarts(m, file))
            \/ \E s \in sessions : SessionEnds(s)

LEMMA SessionCases == Session => GetsLoop \/ NoLoop
  BY DEF Session, GetsLoop, NoLoop, Hows

LEMMA SessionKnown ==
  ASSUME SessionsInv, NEW s \in sessions
  PROVE  s \in Starts /\ runLog[s].of \in Models /\ runLog[s].file \in LogFiles
<1>1. s \in DOMAIN runLog /\ runLog[s].kind = "session_start" /\ s \in Starts
  BY DEF SessionsInv, Starts
<1>2. runLog[s] \in Lines
  BY <1>1, StackElement DEF SessionsInv
<1> QED
  BY <1>1, <1>2 DEF Lines

LEMMA SessionRun ==
  ASSUME RunsInv, SessionsInv, GetsLoop
  PROVE  /\ \E r \in RunRecords : runs' = Append(runs, r) /\ Fresh(r, Latest + 1)
         /\ Idle /\ cursor' = 1
         /\ UNCHANGED <<pending, graph, eventStore, ledger, torn, saved, damaged>>
<1>1. Latest \in Nat
  BY LenProperties DEF RunsInv, Latest
<1>2. PICK n : n = Latest + 1 /\ n \in Nat
  BY <1>1
<1>0. PICK id \in sessions : RunProgramBench(id) \/ \E how \in Hows : RunSingleModel(id, how)
  BY DEF GetsLoop
<1>5. PICK m \in Models, file \in LogFiles : runLog[id].of = m /\ runLog[id].file = file
  BY SessionKnown
<1>3. CASE RunProgramBench(id)
  <2>1. PICK loop : loop = FoldLeft(Advance, Start(Latest + 1, <<"program-bench">>),
                                    Passing("program-bench-parity"))
    OBVIOUS
  <2>2. loop \in LoopRecords /\ loop.id = n /\ loop.state = "done"
    <3>1. <<"program-bench">> \in Seq(Skills) /\ "program-bench-parity" \in Names
      BY DEF Skills, Names
    <3>2. PICK skills \in Seq(Skills), verifier \in Names :
            skills = <<"program-bench">> /\ verifier = "program-bench-parity"
      BY <3>1
    <3>3. loop = Played(Start(n, skills), Passing(verifier))
      BY <1>2, <2>1, <3>2 DEF Played
    <3> QED
      BY <1>2, <3>3, FinalLoop
  <2> DEFINE r == [model |-> m, file |-> file, state |-> loop.state, steps |-> << >>, error |-> FALSE,
                   graph |-> Project(loop, << >>), phase |-> "store", cut |-> FALSE]
  <2>3. << >> \in Seq(StepKinds)
    OBVIOUS
  <2>4. r \in RunRecords /\ Fresh(r, n)
    BY <1>2, <2>2, <2>3, FreshRun
  <2>5. runs' = Append(runs, r)
    BY <1>3, <1>5, <2>1 DEF RunProgramBench, Produces
  <2> HIDE DEF r
  <2> QED
    BY <1>2, <1>3, <2>4, <2>5 DEF RunProgramBench, Produces, ratchet, ghosts
<1>4. CASE \E how \in Hows : RunSingleModel(id, how)
  <2>1. PICK how \in Hows : RunSingleModel(id, how)
    BY <1>4
  <2>2. PICK loop : loop = FoldLeft(Advance, Start(Latest + 1, <<"sandbox-cache-task">>),
                              IF how = "passed" THEN Passing("sandbox-verifier") ELSE Failing)
    OBVIOUS
  <2>3. /\ loop \in LoopRecords /\ loop.id = n
        /\ loop.state = (IF how = "passed" THEN "done" ELSE "failed")
    <3>1. <<"sandbox-cache-task">> \in Seq(Skills) /\ "sandbox-verifier" \in Names
      BY DEF Skills, Names
    <3>2. PICK skills \in Seq(Skills), verifier \in Names :
            skills = <<"sandbox-cache-task">> /\ verifier = "sandbox-verifier"
      BY <3>1
    <3>3. loop = Played(Start(n, skills), IF how = "passed" THEN Passing(verifier) ELSE Failing)
      BY <1>2, <2>2, <3>2 DEF Played
    <3>4. loop = IF how = "passed" THEN Played(Start(n, skills), Passing(verifier))
                 ELSE Played(Start(n, skills), Failing)
      BY <3>3
    <3> QED
      BY <1>2, <3>4, FinalLoop
  <2>0. PICK steps : steps = Trajectory(how)
    OBVIOUS
  <2> DEFINE error == how \in {"error", "rejected"}
  <2>4. error \in BOOLEAN
    OBVIOUS
  <2>5. /\ steps \in Seq(StepKinds) /\ steps # << >>
        /\ error => loop.state = "failed"
    BY <2>0, <2>3, TrajectoryTyped
  <2> DEFINE r == [model |-> m, file |-> file, state |-> loop.state, steps |-> steps, error |-> error,
                   graph |-> Project(loop, steps), phase |-> "store", cut |-> FALSE]
  <2>6. r \in RunRecords /\ Fresh(r, n)
    <3> HIDE DEF error
    <3> QED
      BY <1>2, <2>3, <2>4, <2>5, FreshRun
  <2>7. runs' = Append(runs, r)
    BY <1>5, <2>0, <2>1, <2>2 DEF RunSingleModel, Produces
  <2> HIDE DEF r
  <2> QED
    BY <1>2, <2>1, <2>6, <2>7 DEF RunSingleModel, Produces, ratchet, ghosts
<1> QED
  BY <1>0, <1>3, <1>4

(* A run goes on to a phase; the other runs stay.                          *)
Unmoved(n) ==
  /\ runs'[n].state = runs[n].state /\ runs'[n].steps = runs[n].steps
  /\ runs'[n].error = runs[n].error /\ runs'[n].graph = runs[n].graph
  /\ runs'[n].model = runs[n].model /\ runs'[n].file = runs[n].file

CutOff == runs' = [runs EXCEPT ![Latest].cut = TRUE]

LEMMA RunFields ==
  ASSUME runs \in Seq(RunRecords), NEW n \in DOMAIN runs
  PROVE  /\ runs[n] \in RunRecords
         /\ Latest \in Nat /\ DOMAIN runs = 1 .. Latest
         /\ runs[n].steps \in Seq(StepKinds)
         /\ runs[n].state \in {"done", "failed"} /\ runs[n].phase \in Phases \cup {"over"}
         /\ runs[n].cut \in BOOLEAN /\ runs[n].error \in BOOLEAN
         /\ runs[n].graph.vertices \in Seq(GraphVertices)
         /\ runs[n].graph.edges \in Seq(GraphEdges)
<1>1. runs[n] \in RunRecords
  BY StackElement
<1>2. Latest \in Nat /\ DOMAIN runs = 1 .. Latest
  BY LenProperties DEF Latest
<1> QED
  BY <1>1, <1>2 DEF RunRecords

LEMMA RunningFacts ==
  ASSUME runs \in Seq(RunRecords), NEW p, Running(p)
  PROVE  Latest \in DOMAIN runs /\ Latest \in Nat /\ ~runs[Latest].cut /\ runs[Latest].phase = p
<1>1. Latest \in Nat /\ DOMAIN runs = 1 .. Latest
  BY LenProperties DEF Latest
<1> QED
  BY <1>1 DEF Running

LEMMA OneRunChanges ==
  ASSUME NEW old \in Seq(RunRecords), NEW n \in DOMAIN old, NEW r \in RunRecords,
         NEW new, new = [old EXCEPT ![n] = r]
  PROVE  /\ new \in Seq(RunRecords) /\ DOMAIN new = DOMAIN old /\ Len(new) = Len(old)
         /\ \A k \in DOMAIN old : new[k] = IF k = n THEN r ELSE old[k]
<1>1. n \in 1 .. Len(old) /\ DOMAIN old = 1 .. Len(old)
  BY LenProperties
<1>2. DOMAIN new = DOMAIN old
  OBVIOUS
<1> QED
  BY <1>1, <1>2, ExceptSeq

LEMMA MoveOn ==
  ASSUME runs \in Seq(RunRecords), Latest \in DOMAIN runs, NEW p \in Phases \cup {"over"}, Goto(p)
  PROVE  /\ runs' \in Seq(RunRecords) /\ DOMAIN runs' = DOMAIN runs /\ Latest' = Latest
         /\ \A n \in DOMAIN runs :
              /\ Unmoved(n) /\ runs'[n].cut = runs[n].cut
              /\ runs'[n].phase = IF n = Latest THEN p ELSE runs[n].phase
<1>1. PICK n : n = Latest /\ n \in DOMAIN runs
  OBVIOUS
<1>2. PICK r \in RunRecords : r = runs[n]
  BY <1>1, RunFields
<1> DEFINE s == [r EXCEPT !.phase = p]
<1>3. s \in RunRecords /\ s.phase = p /\ s.cut = r.cut /\ s.state = r.state
      /\ s.steps = r.steps /\ s.error = r.error /\ s.graph = r.graph
      /\ s.model = r.model /\ s.file = r.file
  BY DEF RunRecords
<1>4. runs' = [runs EXCEPT ![n] = s]
  BY <1>1, <1>2 DEF Goto
<1> HIDE DEF s
<1>5. /\ runs' \in Seq(RunRecords) /\ DOMAIN runs' = DOMAIN runs /\ Len(runs') = Len(runs)
      /\ \A k \in DOMAIN runs : runs'[k] = IF k = n THEN s ELSE runs[k]
  BY <1>1, <1>3, <1>4, OneRunChanges
<1>6. Latest' = Latest
  BY <1>5 DEF Latest
<1> QED
  BY <1>1, <1>2, <1>3, <1>5, <1>6 DEF Unmoved

LEMMA CutShort ==
  ASSUME runs \in Seq(RunRecords), Latest \in DOMAIN runs,
         CutOff
  PROVE  /\ runs' \in Seq(RunRecords) /\ DOMAIN runs' = DOMAIN runs /\ Latest' = Latest
         /\ \A n \in DOMAIN runs :
              /\ Unmoved(n) /\ runs'[n].phase = runs[n].phase
              /\ runs'[n].cut = IF n = Latest THEN TRUE ELSE runs[n].cut
<1>1. PICK n : n = Latest /\ n \in DOMAIN runs
  OBVIOUS
<1>2. PICK r \in RunRecords : r = runs[n]
  BY <1>1, RunFields
<1> DEFINE s == [r EXCEPT !.cut = TRUE]
<1>3. s \in RunRecords /\ s.cut = TRUE /\ s.phase = r.phase /\ s.state = r.state
      /\ s.steps = r.steps /\ s.error = r.error /\ s.graph = r.graph
      /\ s.model = r.model /\ s.file = r.file
  BY DEF RunRecords
<1>4. runs' = [runs EXCEPT ![n] = s]
  BY <1>1, <1>2 DEF CutOff
<1> HIDE DEF s
<1>5. /\ runs' \in Seq(RunRecords) /\ DOMAIN runs' = DOMAIN runs /\ Len(runs') = Len(runs)
      /\ \A k \in DOMAIN runs : runs'[k] = IF k = n THEN s ELSE runs[k]
  BY <1>1, <1>3, <1>4, OneRunChanges
<1>6. Latest' = Latest
  BY <1>5 DEF Latest
<1> QED
  BY <1>1, <1>2, <1>3, <1>5, <1>6 DEF Unmoved

LEMMA OneMore ==
  ASSUME runs \in Seq(RunRecords), NEW r \in RunRecords, runs' = Append(runs, r)
  PROVE  /\ runs' \in Seq(RunRecords)
         /\ Latest \in Nat /\ Latest' = Latest + 1
         /\ DOMAIN runs = 1 .. Latest /\ DOMAIN runs' = DOMAIN runs \cup {Latest + 1}
         /\ \A n \in DOMAIN runs : runs'[n] = runs[n]
         /\ runs'[Latest + 1] = r
<1>1. /\ runs' \in Seq(RunRecords) /\ Len(runs') = Len(runs) + 1
      /\ \A n \in 1 .. Len(runs) : runs'[n] = runs[n]
      /\ runs'[Len(runs) + 1] = r
  BY AppendProperties
<1>2. Len(runs) \in Nat /\ DOMAIN runs = 1 .. Len(runs) /\ DOMAIN runs' = 1 .. (Len(runs) + 1)
  BY <1>1, LenProperties
<1>3. DOMAIN runs' = DOMAIN runs \cup {Len(runs) + 1}
  BY <1>2
<1> QED
  BY <1>1, <1>2, <1>3 DEF Latest

-----------------------------------------------------------------------------
(* The list of runs stays as it should.                                    *)

(* Any step takes the list of runs one of four ways.                       *)
RunsStep ==
  \/ /\ UNCHANGED runs
  \/ /\ Idle /\ cursor' = 1
     /\ \E r \in RunRecords : runs' = Append(runs, r) /\ Fresh(r, Latest + 1)
  \/ /\ Latest \in DOMAIN runs /\ ~Idle
     /\ CutOff
  \/ \E p \in Phases \cup {"over"} :
       /\ Latest \in DOMAIN runs /\ ~Idle /\ Goto(p)
       /\ IsBench(Latest) => Running("store") /\ p = "over"
       /\ p # "store"
       /\ p \in {"ratchet", "saving"} => ~Done(Latest)

LEMMA NotIdle ==
  ASSUME runs \in Seq(RunRecords), NEW p \in Phases, Running(p)
  PROVE  Latest \in DOMAIN runs /\ ~Idle
  BY RunningFacts DEF Idle

LEMMA StepRuns ==
  ASSUME RunsInv, SessionsInv, [ProvenanceNext]_provenanceVars
  PROVE  RunsStep /\ cursor' \in Nat \ {0}
<1>1. CASE UNCHANGED provenanceVars
  BY <1>1 DEF provenanceVars, memory, RunsInv, RunsStep
<1>2. CASE GetsLoop
  BY <1>2, SessionRun DEF RunsStep
<1>3. CASE NoLoop
  BY <1>3 DEF NoLoop, SessionStarts, SessionEnds, memory, RunsInv, RunsStep
<1>4. CASE StoreStep
  <2>1. Latest \in DOMAIN runs /\ ~Idle /\ Running("store")
    BY <1>4, NotIdle DEF StoreStep, RunsInv, Phases
  <2>2. CASE cursor' = cursor + 1 /\ UNCHANGED runs
    BY <2>2 DEF RunsInv, RunsStep
  <2>3. CASE cursor' = 1 /\ Goto(IF IsBench(Latest) THEN "over" ELSE "log")
    <3>1. PICK p \in Phases \cup {"over"} : p = IF IsBench(Latest) THEN "over" ELSE "log"
      BY DEF Phases
    <3>2. Goto(p)
      BY <2>3, <3>1
    <3>3. p \notin {"store", "ratchet", "saving"} /\ (IsBench(Latest) => p = "over")
      BY <3>1
    <3> QED
      BY <2>1, <2>3, <3>2, <3>3 DEF RunsStep
  <2> QED
    BY <1>4, <2>2, <2>3 DEF StoreStep
<1>5. ASSUME NEW p \in Phases \ {"store"}, Running(p)
      PROVE  Latest \in DOMAIN runs /\ ~Idle /\ ~IsBench(Latest)
             /\ (p \in {"ratchet", "saving"} => ~Done(Latest))
  <2>1. Latest \in DOMAIN runs /\ ~Idle /\ runs[Latest].phase = p
    BY <1>5, NotIdle, RunningFacts DEF RunsInv
  <2> QED
    BY <1>5, <2>1 DEF RunsInv, RunFacts, Phases
<1>6. CASE LogComplete
  <2>1. Running("log") /\ \E next \in {"events", "query"} : Goto(next)
    BY <1>6 DEF LogComplete
  <2>2. PICK p \in {"events", "query"} : Goto(p)
    BY <2>1
  <2>3. p \in Phases /\ p \notin {"store", "ratchet", "saving"}
    BY DEF Phases
  <2>4. Latest \in DOMAIN runs /\ ~Idle /\ ~IsBench(Latest)
    BY <1>5, <2>1 DEF Phases
  <2> QED
    BY <1>6, <2>2, <2>3, <2>4 DEF LogComplete, memory, RunsInv, RunsStep
<1>7. CASE EmitStep
  <2>1. Running("events")
    BY <1>7 DEF EmitStep
  <2>2. Latest \in DOMAIN runs /\ ~Idle /\ ~IsBench(Latest)
    BY <1>5, <2>1 DEF Phases
  <2>3. CASE cursor' = cursor + 1 /\ UNCHANGED runs
    BY <2>3 DEF RunsInv, RunsStep
  <2>4. CASE cursor' = 1 /\ Goto("query")
    <3>1. PICK p \in Phases : p = "query"
      BY DEF Phases
    <3> QED
      BY <2>2, <2>4, <3>1 DEF RunsStep
  <2> QED
    BY <1>7, <2>3, <2>4 DEF EmitStep
<1>8. CASE Query
  <2>1. Running("query")
    BY <1>8 DEF Query
  <2>2. Latest \in DOMAIN runs /\ ~Idle /\ ~IsBench(Latest)
    BY <1>5, <2>1 DEF Phases
  <2>3. PICK p \in Phases \cup {"over"} : p = IF NeedsEntry(Latest) THEN "ratchet" ELSE "over"
    BY DEF Phases
  <2>4. Goto(p)
    BY <1>8, <2>3 DEF Query
  <2>5. p # "store" /\ (p \in {"ratchet", "saving"} => ~Done(Latest))
    BY <2>2, <2>3 DEF NeedsEntry, Done, RunsInv, RunFacts
  <2> QED
    BY <1>8, <2>2, <2>4, <2>5 DEF Query, memory, RunsInv, RunsStep
<1>9. CASE \E id \in 1 .. MaxSessions : OpenLedger(id)
  <2>1. Running("ratchet") /\ Goto("saving") /\ UNCHANGED cursor
    BY <1>9 DEF OpenLedger
  <2>2. Latest \in DOMAIN runs /\ ~Idle /\ ~IsBench(Latest) /\ ~Done(Latest)
    BY <1>5, <2>1 DEF Phases
  <2>3. PICK p \in Phases : p = "saving"
    BY DEF Phases
  <2> QED
    BY <2>1, <2>2, <2>3 DEF RunsInv, RunsStep
<1>10. CASE LoadRaises
  <2>1. Running("ratchet") /\ CutOff /\ UNCHANGED cursor
    BY <1>10 DEF LoadRaises, memory, CutOff
  <2>2. Latest \in DOMAIN runs /\ ~Idle
    BY <1>5, <2>1 DEF Phases
  <2> QED
    BY <2>1, <2>2 DEF RunsInv, RunsStep
<1>11. CASE WriteLedger
  <2>1. Running("saving") /\ Goto("over") /\ UNCHANGED cursor
    BY <1>11 DEF WriteLedger
  <2>2. Latest \in DOMAIN runs /\ ~Idle /\ ~IsBench(Latest)
    BY <1>5, <2>1 DEF Phases
  <2> QED
    BY <2>1, <2>2 DEF RunsInv, RunsStep
<1>12. CASE EndsEarly
  <2>1. ~Idle /\ CutOff /\ UNCHANGED cursor
    BY <1>12 DEF EndsEarly, CutOff
  <2>2. PICK p \in Phases : Running(p)
    BY <2>1 DEF Idle
  <2>3. Latest \in DOMAIN runs
    BY <2>2, NotIdle DEF RunsInv
  <2> QED
    BY <2>1, <2>3 DEF RunsInv, RunsStep
<1> QED
  BY <1>1, <1>2, <1>3, <1>4, <1>6, <1>7, <1>8, <1>9, <1>10, <1>11, <1>12, SessionCases
     DEF ProvenanceNext

(* What a run is stays, and what is stored stays stored.                   *)
LEMMA RunsKeep ==
  ASSUME RunsInv, RunsStep
  PROVE  \A n \in DOMAIN runs : /\ n \in DOMAIN runs' /\ Unmoved(n)
                                /\ n # Latest => runs'[n] = runs[n]
                                /\ Stored(n) => runs'[n].phase # "store"
                                /\ Done(n)' = Done(n)
<1>1. runs \in Seq(RunRecords)
  BY DEF RunsInv
<1>2. CASE UNCHANGED runs
  BY <1>2 DEF Unmoved, Stored, Done
<1>3. CASE \E r \in RunRecords : runs' = Append(runs, r)
  BY <1>1, <1>3, OneMore DEF Unmoved, Stored, Done
<1>4. CASE Latest \in DOMAIN runs /\ CutOff
  <2>1. \A n \in DOMAIN runs : n # Latest => runs'[n] = runs[n]
    BY <1>1, <1>4 DEF CutOff
  <2>2. DOMAIN runs' = DOMAIN runs
        /\ \A n \in DOMAIN runs : Unmoved(n) /\ runs'[n].phase = runs[n].phase
    BY <1>1, <1>4, CutShort
  <2> QED
    BY <2>1, <2>2 DEF Unmoved, Stored, Done
<1>5. CASE \E p \in Phases \cup {"over"} : Latest \in DOMAIN runs /\ Goto(p) /\ p # "store"
  <2>1. PICK p \in Phases \cup {"over"} : Latest \in DOMAIN runs /\ Goto(p) /\ p # "store"
    BY <1>5
  <2>2. \A n \in DOMAIN runs : n # Latest => runs'[n] = runs[n]
    BY <1>1, <2>1 DEF Goto
  <2>3. DOMAIN runs' = DOMAIN runs
        /\ \A n \in DOMAIN runs : /\ Unmoved(n)
                                  /\ runs'[n].phase = IF n = Latest THEN p ELSE runs[n].phase
    BY <1>1, <2>1, MoveOn
  <2> QED
    BY <2>1, <2>2, <2>3 DEF Unmoved, Stored, Done
<1> QED
  BY <1>2, <1>3, <1>4, <1>5 DEF RunsStep

LEMMA StepRunsInv ==
  ASSUME RunsInv, SessionsInv, [ProvenanceNext]_provenanceVars
  PROVE  RunsInv'
<1>1. RunsStep /\ cursor' \in Nat \ {0} /\ runs \in Seq(RunRecords) /\ RunFacts
  BY StepRuns DEF RunsInv
<1>2. Latest \in Nat /\ DOMAIN runs = 1 .. Latest
  BY <1>1, LenProperties DEF Latest
<1>3. CASE UNCHANGED runs
  <2>1. Latest' = Latest
    BY <1>3 DEF Latest
  <2> QED
    BY <1>1, <1>3, <2>1 DEF RunsInv, RunFacts, IsBench, Done
<1>4. CASE Idle /\ \E r \in RunRecords : runs' = Append(runs, r) /\ Fresh(r, Latest + 1)
  <2>1. PICK r \in RunRecords : runs' = Append(runs, r) /\ Fresh(r, Latest + 1)
    BY <1>4
  <2>2. /\ runs' \in Seq(RunRecords) /\ Latest' = Latest + 1
        /\ DOMAIN runs' = DOMAIN runs \cup {Latest + 1}
        /\ \A n \in DOMAIN runs : runs'[n] = runs[n]
        /\ runs'[Latest + 1] = r
    BY <1>1, <2>1, OneMore
  <2>3. ASSUME NEW n \in DOMAIN runs
        PROVE  runs[n].phase = "over" \/ runs[n].cut
    <3>1. CASE n < Latest
      BY <1>1, <3>1 DEF RunFacts
    <3>2. CASE n = Latest
      <4>1. runs[n].phase \in Phases \cup {"over"} /\ Latest > 0
        BY <1>1, <1>2, <3>2, RunFields
      <4>2. \A p \in Phases : ~Running(p)
        BY <1>4 DEF Idle
      <4> QED
        BY <3>2, <4>1, <4>2 DEF Running
    <3> QED
      BY <1>2, <3>1, <3>2
  <2>4. r.phase = "store" /\ (r.steps = << >> => r.state = "done")
        /\ (r.error => r.state = "failed")
    BY <2>1 DEF Fresh
  <2>5. RunFacts'
    <3> SUFFICES ASSUME NEW n \in DOMAIN runs'
                 PROVE  /\ n < Latest' => runs'[n].phase = "over" \/ runs'[n].cut
                        /\ runs'[n].steps = << >> =>
                             runs'[n].state = "done" /\ runs'[n].phase \in {"store", "over"}
                        /\ runs'[n].error => runs'[n].state # "done"
                        /\ runs'[n].phase \in {"ratchet", "saving"} => runs'[n].state # "done"
      BY DEF RunFacts, IsBench, Done
    <3>1. CASE n \in DOMAIN runs
      BY <1>1, <2>2, <2>3, <3>1 DEF RunFacts, IsBench, Done
    <3>2. CASE n = Latest + 1
      BY <1>2, <2>2, <2>4, <3>2
    <3> QED
      BY <2>2, <3>1, <3>2
  <2> QED
    BY <1>1, <2>2, <2>5 DEF RunsInv
<1>5. CASE Latest \in DOMAIN runs /\ ~Idle /\ CutOff
  <2>1. /\ runs' \in Seq(RunRecords) /\ DOMAIN runs' = DOMAIN runs /\ Latest' = Latest
        /\ \A n \in DOMAIN runs :
             /\ Unmoved(n) /\ runs'[n].phase = runs[n].phase
             /\ runs'[n].cut = IF n = Latest THEN TRUE ELSE runs[n].cut
    BY <1>1, <1>5, CutShort
  <2>2. ASSUME NEW n \in DOMAIN runs
        PROVE  /\ n < Latest => runs'[n].phase = "over" \/ runs'[n].cut
               /\ runs'[n].steps = << >> =>
                    runs'[n].state = "done" /\ runs'[n].phase \in {"store", "over"}
               /\ runs'[n].error => runs'[n].state # "done"
               /\ runs'[n].phase \in {"ratchet", "saving"} => runs'[n].state # "done"
    <3>1. /\ n < Latest => runs[n].phase = "over" \/ runs[n].cut
          /\ runs[n].steps = << >> =>
               runs[n].state = "done" /\ runs[n].phase \in {"store", "over"}
          /\ runs[n].error => runs[n].state # "done"
          /\ runs[n].phase \in {"ratchet", "saving"} => runs[n].state # "done"
      BY <1>1 DEF RunFacts, IsBench, Done
    <3>2. /\ runs'[n].steps = runs[n].steps /\ runs'[n].state = runs[n].state
          /\ runs'[n].error = runs[n].error /\ runs'[n].phase = runs[n].phase
          /\ n < Latest => runs'[n].cut = runs[n].cut
      <4>1. Unmoved(n) /\ runs'[n].phase = runs[n].phase
        BY <2>1
      <4>2. n < Latest => runs'[n].cut = runs[n].cut
        <5>1. n < Latest => n # Latest
          BY <1>2
        <5> QED
          BY <2>1, <5>1
      <4> QED
        BY <4>1, <4>2 DEF Unmoved
    <3> QED
      BY <3>1, <3>2
  <2>3. RunFacts'
    BY <2>1, <2>2 DEF RunFacts, IsBench, Done
  <2> QED
    BY <1>1, <2>1, <2>3 DEF RunsInv
<1>6. ASSUME NEW p \in Phases \cup {"over"},
             Latest \in DOMAIN runs, ~Idle, Goto(p),
             p # "store", IsBench(Latest) => Running("store") /\ p = "over",
             p \in {"ratchet", "saving"} => ~Done(Latest)
      PROVE  RunsInv'
  <2>1. /\ runs' \in Seq(RunRecords) /\ DOMAIN runs' = DOMAIN runs /\ Latest' = Latest
        /\ \A n \in DOMAIN runs :
             /\ Unmoved(n) /\ runs'[n].cut = runs[n].cut
             /\ runs'[n].phase = IF n = Latest THEN p ELSE runs[n].phase
    BY <1>1, <1>6, MoveOn
  <2>2. RunFacts'
    <3> SUFFICES ASSUME NEW n \in DOMAIN runs'
                 PROVE  /\ n < Latest' => runs'[n].phase = "over" \/ runs'[n].cut
                        /\ runs'[n].steps = << >> =>
                             runs'[n].state = "done" /\ runs'[n].phase \in {"store", "over"}
                        /\ runs'[n].error => runs'[n].state # "done"
                        /\ runs'[n].phase \in {"ratchet", "saving"} => runs'[n].state # "done"
      BY DEF RunFacts, IsBench, Done
    <3>1. n \in DOMAIN runs /\ Unmoved(n) /\ runs'[n].cut = runs[n].cut
      BY <2>1
    <3>2. CASE n = Latest
      BY <1>1, <1>2, <1>6, <2>1, <3>1, <3>2 DEF RunFacts, IsBench, Done, Unmoved
    <3>3. CASE n # Latest
      BY <1>1, <2>1, <3>1, <3>3 DEF RunFacts, IsBench, Done, Unmoved
    <3> QED
      BY <3>2, <3>3
  <2> QED
    BY <1>1, <2>1, <2>2 DEF RunsInv
<1> QED
  BY <1>1, <1>3, <1>4, <1>5, <1>6 DEF RunsStep

-----------------------------------------------------------------------------
(* The ledger.                                                             *)

LEMMA LedgerKept ==
  ASSUME RunsInv, RunsStep, LedgerInv,
         UNCHANGED <<ledger, torn, saved, damaged>>, pending' \subseteq pending,
         ~Running("saving"), ~Running("saving")',
         \A n \in DOMAIN runs' : runs'[n].phase = "over" =>
           runs'[n].state = "done" \/ (n \in DOMAIN runs /\ runs[n].phase = "over")
  PROVE  LedgerInv'
<1>1. \A n \in DOMAIN runs : /\ n \in DOMAIN runs' /\ runs'[n].state = runs[n].state
                             /\ Stored(n) => runs'[n].phase # "store"
  BY RunsKeep DEF Unmoved
<1>2. ASSUME NEW e \in ledger' \cup pending' \cup saved'
      PROVE  /\ e.run \in DOMAIN runs' /\ runs'[e.run].state # "done"
             /\ runs'[e.run].phase # "store"
  <2>1. e \in ledger \cup pending \cup saved
    OBVIOUS
  <2>2. e.run \in DOMAIN runs /\ ~Done(e.run) /\ Stored(e.run)
    BY <2>1 DEF LedgerInv
  <2> QED
    BY <1>1, <2>2 DEF Done, Stored
<1>3. ASSUME NEW n \in DOMAIN runs', runs'[n].phase = "over", runs'[n].state # "done"
      PROVE  \E e \in saved' : e.run = n
  BY <1>1, <1>3 DEF LedgerInv, Done
<1> QED
  BY <1>2, <1>3 DEF LedgerInv, Done, Stored

LEMMA StepLedgerInv ==
  ASSUME RunsInv, SessionsInv, LedgerInv, [ProvenanceNext]_provenanceVars
  PROVE  LedgerInv'
<1>1. RunsStep /\ RunsInv' /\ runs \in Seq(RunRecords) /\ runs' \in Seq(RunRecords)
  BY StepRuns, StepRunsInv DEF RunsInv
<1>2. \A n \in DOMAIN runs : /\ n \in DOMAIN runs' /\ runs'[n].state = runs[n].state
                             /\ runs'[n].steps = runs[n].steps
                             /\ n # Latest => runs'[n] = runs[n]
                             /\ Stored(n) => runs'[n].phase # "store"
  BY <1>1, RunsKeep DEF Unmoved
<1>3. CASE UNCHANGED provenanceVars
  BY <1>3 DEF provenanceVars, memory, ratchet, ghosts, LedgerInv, Done, Stored, Running, Latest
<1>4. CASE GetsLoop
  <2>1. /\ \E r \in RunRecords : runs' = Append(runs, r) /\ Fresh(r, Latest + 1)
        /\ Idle /\ UNCHANGED <<pending, ledger, torn, saved, damaged>>
    BY <1>4, SessionRun
  <2>2. PICK r \in RunRecords : runs' = Append(runs, r) /\ r.phase = "store"
    BY <2>1 DEF Fresh
  <2>3. /\ Latest' = Latest + 1 /\ runs'[Latest + 1] = r
        /\ DOMAIN runs' = DOMAIN runs \cup {Latest + 1}
        /\ \A n \in DOMAIN runs : runs'[n] = runs[n]
    BY <1>1, <2>2, OneMore
  <2>4. ~Running("saving") /\ ~Running("saving")'
    BY <2>1, <2>2, <2>3 DEF Idle, Phases, Running
  <2>5. \A n \in DOMAIN runs' : runs'[n].phase = "over" => n \in DOMAIN runs /\ runs[n].phase = "over"
    BY <2>2, <2>3
  <2> QED
    BY <1>1, <2>1, <2>4, <2>5, LedgerKept
<1>5. CASE NoLoop
  BY <1>5 DEF NoLoop, SessionStarts, SessionEnds, memory, ratchet, ghosts, LedgerInv, Done, Stored,
              Running, Latest
<1>6. ASSUME NEW p \in Phases \ {"saving"}, Running(p), NEW q \in Phases \cup {"over"},
             Goto(q), q # "saving", q = "over" => Done(Latest),
             UNCHANGED <<pending, ledger, torn, saved, damaged>>
      PROVE  LedgerInv'
  <2>1. Latest \in DOMAIN runs /\ runs[Latest].phase = p
    BY <1>1, <1>6, RunningFacts
  <2>2. /\ DOMAIN runs' = DOMAIN runs /\ Latest' = Latest
        /\ \A n \in DOMAIN runs : runs'[n].phase = IF n = Latest THEN q ELSE runs[n].phase
    BY <1>1, <1>6, <2>1, MoveOn
  <2>3. ~Running("saving") /\ ~Running("saving")'
    BY <1>6, <2>1, <2>2 DEF Running
  <2>4. \A n \in DOMAIN runs' : runs'[n].phase = "over" =>
          runs'[n].state = "done" \/ (n \in DOMAIN runs /\ runs[n].phase = "over")
    BY <1>2, <1>6, <2>2 DEF Done
  <2> QED
    BY <1>1, <1>6, <2>3, <2>4, LedgerKept
<1>7. ASSUME NEW p \in Phases \ {"saving"}, Running(p),
             UNCHANGED <<runs, pending, ledger, torn, saved, damaged>>
      PROVE  LedgerInv'
  BY <1>7 DEF LedgerInv, Done, Stored, Running, Latest
<1>8. CASE StoreStep
  <2>1. Running("store") /\ "store" \in Phases /\ UNCHANGED <<pending, ledger, torn, saved, damaged>>
    BY <1>8 DEF StoreStep, Phases, ratchet, ghosts
  <2>2. CASE UNCHANGED runs
    BY <1>7, <2>1, <2>2
  <2>3. CASE Goto(IF IsBench(Latest) THEN "over" ELSE "log")
    <3>1. PICK q \in Phases \cup {"over"} : q = IF IsBench(Latest) THEN "over" ELSE "log"
      BY DEF Phases
    <3>2. Goto(q) /\ q # "saving"
      BY <2>3, <3>1
    <3>3. q = "over" => Done(Latest)
      BY <1>1, <2>1, <3>1, RunningFacts DEF RunsInv, RunFacts
    <3> QED
      BY <1>6, <2>1, <3>2, <3>3
  <2> QED
    BY <1>8, <2>2, <2>3 DEF StoreStep
<1>9. CASE LogComplete
  <2>1. Running("log") /\ "log" \in Phases /\ UNCHANGED <<pending, ledger, torn, saved, damaged>>
    BY <1>9 DEF LogComplete, Phases, memory, ratchet, ghosts
  <2>2. PICK q \in {"events", "query"} : Goto(q)
    BY <1>9 DEF LogComplete
  <2>3. q \in Phases /\ q # "saving" /\ q # "over"
    BY DEF Phases
  <2> QED
    BY <1>6, <2>1, <2>2, <2>3
<1>10. CASE EmitStep
  <2>1. Running("events") /\ "events" \in Phases /\ UNCHANGED <<pending, ledger, torn, saved, damaged>>
    BY <1>10 DEF EmitStep, Phases, ratchet, ghosts
  <2>2. CASE UNCHANGED runs
    BY <1>7, <2>1, <2>2
  <2>3. CASE Goto("query")
    <3>1. PICK q \in Phases : q = "query"
      BY DEF Phases
    <3> QED
      BY <1>6, <2>1, <2>3, <3>1
  <2> QED
    BY <1>10, <2>2, <2>3 DEF EmitStep
<1>11. CASE Query
  <2>1. Running("query") /\ "query" \in Phases /\ UNCHANGED <<pending, ledger, torn, saved, damaged>>
    BY <1>11 DEF Query, Phases, memory, ratchet, ghosts
  <2>2. PICK q \in Phases \cup {"over"} : q = IF NeedsEntry(Latest) THEN "ratchet" ELSE "over"
    BY DEF Phases
  <2>3. Goto(q) /\ q # "saving"
    BY <1>11, <2>2 DEF Query
  <2>4. q = "over" => Done(Latest)
    BY <2>2 DEF NeedsEntry, Done
  <2> QED
    BY <1>6, <2>1, <2>3, <2>4
<1>12. ASSUME NEW id \in 1 .. MaxSessions, OpenLedger(id) PROVE LedgerInv'
  <2>1. /\ Running("ratchet") /\ ~torn /\ Goto("saving")
        /\ pending' = ledger \cup {[id |-> id, run |-> Latest]} /\ ledger' = {}
        /\ UNCHANGED <<torn, saved, damaged>>
    BY <1>12 DEF OpenLedger, ghosts
  <2>2. Latest \in DOMAIN runs /\ runs[Latest].phase = "ratchet" /\ ~runs[Latest].cut
    BY <1>1, <2>1, RunningFacts
  <2>3. PICK q \in Phases : q = "saving"
    BY DEF Phases
  <2>4. /\ DOMAIN runs' = DOMAIN runs /\ Latest' = Latest
        /\ \A n \in DOMAIN runs : runs'[n].phase = IF n = Latest THEN "saving" ELSE runs[n].phase
    BY <1>1, <2>1, <2>2, <2>3, MoveOn
  <2>5. ~Done(Latest) /\ Stored(Latest)
    BY <2>2 DEF RunsInv, RunFacts, Stored
  <2>6. ASSUME NEW e \in ledger' \cup pending' \cup saved'
        PROVE  /\ e.run \in DOMAIN runs' /\ runs'[e.run].state # "done"
               /\ runs'[e.run].phase # "store"
    <3>1. e \in ledger \cup saved \/ e.run = Latest
      BY <2>1
    <3>2. e.run \in DOMAIN runs /\ ~Done(e.run) /\ Stored(e.run)
      BY <2>2, <2>5, <3>1 DEF LedgerInv
    <3> QED
      BY <1>2, <3>2 DEF Done
  <2>7. ASSUME NEW n \in DOMAIN runs', runs'[n].phase = "over", runs'[n].state # "done"
        PROVE  \E e \in saved' : e.run = n
    BY <1>2, <2>1, <2>4, <2>7 DEF LedgerInv, Done
  <2>8. ~Running("saving") /\ Running("saving")'
    <3>1. ~Running("saving")
      BY <2>2 DEF Running
    <3>2. runs'[Latest].cut = runs[Latest].cut
      BY <1>1, <2>1, <2>2, <2>3, MoveOn
    <3> QED
      BY <2>1, <2>2, <2>4, <3>1, <3>2 DEF Running
  <2>9. (\E e \in pending' : e.run = Latest') /\ (~damaged' => saved' \subseteq pending')
    <3>1. ~damaged => saved = ledger
      BY <2>8 DEF LedgerInv
    <3>2. [id |-> id, run |-> Latest] \in pending'
      BY <2>1
    <3> QED
      BY <2>1, <2>4, <3>1, <3>2
  <2> QED
    BY <2>1, <2>6, <2>7, <2>8, <2>9 DEF LedgerInv, Done, Stored
<1>13. ASSUME CutOff, Latest \in DOMAIN runs, UNCHANGED saved,
              \A e \in ledger' \cup pending' : e \in ledger \cup pending,
              torn' => damaged', ~damaged' => ledger' = saved'
       PROVE  LedgerInv'
  <2>1. /\ DOMAIN runs' = DOMAIN runs /\ Latest' = Latest
        /\ \A n \in DOMAIN runs : runs'[n].phase = runs[n].phase
        /\ runs'[Latest].cut
    BY <1>1, <1>13, CutShort
  <2>2. ~Running("saving")'
    BY <2>1 DEF Running
  <2>3. ASSUME NEW e \in ledger' \cup pending' \cup saved'
        PROVE  /\ e.run \in DOMAIN runs' /\ runs'[e.run].state # "done"
               /\ runs'[e.run].phase # "store"
    <3>1. e \in ledger \cup pending \cup saved
      BY <1>13
    <3>2. e.run \in DOMAIN runs /\ ~Done(e.run) /\ Stored(e.run)
      BY <3>1 DEF LedgerInv
    <3> QED
      BY <1>2, <3>2 DEF Done
  <2>4. ASSUME NEW n \in DOMAIN runs', runs'[n].phase = "over", runs'[n].state # "done"
        PROVE  \E e \in saved' : e.run = n
    BY <1>2, <1>13, <2>1, <2>4 DEF LedgerInv, Done
  <2> QED
    BY <1>13, <2>2, <2>3, <2>4 DEF LedgerInv, Done, Stored
<1>14. CASE LoadRaises
  <2>1. Running("ratchet") /\ CutOff /\ UNCHANGED <<pending, ledger, torn, saved, damaged>>
    BY <1>14 DEF LoadRaises, CutOff, memory, ratchet, ghosts
  <2>2. Latest \in DOMAIN runs /\ ~Running("saving")
    BY <1>1, <2>1, RunningFacts DEF Running
  <2>3. (torn' => damaged') /\ (~damaged' => ledger' = saved')
    BY <2>1, <2>2 DEF LedgerInv
  <2> QED
    BY <1>13, <2>1, <2>2, <2>3
<1>15. CASE EndsEarly
  <2>1. ~Idle /\ CutOff /\ pending' = {} /\ UNCHANGED saved
    BY <1>15 DEF EndsEarly, CutOff
  <2>2. Latest \in DOMAIN runs
    <3>1. PICK p \in Phases : Running(p)
      BY <2>1 DEF Idle
    <3> QED
      BY <1>1, <3>1, NotIdle
  <2>3. CASE ~Running("saving")
    <3>1. UNCHANGED <<ledger, torn, damaged>>
      BY <1>15, <2>3 DEF EndsEarly, ratchet
    <3>2. (torn' => damaged') /\ (~damaged' => ledger' = saved')
      BY <2>1, <2>3, <3>1 DEF LedgerInv
    <3> QED
      BY <1>13, <2>1, <2>2, <3>1, <3>2
  <2>4. CASE Running("saving")
    <3>1. ledger' \subseteq pending /\ damaged' = TRUE
      BY <1>15, <2>4 DEF EndsEarly
    <3> QED
      BY <1>13, <2>1, <2>2, <3>1
  <2> QED
    BY <2>3, <2>4
<1>16. CASE WriteLedger
  <2>1. /\ Running("saving") /\ Goto("over")
        /\ ledger' = pending /\ saved' = saved \cup pending /\ pending' = {}
        /\ UNCHANGED <<torn, damaged>>
    BY <1>16 DEF WriteLedger
  <2>2. Latest \in DOMAIN runs
    BY <1>1, <2>1, RunningFacts
  <2>3. /\ DOMAIN runs' = DOMAIN runs /\ Latest' = Latest
        /\ \A n \in DOMAIN runs : runs'[n].phase = IF n = Latest THEN "over" ELSE runs[n].phase
    <3>1. PICK q \in Phases \cup {"over"} : q = "over"
      OBVIOUS
    <3> QED
      BY <1>1, <2>1, <2>2, <3>1, MoveOn
  <2>4. ~Running("saving")'
    BY <2>2, <2>3 DEF Running
  <2>5. ASSUME NEW e \in ledger' \cup pending' \cup saved'
        PROVE  /\ e.run \in DOMAIN runs' /\ runs'[e.run].state # "done"
               /\ runs'[e.run].phase # "store"
    <3>1. e \in pending \cup saved
      BY <2>1
    <3>2. e.run \in DOMAIN runs /\ ~Done(e.run) /\ Stored(e.run)
      BY <3>1 DEF LedgerInv
    <3> QED
      BY <1>2, <3>2 DEF Done
  <2>6. ASSUME NEW n \in DOMAIN runs', runs'[n].phase = "over", runs'[n].state # "done"
        PROVE  \E e \in saved' : e.run = n
    <3>1. CASE n = Latest
      BY <2>1, <3>1 DEF LedgerInv
    <3>2. CASE n # Latest
      <4>1. runs[n].phase = "over" /\ ~Done(n) /\ n \in DOMAIN runs
        BY <1>2, <2>3, <2>6, <3>2 DEF Done
      <4> QED
        BY <2>1, <4>1 DEF LedgerInv
    <3> QED
      BY <3>1, <3>2
  <2>7. (torn' => damaged') /\ (~damaged' => ledger' = saved')
    BY <2>1 DEF LedgerInv
  <2> QED
    BY <2>4, <2>5, <2>6, <2>7 DEF LedgerInv, Done, Stored
<1> QED
  BY <1>3, <1>4, <1>5, <1>8, <1>9, <1>10, <1>11, <1>12, <1>14, <1>15, <1>16, SessionCases
     DEF ProvenanceNext

-----------------------------------------------------------------------------
(* The event store.                                                        *)

Early == {"store", "log"}
Late == {"query", "ratchet", "saving", "over"}

(* What is on record of the run that emits.                                *)
Emitted(n, c) ==
  /\ c <= Len(runs[n].steps)
  /\ Cardinality(EventsOfRun(n)) = c - 1
  /\ \A i \in EventsOfRun(n) : eventStore[i].id[2] < c
  /\ c > 1 => \E i \in DOMAIN eventStore : eventStore[i].id = <<n, c - 1>>

LEMMA NoEvents == Cardinality({}) = 0
  BY FS_EmptySet

LEMMA EventsKept ==
  ASSUME RunsInv, RunsStep, EventsInv, UNCHANGED eventStore,
         \A n \in DOMAIN runs' :
           /\ runs'[n].phase \in Early => EventsOfRun(n) = {}
           /\ runs'[n].phase \in Late => Cardinality(EventsOfRun(n)) \in {0, Len(runs'[n].steps)},
         Running("log")' => cursor' = 1,
         Running("events")' => Emitted(Latest, cursor)'
  PROVE  EventsInv'
<1>1. \A n \in DOMAIN runs : n \in DOMAIN runs' /\ (Stored(n) => runs'[n].phase # "store")
  BY RunsKeep
<1>2. ASSUME NEW i \in DOMAIN eventStore'
      PROVE  LET e == eventStore'[i]
             IN  /\ e.run \in DOMAIN runs' /\ runs'[e.run].phase # "store"
                 /\ e.id[1] = e.run
                 /\ e.cause # << >> => \E j \in 1..(i - 1) : eventStore'[j].id = e.cause
  <2>1. LET e == eventStore[i]
        IN  /\ e.run \in DOMAIN runs /\ Stored(e.run)
            /\ e.id[1] = e.run
            /\ e.cause # << >> => \E j \in 1..(i - 1) : eventStore[j].id = e.cause
    BY DEF EventsInv
  <2> QED
    BY <1>1, <2>1
<1>3. \A n : EventsOfRun(n)' = EventsOfRun(n)
  BY DEF EventsOfRun
<1>4. eventStore' \in Seq(EventRows)
  BY DEF EventsInv
<1>5. Running("events")' =>
       /\ cursor' <= Len(runs'[Latest'].steps)
       /\ Cardinality(EventsOfRun(Latest)') = cursor' - 1
       /\ \A i \in EventsOfRun(Latest)' : eventStore'[i].id[2] < cursor'
       /\ cursor' > 1 => \E i \in DOMAIN eventStore' : eventStore'[i].id = <<Latest', cursor' - 1>>
  BY DEF Emitted
<1> QED
  BY <1>2, <1>3, <1>4, <1>5 DEF EventsInv, Stored, Early, Late

LEMMA EventsMoved ==
  ASSUME RunsInv, RunsStep, EventsInv, UNCHANGED eventStore,
         NEW p \in Phases, Running(p), NEW q \in Phases \cup {"over"}, Goto(q),
         \/ p = "store" /\ q \in {"log", "over"} /\ cursor' = 1
         \/ p = "log" /\ q \in {"events", "query"} /\ cursor' = cursor
         \/ p \in {"query", "ratchet", "saving"} /\ q \in {"ratchet", "saving", "over"}
  PROVE  EventsInv'
<1>1. runs \in Seq(RunRecords)
  BY DEF RunsInv
<1>2. Latest \in DOMAIN runs /\ runs[Latest].phase = p
  BY <1>1, RunningFacts
<1>3. /\ DOMAIN runs' = DOMAIN runs /\ Latest' = Latest
      /\ \A n \in DOMAIN runs : runs'[n].phase = IF n = Latest THEN q ELSE runs[n].phase
  BY <1>1, <1>2, MoveOn
<1>4. \A n \in DOMAIN runs : runs'[n].steps = runs[n].steps
  BY RunsKeep DEF Unmoved
<1>5. ASSUME NEW n \in DOMAIN runs'
      PROVE  /\ runs'[n].phase \in Early => EventsOfRun(n) = {}
             /\ runs'[n].phase \in Late => Cardinality(EventsOfRun(n)) \in {0, Len(runs'[n].steps)}
  <2>1. /\ runs[n].phase \in Early => EventsOfRun(n) = {}
        /\ runs[n].phase \in Late => Cardinality(EventsOfRun(n)) \in {0, Len(runs'[n].steps)}
    BY <1>3, <1>4, <1>5 DEF EventsInv, Early, Late
  <2>2. CASE n # Latest
    BY <1>3, <2>1, <2>2
  <2>3. CASE n = Latest
    <3>1. p \in Early => Cardinality(EventsOfRun(n)) = 0
      BY <1>2, <2>1, <2>3, NoEvents
    <3>2. (p \in Early /\ q \in {"log", "events", "query", "over"}) \/ (p \in Late /\ q \in Late)
      BY DEF Early, Late
    <3>3. p \in Late => q \notin Early
      BY <3>2 DEF Early, Late
    <3> QED
      BY <1>2, <1>3, <2>1, <2>3, <3>1, <3>2, <3>3
  <2> QED
    BY <2>2, <2>3
<1>6. Running("log")' => cursor' = 1
  BY <1>2, <1>3 DEF Running
<1>7. ASSUME Running("events")' PROVE Emitted(Latest, cursor)'
  <2>1. q = "events" /\ p = "log" /\ cursor' = cursor
    BY <1>2, <1>3, <1>7 DEF Running
  <2>2. cursor = 1 /\ EventsOfRun(Latest) = {}
    BY <1>2, <2>1 DEF EventsInv
  <2>3. EventsOfRun(Latest)' = {}
    BY <1>3, <2>2 DEF EventsOfRun
  <2>4. Len(runs[Latest].steps) >= 1
    <3>1. runs[Latest].steps # << >>
      BY <1>2, <2>1 DEF RunsInv, RunFacts, IsBench
    <3>2. runs[Latest].steps \in Seq(StepKinds)
      BY <1>1, <1>2, RunFields
    <3> QED
      BY <3>1, <3>2
  <2> QED
    BY <1>2, <1>3, <1>4, <2>1, <2>2, <2>3, <2>4, NoEvents DEF Emitted
<1> QED
  BY <1>5, <1>6, <1>7, EventsKept

LEMMA EmitKeepsEvents ==
  ASSUME RunsInv, RunsStep, EventsInv, EmitStep
  PROVE  EventsInv'
<1>1. runs \in Seq(RunRecords) /\ Running("events") /\ cursor \in Nat \ {0}
  BY DEF RunsInv, EmitStep
<1>2. PICK n : n = Latest /\ n \in DOMAIN runs /\ n \in Nat /\ runs[n].phase = "events"
                /\ ~runs[n].cut
  BY <1>1, RunningFacts
<1>3. PICK c : c = cursor /\ c \in Nat \ {0}
  BY <1>1
<1>4. Emitted(n, c)
  BY <1>1, <1>2, <1>3 DEF EventsInv, Emitted
<1>5. PICK m : m = Len(eventStore) /\ m \in Nat /\ DOMAIN eventStore = 1 .. m
               /\ eventStore \in Seq(EventRows)
  BY LenProperties DEF EventsInv
<1>6. PICK e : e = StepEvent(n, c)
  OBVIOUS
<1>7. /\ e.id = <<n, c>> /\ e.run = n /\ e.cause = (IF c = 1 THEN << >> ELSE <<n, c - 1>>)
      /\ e \in EventRows
  BY <1>2, <1>3, <1>6 DEF StepEvent, StepEventId, EventRows
<1>8. e.id \notin IdsIn(eventStore)
  <2> SUFFICES ASSUME NEW i \in DOMAIN eventStore, eventStore[i].id = <<n, c>> PROVE FALSE
    BY <1>7 DEF IdsIn
  <2>1. eventStore[i].id[1] = eventStore[i].run
    BY DEF EventsInv
  <2>2. i \in EventsOfRun(n)
    BY <2>1 DEF EventsOfRun
  <2>3. eventStore[i].id[2] < c
    BY <1>4, <2>2 DEF Emitted
  <2> QED
    BY <1>3, <2>3
<1>9. eventStore' = Append(eventStore, e)
  BY <1>2, <1>3, <1>6, <1>8 DEF EmitStep, AppendRow
<1>10. /\ eventStore' \in Seq(EventRows) /\ DOMAIN eventStore' = 1 .. (m + 1)
       /\ \A i \in DOMAIN eventStore : eventStore'[i] = eventStore[i]
       /\ eventStore'[m + 1] = e
  <2>1. /\ eventStore' \in Seq(EventRows) /\ Len(eventStore') = m + 1
        /\ \A i \in 1 .. m : eventStore'[i] = eventStore[i]
        /\ eventStore'[m + 1] = e
    BY <1>5, <1>7, <1>9, AppendProperties
  <2> QED
    BY <1>5, <2>1, LenProperties
<1>11. \A k \in DOMAIN runs : k \in DOMAIN runs' /\ runs'[k].steps = runs[k].steps
         /\ (Stored(k) => runs'[k].phase # "store")
  BY RunsKeep DEF Unmoved
<1>12. \A k : k # n => EventsOfRun(k)' = EventsOfRun(k)
  BY <1>5, <1>7, <1>10 DEF EventsOfRun
<1>13. EventsOfRun(n)' = EventsOfRun(n) \cup {m + 1}
  BY <1>5, <1>7, <1>10 DEF EventsOfRun
<1>14. Cardinality(EventsOfRun(n)') = c
  <2>1. EventsOfRun(n) \subseteq 1 .. m
    BY <1>5 DEF EventsOfRun
  <2>2. IsFiniteSet(EventsOfRun(n))
    <3>1. IsFiniteSet(1 .. m)
      BY <1>5, FS_Interval
    <3>2. PICK S : S = EventsOfRun(n)
      OBVIOUS
    <3> QED
      BY <2>1, <3>1, <3>2, FS_Subset
  <2>3. m + 1 \notin EventsOfRun(n)
    BY <1>5, <2>1
  <2>4. Cardinality(EventsOfRun(n) \cup {m + 1}) = Cardinality(EventsOfRun(n)) + 1
    BY <2>2, <2>3, FS_AddElement
  <2> QED
    BY <1>3, <1>4, <1>13, <2>4 DEF Emitted
<1>15. ASSUME NEW i \in DOMAIN eventStore'
       PROVE  LET f == eventStore'[i]
              IN  /\ f.run \in DOMAIN runs' /\ runs'[f.run].phase # "store"
                  /\ f.id[1] = f.run
                  /\ f.cause # << >> => \E j \in 1..(i - 1) : eventStore'[j].id = f.cause
  <2>1. CASE i \in DOMAIN eventStore
    <3>1. LET f == eventStore[i]
          IN  /\ f.run \in DOMAIN runs /\ Stored(f.run)
              /\ f.id[1] = f.run
              /\ f.cause # << >> => \E j \in 1..(i - 1) : eventStore[j].id = f.cause
      BY <2>1 DEF EventsInv
    <3>2. \A j \in 1 .. (i - 1) : eventStore'[j] = eventStore[j]
      BY <1>5, <1>10, <2>1
    <3> QED
      BY <1>10, <1>11, <2>1, <3>1, <3>2
  <2>2. CASE i = m + 1
    <3>1. n \in DOMAIN runs' /\ runs'[n].phase # "store"
      BY <1>2, <1>11 DEF Stored
    <3>2. ASSUME e.cause # << >> PROVE \E j \in 1..m : eventStore'[j].id = e.cause
      <4>1. c > 1 /\ e.cause = <<n, c - 1>>
        BY <1>3, <1>7, <3>2
      <4>2. PICK j \in DOMAIN eventStore : eventStore[j].id = <<n, c - 1>>
        BY <1>4, <4>1 DEF Emitted
      <4> QED
        BY <1>5, <1>10, <4>1, <4>2
    <3>3. eventStore'[i] = e /\ i - 1 = m
      BY <1>5, <1>10, <2>2
    <3>4. e.run = n /\ e.id[1] = n
      BY <1>7
    <3> QED
      BY <3>1, <3>2, <3>3, <3>4
  <2> QED
    BY <1>5, <1>10, <2>1, <2>2
<1>16. runs[n].steps \in Seq(StepKinds)
  BY <1>1, <1>2, RunFields
<1>17. CASE cursor < Len(runs[Latest].steps) /\ cursor' = cursor + 1 /\ UNCHANGED runs
  <2>1. DOMAIN runs' = DOMAIN runs /\ Latest' = n
    BY <1>2, <1>17 DEF Latest
  <2>2. ASSUME NEW k \in DOMAIN runs'
        PROVE  /\ runs'[k].phase \in Early => EventsOfRun(k)' = {}
               /\ runs'[k].phase \in Late =>
                    Cardinality(EventsOfRun(k)') \in {0, Len(runs'[k].steps)}
    <3>1. CASE k = n
      BY <1>2, <1>17, <3>1 DEF Early, Late
    <3>2. CASE k # n
      BY <1>12, <1>17, <3>2 DEF EventsInv, Early, Late
    <3> QED
      BY <3>1, <3>2
  <2>3. ~Running("log")'
    BY <1>2, <1>17, <2>1 DEF Running
  <2>4. c + 1 <= Len(runs'[n].steps) /\ cursor' = c + 1
    BY <1>2, <1>3, <1>16, <1>17
  <2>5. \A i \in EventsOfRun(n)' : eventStore'[i].id[2] < c + 1
    <3> TAKE i \in EventsOfRun(n)'
    <3>1. CASE i \in EventsOfRun(n)
      <4>1. eventStore[i].id[2] < c /\ i \in DOMAIN eventStore
        BY <1>4, <3>1 DEF Emitted, EventsOfRun
      <4>2. eventStore[i].id \in Nat \X Nat
        <5>1. eventStore[i] \in EventRows
          BY <1>5, <4>1, StackElement
        <5> QED
          BY <5>1 DEF EventRows
      <4> QED
        BY <1>3, <1>10, <4>1, <4>2
    <3>2. CASE i = m + 1
      BY <1>3, <1>7, <1>10, <3>2
    <3> QED
      BY <1>13, <3>1, <3>2
  <2>6. \E i \in DOMAIN eventStore' : eventStore'[i].id = <<n, c>>
    BY <1>5, <1>7, <1>10
  <2>7. Running("events")' =>
          /\ cursor' <= Len(runs'[Latest'].steps)
          /\ Cardinality(EventsOfRun(Latest)') = cursor' - 1
          /\ \A i \in EventsOfRun(Latest)' : eventStore'[i].id[2] < cursor'
          /\ cursor' > 1 => \E i \in DOMAIN eventStore' : eventStore'[i].id = <<Latest', cursor' - 1>>
    <3>1. EventsOfRun(Latest)' = EventsOfRun(n)'
      BY <2>1 DEF EventsOfRun
    <3>2. cursor' - 1 = c
      BY <1>3, <2>4
    <3> QED
      BY <1>14, <2>1, <2>4, <2>5, <2>6, <3>1, <3>2
  <2> QED
    BY <1>10, <1>15, <2>2, <2>3, <2>7 DEF EventsInv, Stored, Early, Late
<1>18. CASE ~(cursor < Len(runs[Latest].steps)) /\ cursor' = 1 /\ Goto("query")
  <2>0. PICK q \in Phases : q = "query"
    BY DEF Phases
  <2>1. /\ DOMAIN runs' = DOMAIN runs /\ Latest' = n
        /\ \A k \in DOMAIN runs : runs'[k].phase = IF k = n THEN "query" ELSE runs[k].phase
    BY <1>1, <1>2, <1>18, <2>0, MoveOn
  <2>2. Len(runs[n].steps) = c
    BY <1>2, <1>3, <1>4, <1>16, <1>18 DEF Emitted
  <2>3. ASSUME NEW k \in DOMAIN runs'
        PROVE  /\ runs'[k].phase \in Early => EventsOfRun(k)' = {}
               /\ runs'[k].phase \in Late =>
                    Cardinality(EventsOfRun(k)') \in {0, Len(runs'[k].steps)}
    <3>1. CASE k = n
      BY <1>2, <1>11, <1>14, <2>1, <2>2, <3>1 DEF Early
    <3>2. CASE k # n
      BY <1>11, <1>12, <2>1, <3>2 DEF EventsInv, Early, Late
    <3> QED
      BY <3>1, <3>2
  <2>4. ~Running("log")' /\ ~Running("events")'
    BY <1>2, <2>1 DEF Running
  <2> QED
    BY <1>10, <1>15, <2>3, <2>4 DEF EventsInv, Stored, Early, Late
<1> QED
  BY <1>17, <1>18 DEF EmitStep

LEMMA StepEventsInv ==
  ASSUME RunsInv, SessionsInv, EventsInv, [ProvenanceNext]_provenanceVars
  PROVE  EventsInv'
<1>1. RunsStep /\ runs \in Seq(RunRecords) /\ RunsInv'
  BY StepRuns, StepRunsInv DEF RunsInv
<1>2. ASSUME UNCHANGED <<runs, cursor, eventStore>> PROVE EventsInv'
  BY <1>2 DEF EventsInv, EventsOfRun, Stored, Running, Latest
<1>3. CASE UNCHANGED provenanceVars
  BY <1>2, <1>3 DEF provenanceVars, memory
<1>4. CASE GetsLoop
  <2>1. /\ \E r \in RunRecords : runs' = Append(runs, r) /\ Fresh(r, Latest + 1)
        /\ Idle /\ UNCHANGED eventStore
    BY <1>4, SessionRun
  <2>2. PICK r \in RunRecords : runs' = Append(runs, r) /\ r.phase = "store"
    BY <2>1 DEF Fresh
  <2>3. /\ Latest \in Nat /\ Latest' = Latest + 1 /\ runs'[Latest + 1] = r
        /\ DOMAIN runs = 1 .. Latest /\ DOMAIN runs' = DOMAIN runs \cup {Latest + 1}
        /\ \A n \in DOMAIN runs : runs'[n] = runs[n]
    BY <1>1, <2>2, OneMore
  <2>4. EventsOfRun(Latest + 1) = {}
    <3>1. \A i \in DOMAIN eventStore : eventStore[i].run \in DOMAIN runs
      BY DEF EventsInv
    <3>2. Latest + 1 \notin DOMAIN runs
      BY <2>3
    <3> QED
      BY <3>1, <3>2 DEF EventsOfRun
  <2>5. ASSUME NEW n \in DOMAIN runs'
        PROVE  /\ runs'[n].phase \in Early => EventsOfRun(n) = {}
               /\ runs'[n].phase \in Late =>
                    Cardinality(EventsOfRun(n)) \in {0, Len(runs'[n].steps)}
    <3>1. CASE n \in DOMAIN runs
      BY <2>3, <3>1 DEF EventsInv, Early, Late
    <3>2. CASE n = Latest + 1
      BY <2>2, <2>3, <2>4, <3>2 DEF Late
    <3> QED
      BY <2>3, <3>1, <3>2
  <2>6. ~Running("log")' /\ ~Running("events")'
    BY <2>2, <2>3 DEF Running
  <2> QED
    BY <1>1, <2>1, <2>5, <2>6, EventsKept
<1>5. CASE NoLoop
  BY <1>2, <1>5 DEF NoLoop, SessionStarts, SessionEnds, memory
<1>6. CASE StoreStep
  <2>1. Running("store") /\ "store" \in Phases /\ UNCHANGED eventStore
    BY <1>6 DEF StoreStep, Phases
  <2>2. CASE cursor' = cursor + 1 /\ UNCHANGED runs
    <3>1. runs[Latest].phase = "store" /\ Latest' = Latest
      BY <1>1, <2>1, <2>2, RunningFacts DEF Latest
    <3>2. ~Running("log")' /\ ~Running("events")'
      BY <2>2, <3>1 DEF Running
    <3>3. \A n \in DOMAIN runs' :
            /\ runs'[n].phase \in Early => EventsOfRun(n) = {}
            /\ runs'[n].phase \in Late =>
                 Cardinality(EventsOfRun(n)) \in {0, Len(runs'[n].steps)}
      BY <2>2 DEF EventsInv, Early, Late
    <3> QED
      BY <1>1, <2>1, <3>2, <3>3, EventsKept
  <2>3. CASE cursor' = 1 /\ Goto(IF IsBench(Latest) THEN "over" ELSE "log")
    <3>1. PICK q \in Phases \cup {"over"} : q = IF IsBench(Latest) THEN "over" ELSE "log"
      BY DEF Phases
    <3>2. Goto(q) /\ q \in {"log", "over"}
      BY <2>3, <3>1
    <3>3. PICK p \in Phases : p = "store"
      BY DEF Phases
    <3> QED
      BY <1>1, <2>1, <2>3, <3>2, <3>3, EventsMoved
  <2> QED
    BY <1>6, <2>2, <2>3 DEF StoreStep
<1>7. CASE LogComplete
  <2>1. PICK p \in Phases : p = "log" /\ Running(p)
    BY <1>7 DEF LogComplete, Phases
  <2>2. PICK q \in {"events", "query"} : Goto(q)
    BY <1>7 DEF LogComplete
  <2>3. q \in Phases \cup {"over"} /\ cursor' = cursor /\ UNCHANGED eventStore
    BY <1>7 DEF LogComplete, memory, Phases
  <2> QED
    BY <1>1, <2>1, <2>2, <2>3, EventsMoved
<1>8. CASE EmitStep
  BY <1>1, <1>8, EmitKeepsEvents
<1>9. ASSUME NEW p \in Phases, p \in {"query", "ratchet", "saving"}, Running(p),
             NEW q \in {"ratchet", "saving", "over"}, Goto(q), UNCHANGED eventStore
      PROVE  EventsInv'
  <2>1. q \in Phases \cup {"over"}
    BY DEF Phases
  <2> QED
    BY <1>1, <1>9, <2>1, EventsMoved
<1>10. CASE Query
  <2>1. PICK p \in Phases : p = "query" /\ Running(p)
    BY <1>10 DEF Query, Phases
  <2>2. PICK q \in {"ratchet", "saving", "over"} :
          q = IF NeedsEntry(Latest) THEN "ratchet" ELSE "over"
    OBVIOUS
  <2>3. Goto(q) /\ UNCHANGED eventStore
    BY <1>10, <2>2 DEF Query
  <2> QED
    BY <1>9, <2>1, <2>3
<1>11. ASSUME NEW id \in 1 .. MaxSessions, OpenLedger(id) PROVE EventsInv'
  <2>1. PICK p \in Phases : p = "ratchet" /\ Running(p)
    BY <1>11 DEF OpenLedger, Phases
  <2>2. PICK q \in {"ratchet", "saving", "over"} : q = "saving"
    OBVIOUS
  <2>3. Goto(q) /\ UNCHANGED eventStore
    BY <1>11, <2>2 DEF OpenLedger
  <2> QED
    BY <1>9, <2>1, <2>3
<1>12. CASE WriteLedger
  <2>1. PICK p \in Phases : p = "saving" /\ Running(p)
    BY <1>12 DEF WriteLedger, Phases
  <2>2. PICK q \in {"ratchet", "saving", "over"} : q = "over"
    OBVIOUS
  <2>3. Goto(q) /\ UNCHANGED eventStore
    BY <1>12, <2>2 DEF WriteLedger
  <2> QED
    BY <1>9, <2>1, <2>3
<1>13. ASSUME CutOff, Latest \in DOMAIN runs, UNCHANGED eventStore PROVE EventsInv'
  <2>1. /\ DOMAIN runs' = DOMAIN runs /\ Latest' = Latest
        /\ \A n \in DOMAIN runs : Unmoved(n) /\ runs'[n].phase = runs[n].phase
        /\ runs'[Latest].cut
    BY <1>1, <1>13, CutShort
  <2>2. ~Running("log")' /\ ~Running("events")'
    BY <2>1 DEF Running
  <2>3. \A n \in DOMAIN runs' :
          /\ runs'[n].phase \in Early => EventsOfRun(n) = {}
          /\ runs'[n].phase \in Late => Cardinality(EventsOfRun(n)) \in {0, Len(runs'[n].steps)}
    BY <2>1 DEF EventsInv, Early, Late, Unmoved
  <2> QED
    BY <1>1, <1>13, <2>2, <2>3, EventsKept
<1>14. CASE LoadRaises
  <2>1. Running("ratchet") /\ CutOff /\ UNCHANGED eventStore
    BY <1>14 DEF LoadRaises, CutOff
  <2>2. Latest \in DOMAIN runs
    BY <1>1, <2>1, RunningFacts
  <2> QED
    BY <1>13, <2>1, <2>2
<1>15. CASE EndsEarly
  <2>1. ~Idle /\ CutOff /\ UNCHANGED eventStore
    BY <1>15 DEF EndsEarly, CutOff
  <2>2. PICK p \in Phases : Running(p)
    BY <2>1 DEF Idle
  <2>3. Latest \in DOMAIN runs
    BY <1>1, <2>2, NotIdle
  <2> QED
    BY <1>13, <2>1, <2>3
<1> QED
  BY <1>3, <1>4, <1>5, <1>6, <1>7, <1>8, <1>10, <1>11, <1>12, <1>14, <1>15, SessionCases
     DEF ProvenanceNext

-----------------------------------------------------------------------------
(* The graph store.                                                        *)

ProjectionFacts ==
  \A n \in DOMAIN runs :
    LET p == runs[n].graph
    IN  /\ p.vertices \in Seq(VerticesOf(n, runs[n].steps)) /\ p.vertices # << >>
        /\ p.edges \in Seq(EdgesAmong(p.vertices))

(* A statement is in the store once its effect is.                         *)
Written(g, w) == w[2] \in (IF w[1] = "vertex" THEN g.vertices ELSE g.edges)

WrittenUpTo(g, todo, c) == c <= Len(todo) /\ \A k \in 1 .. (c - 1) : Written(g, todo[k])

(* What the graph store holds, run by run.                                 *)
HoldsRuns(g) ==
  /\ g \in [vertices : SUBSET GraphVertices, edges : SUBSET GraphEdges]
  /\ \A v \in g.vertices : \E n \in DOMAIN runs : v \in Range(runs[n].graph.vertices)
  /\ \A e \in g.edges : \E n \in DOMAIN runs : e \in Range(runs[n].graph.edges)
  /\ \A n \in DOMAIN runs :
       Stored(n) => /\ Range(runs[n].graph.vertices) \subseteq g.vertices
                    /\ Range(runs[n].graph.edges) \subseteq g.edges

GraphInv ==
  /\ ProjectionFacts
  /\ HoldsRuns(graph)
  /\ Running("store") => WrittenUpTo(graph, Writes(runs[Latest].graph), cursor)

(* Two runs agree on a vertex they share.                                  *)
LEMMA SameVertex ==
  ASSUME NEW n, NEW k, NEW v \in VerticesOf(n, runs[n].steps),
         NEW w \in VerticesOf(k, runs[k].steps), v.id = w.id
  PROVE  v = w
<1>1. v \in GraphVertices /\ w \in GraphVertices
  BY DEF VerticesOf
<1>2. Known(v, n, runs[n].steps) /\ Known(w, k, runs[k].steps)
  BY DEF VerticesOf
<1>3. v.kind = w.kind /\ v.kind \in VertexKinds
  BY <1>1, <1>2 DEF Known, GraphVertices
<1>4. v.label = w.label
  <2>1. CASE v.kind = "trajectory_step"
    <3>1. v.id[2] \in {n} \X DOMAIN runs[n].steps /\ w.id[2] \in {k} \X DOMAIN runs[k].steps
      BY <1>2, <1>3, <2>1 DEF Known
    <3>2. v.id[2][1] = n /\ w.id[2][1] = k
      BY <3>1
    <3>3. n = k
      BY <3>2
    <3> QED
      BY <1>2, <1>3, <2>1, <3>3 DEF Known
  <2>2. CASE v.kind # "trajectory_step"
    BY <1>2, <1>3, <2>2 DEF Known, VertexKinds
  <2> QED
    BY <2>1, <2>2
<1>5. /\ v = [id |-> v.id, kind |-> v.kind, label |-> v.label]
      /\ w = [id |-> w.id, kind |-> w.kind, label |-> w.label]
  BY <1>1 DEF GraphVertices
<1> QED
  BY <1>3, <1>4, <1>5

LEMMA WritesListed ==
  ASSUME NEW V, NEW E, NEW p, p.vertices \in Seq(V), p.edges \in Seq(E)
  PROVE  LET m == Len(p.vertices)
             n == Len(p.edges)
         IN  /\ m \in Nat /\ n \in Nat /\ Len(Writes(p)) = m + n
             /\ \A k \in 1 .. (m + n) :
                  Writes(p)[k] = IF k <= m THEN <<"vertex", p.vertices[k]>>
                                 ELSE <<"edge", p.edges[k - m]>>
<1>1. PICK m, n : m = Len(p.vertices) /\ n = Len(p.edges)
  OBVIOUS
<1>2. m \in Nat /\ n \in Nat /\ DOMAIN p.vertices = 1 .. m /\ DOMAIN p.edges = 1 .. n
  BY <1>1, LenProperties
<1> DEFINE A == [i \in 1 .. m |-> <<"vertex", p.vertices[i]>>]
           B == [i \in 1 .. n |-> <<"edge", p.edges[i]>>]
           W == {<<"vertex", p.vertices[i]>> : i \in 1 .. m} \cup {<<"edge", p.edges[i]>> : i \in 1 .. n}
<1>3. A \in [1 .. m -> W] /\ B \in [1 .. n -> W]
  OBVIOUS
<1> HIDE DEF A, B, W
<1>4. A \in Seq(W) /\ Len(A) = m /\ B \in Seq(W) /\ Len(B) = n
  <2>1. A \in Seq(W) /\ B \in Seq(W)
    BY <1>2, <1>3
  <2>2. DOMAIN A = 1 .. m /\ DOMAIN B = 1 .. n
    BY <1>3
  <2> QED
    BY <1>2, <2>1, <2>2, LenProperties
<1>5. Writes(p) = A \o B
  BY <1>2 DEF Writes, A, B
<1>6. \A k \in 1 .. m : A[k] = <<"vertex", p.vertices[k]>>
  BY DEF A
<1>7. \A k \in 1 .. n : B[k] = <<"edge", p.edges[k]>>
  BY DEF B
<1>8. /\ Len(A \o B) = m + n
      /\ \A k \in 1 .. (m + n) : (A \o B)[k] = IF k <= m THEN A[k] ELSE B[k - m]
  BY <1>4, ConcatProperties
<1>9. ASSUME NEW k \in 1 .. (m + n)
      PROVE  Writes(p)[k] = IF k <= m THEN <<"vertex", p.vertices[k]>>
                            ELSE <<"edge", p.edges[k - m]>>
  <2>1. CASE k <= m
    BY <1>2, <1>5, <1>6, <1>8, <2>1
  <2>2. CASE ~(k <= m)
    <3>1. k - m \in 1 .. n
      BY <1>2, <2>2
    <3> QED
      BY <1>5, <1>7, <1>8, <2>2, <3>1
  <2> QED
    BY <2>1, <2>2
<1> QED
  BY <1>1, <1>2, <1>5, <1>8, <1>9

(* The next statement adds what it names, and nothing else.                *)
LEMMA StoreWrites ==
  ASSUME ProjectionFacts, HoldsRuns(graph), Latest \in DOMAIN runs, cursor \in Nat \ {0},
         WrittenUpTo(graph, Writes(runs[Latest].graph), cursor),
         graph' = Store(graph, Writes(runs[Latest].graph)[cursor])
  PROVE  /\ HoldsRuns(graph')
         /\ \A k \in 1 .. cursor : Written(graph', Writes(runs[Latest].graph)[k])
<1>1. PICK n : n = Latest /\ n \in DOMAIN runs
  OBVIOUS
<1>2. PICK p : p = runs[n].graph
  OBVIOUS
<1>3. PICK c \in Nat \ {0} : c = cursor
  OBVIOUS
<1>4. PICK todo : todo = Writes(p)
  OBVIOUS
<1>5. p.vertices \in Seq(VerticesOf(n, runs[n].steps)) /\ p.edges \in Seq(EdgesAmong(p.vertices))
  BY <1>1, <1>2 DEF ProjectionFacts
<1>0. PICK l, m : l = Len(p.vertices) /\ m = Len(p.edges)
  OBVIOUS
<1>6. /\ l \in Nat /\ m \in Nat /\ Len(todo) = l + m
      /\ \A k \in 1 .. (l + m) :
           todo[k] = IF k <= l THEN <<"vertex", p.vertices[k]>> ELSE <<"edge", p.edges[k - l]>>
  BY <1>0, <1>4, <1>5, WritesListed
<1>7. c \in 1 .. (l + m) /\ \A k \in 1 .. (c - 1) : Written(graph, todo[k])
  <2>1. WrittenUpTo(graph, todo, c)
    BY <1>1, <1>2, <1>3, <1>4
  <2> QED
    BY <1>6, <2>1 DEF WrittenUpTo
<1>8. graph' = Store(graph, todo[c])
  BY <1>1, <1>2, <1>3, <1>4
<1>9. DOMAIN p.vertices = 1 .. l /\ DOMAIN p.edges = 1 .. m
  BY <1>0, <1>5, LenProperties
<1>10. /\ graph \in [vertices : SUBSET GraphVertices, edges : SUBSET GraphEdges]
       /\ graph = [vertices |-> graph.vertices, edges |-> graph.edges]
  BY DEF HoldsRuns
<1>11. CASE c <= l
  <2>1. PICK v : v = p.vertices[c] /\ v \in VerticesOf(n, runs[n].steps) /\ v \in Range(p.vertices)
    <3>1. c \in DOMAIN p.vertices
      BY <1>9, <1>11
    <3> QED
      BY <1>5, <3>1, StackElement DEF Range
  <2>2. v \in GraphVertices
    BY <2>1 DEF VerticesOf
  <2>3. todo[c] = <<"vertex", v>>
    BY <1>6, <1>7, <1>11, <2>1
  <2>4. ASSUME NEW u \in graph.vertices, u.id = v.id PROVE u = v
    <3>1. PICK k \in DOMAIN runs : u \in Range(runs[k].graph.vertices)
      BY DEF HoldsRuns
    <3>2. runs[k].graph.vertices \in Seq(VerticesOf(k, runs[k].steps))
      BY DEF ProjectionFacts
    <3>3. u \in VerticesOf(k, runs[k].steps)
      BY <3>1, <3>2, RangeOfSeq
    <3> QED
      BY <2>1, <2>4, <3>3, SameVertex
  <2>5. {u \in graph.vertices : u.id # v.id} \cup {v} = graph.vertices \cup {v}
    BY <2>4
  <2>6. graph' = [graph EXCEPT !.vertices = {u \in graph.vertices : u.id # v.id} \cup {v}]
    <3>1. graph' = StoreVertex(graph, v)
      BY <1>8, <2>3 DEF Store
    <3> QED
      BY <3>1 DEF StoreVertex
  <2>7. graph' = [vertices |-> graph.vertices \cup {v}, edges |-> graph.edges]
    BY <1>10, <2>5, <2>6
  <2>8. HoldsRuns(graph')
    BY <1>1, <1>2, <1>10, <2>1, <2>2, <2>7 DEF HoldsRuns
  <2>9. ASSUME NEW k \in 1 .. c PROVE Written(graph', todo[k])
    <3>1. CASE k = c
      BY <2>3, <2>7, <3>1 DEF Written
    <3>2. CASE k # c
      BY <1>3, <1>7, <2>7, <3>2 DEF Written
    <3> QED
      BY <3>1, <3>2
  <2> QED
    BY <1>1, <1>2, <1>3, <1>4, <2>8, <2>9
<1>12. CASE ~(c <= l)
  <2>1. PICK e : e = p.edges[c - l] /\ e \in EdgesAmong(p.vertices) /\ e \in Range(p.edges)
    <3>1. c - l \in DOMAIN p.edges
      BY <1>6, <1>7, <1>9, <1>12
    <3> QED
      BY <1>5, <3>1, StackElement DEF Range
  <2>2. e \in GraphEdges /\ \E v, w \in Range(p.vertices) : e.src = v.id /\ e.dst = w.id
    BY <2>1 DEF EdgesAmong
  <2>3. todo[c] = <<"edge", e>>
    BY <1>6, <1>7, <1>12, <2>1
  <2>4. Range(p.vertices) \subseteq graph.vertices
    <3> SUFFICES ASSUME NEW k \in DOMAIN p.vertices PROVE p.vertices[k] \in graph.vertices
      BY DEF Range
    <3>1. k \in 1 .. (c - 1) /\ k \in 1 .. (l + m) /\ k <= l
      BY <1>6, <1>7, <1>9, <1>12
    <3>2. todo[k] = <<"vertex", p.vertices[k]>> /\ Written(graph, todo[k])
      BY <1>6, <1>7, <3>1
    <3> QED
      BY <3>2 DEF Written
  <2>5. {e.src, e.dst} \ Ids(graph) = {}
    BY <2>2, <2>4 DEF Ids
  <2>6. {Bare(id) : id \in {e.src, e.dst} \ Ids(graph)} = {}
    BY <2>5
  <2>7. graph' = [vertices |-> graph.vertices, edges |-> graph.edges \cup {e}]
    <3>1. graph' = StoreEdge(graph, e)
      BY <1>8, <2>3 DEF Store
    <3>2. graph.vertices \cup {Bare(id) : id \in {e.src, e.dst} \ Ids(graph)} = graph.vertices
      BY <2>6
    <3> QED
      BY <3>1, <3>2 DEF StoreEdge
  <2>8. HoldsRuns(graph')
    BY <1>1, <1>2, <1>10, <2>1, <2>2, <2>7 DEF HoldsRuns
  <2>9. ASSUME NEW k \in 1 .. c PROVE Written(graph', todo[k])
    <3>1. CASE k = c
      BY <2>3, <2>7, <3>1 DEF Written
    <3>2. CASE k # c
      BY <1>3, <1>7, <2>7, <3>2 DEF Written
    <3> QED
      BY <3>1, <3>2
  <2> QED
    BY <1>1, <1>2, <1>3, <1>4, <2>8, <2>9
<1> QED
  BY <1>11, <1>12

(* Steps that leave the store alone.                                       *)
LEMMA GraphKept ==
  ASSUME RunsInv, RunsStep, GraphInv, UNCHANGED graph,
         \A n \in DOMAIN runs' : runs'[n].phase # "store" => n \in DOMAIN runs /\ Stored(n),
         \A n \in DOMAIN runs' : n \in DOMAIN runs \/ Fresh(runs'[n], n),
         Running("store")' => WrittenUpTo(graph, Writes(runs'[Latest'].graph), cursor')
  PROVE  GraphInv'
<1>1. \A n \in DOMAIN runs : /\ n \in DOMAIN runs' /\ runs'[n].graph = runs[n].graph
                             /\ runs'[n].steps = runs[n].steps
  BY RunsKeep DEF Unmoved
<1>2. ASSUME NEW n \in DOMAIN runs'
      PROVE  LET p == runs'[n].graph
             IN  /\ p.vertices \in Seq(VerticesOf(n, runs'[n].steps)) /\ p.vertices # << >>
                 /\ p.edges \in Seq(EdgesAmong(p.vertices))
  <2>1. CASE n \in DOMAIN runs
    BY <1>1, <2>1 DEF GraphInv, ProjectionFacts
  <2>2. CASE Fresh(runs'[n], n)
    BY <2>2 DEF Fresh
  <2> QED
    BY <2>1, <2>2
<1>3. HoldsRuns(graph)'
  <2>1. HoldsRuns(graph)
    BY DEF GraphInv
  <2>2. \A n \in DOMAIN runs' : runs'[n].phase # "store" => 
          /\ Range(runs'[n].graph.vertices) \subseteq graph.vertices
          /\ Range(runs'[n].graph.edges) \subseteq graph.edges
    BY <1>1, <2>1 DEF HoldsRuns
  <2> QED
    BY <1>1, <2>1, <2>2 DEF HoldsRuns, Stored
<1>4. ProjectionFacts'
  BY <1>2 DEF ProjectionFacts
<1> QED
  BY <1>3, <1>4 DEF GraphInv

LEMMA StoreKeepsGraph ==
  ASSUME RunsInv, RunsStep, GraphInv, StoreStep
  PROVE  GraphInv'
<1>1. runs \in Seq(RunRecords) /\ Running("store") /\ cursor \in Nat \ {0}
  BY DEF RunsInv, StoreStep
<1>2. PICK n : n = Latest /\ n \in DOMAIN runs /\ runs[n].phase = "store" /\ ~runs[n].cut
  BY <1>1, RunningFacts
<1>3. PICK todo : todo = Writes(runs[n].graph)
  OBVIOUS
<1>4. ProjectionFacts /\ HoldsRuns(graph) /\ WrittenUpTo(graph, todo, cursor)
  BY <1>1, <1>2, <1>3 DEF GraphInv
<1>5. graph' = Store(graph, todo[cursor])
  BY <1>2, <1>3 DEF StoreStep
<1>6. HoldsRuns(graph') /\ \A k \in 1 .. cursor : Written(graph', todo[k])
  BY <1>1, <1>2, <1>3, <1>4, <1>5, StoreWrites
<1>7. \A k \in DOMAIN runs : /\ k \in DOMAIN runs' /\ runs'[k].graph = runs[k].graph
                             /\ runs'[k].steps = runs[k].steps
                             /\ k # n => runs'[k] = runs[k]
  BY <1>2, RunsKeep DEF Unmoved
<1>8. ASSUME DOMAIN runs' = DOMAIN runs PROVE ProjectionFacts'
  BY <1>4, <1>7, <1>8 DEF ProjectionFacts
<1>9. ASSUME DOMAIN runs' = DOMAIN runs,
             runs'[n].phase # "store" =>
               /\ Range(runs[n].graph.vertices) \subseteq graph'.vertices
               /\ Range(runs[n].graph.edges) \subseteq graph'.edges
      PROVE  HoldsRuns(graph)'
  <2>1. /\ graph' \in [vertices : SUBSET GraphVertices, edges : SUBSET GraphEdges]
        /\ \A v \in graph'.vertices : \E k \in DOMAIN runs : v \in Range(runs[k].graph.vertices)
        /\ \A e \in graph'.edges : \E k \in DOMAIN runs : e \in Range(runs[k].graph.edges)
    BY <1>6 DEF HoldsRuns
  <2>2. ASSUME NEW k \in DOMAIN runs', runs'[k].phase # "store"
        PROVE  /\ Range(runs'[k].graph.vertices) \subseteq graph'.vertices
               /\ Range(runs'[k].graph.edges) \subseteq graph'.edges
    <3>1. CASE k = n
      BY <1>7, <1>9, <2>2, <3>1
    <3>2. CASE k # n
      BY <1>6, <1>7, <1>9, <2>2, <3>2 DEF HoldsRuns, Stored
    <3> QED
      BY <3>1, <3>2
  <2> QED
    BY <1>7, <1>9, <2>1, <2>2 DEF HoldsRuns, Stored
<1>10. CASE cursor < Len(todo) /\ cursor' = cursor + 1 /\ UNCHANGED runs
  <2>1. DOMAIN runs' = DOMAIN runs /\ Latest' = n /\ runs'[n] = runs[n]
    BY <1>2, <1>10 DEF Latest
  <2>2. WrittenUpTo(graph', todo, cursor + 1)
    <3>1. cursor < Len(todo) => cursor + 1 <= Len(todo)
      <4>1. Len(todo) \in Nat
        <5>1. runs[n].graph.vertices \in Seq(GraphVertices) /\ runs[n].graph.edges \in Seq(GraphEdges)
          BY <1>1, <1>2, RunFields
        <5>2. PICK p : p = runs[n].graph
          OBVIOUS
        <5>3. p.vertices \in Seq(GraphVertices) /\ p.edges \in Seq(GraphEdges) /\ todo = Writes(p)
          BY <1>3, <5>1, <5>2
        <5>4. PICK l, m : l = Len(p.vertices) /\ m = Len(p.edges)
          OBVIOUS
        <5>5. l \in Nat /\ m \in Nat /\ Len(todo) = l + m
          BY <5>3, <5>4, WritesListed
        <5> QED
          BY <5>5
      <4>2. PICK c, t : c = cursor /\ t = Len(todo)
        OBVIOUS
      <4> QED
        BY <1>1, <4>1, <4>2
    <3>2. PICK g, c, d : g = graph' /\ c = cursor + 1 /\ d = cursor
      OBVIOUS
    <3>3. c <= Len(todo)
      BY <1>10, <3>1, <3>2
    <3>4. 1 .. (c - 1) = 1 .. d
      BY <1>1, <3>2
    <3>5. \A k \in 1 .. d : Written(g, todo[k])
      BY <1>6, <3>2
    <3>6. \A k \in 1 .. (c - 1) : Written(g, todo[k])
      BY <3>4, <3>5
    <3> QED
      BY <3>2, <3>3, <3>6 DEF WrittenUpTo
  <2>3. Running("store")' => WrittenUpTo(graph', Writes(runs'[Latest'].graph), cursor')
    BY <1>3, <1>10, <2>1, <2>2
  <2>4. HoldsRuns(graph)'
    BY <1>2, <1>9, <2>1
  <2>5. ProjectionFacts'
    BY <1>8, <2>1
  <2> QED
    BY <2>3, <2>4, <2>5 DEF GraphInv
<1>11. CASE ~(cursor < Len(todo)) /\ Goto(IF IsBench(Latest) THEN "over" ELSE "log")
  <2>1. PICK q \in Phases \cup {"over"} : q = (IF IsBench(Latest) THEN "over" ELSE "log")
    BY DEF Phases
  <2>2. /\ DOMAIN runs' = DOMAIN runs /\ Latest' = n
        /\ runs'[n].phase = q
    BY <1>1, <1>2, <1>11, <2>1, MoveOn
  <2>3. /\ Range(runs[n].graph.vertices) \subseteq graph'.vertices
        /\ Range(runs[n].graph.edges) \subseteq graph'.edges
    <3>1. PICK p : p = runs[n].graph
      OBVIOUS
    <3>2. p.vertices \in Seq(GraphVertices) /\ p.edges \in Seq(GraphEdges) /\ todo = Writes(p)
      BY <1>1, <1>2, <1>3, <3>1, RunFields
    <3>3. PICK l, m : l = Len(p.vertices) /\ m = Len(p.edges)
      OBVIOUS
    <3>4. /\ l \in Nat /\ m \in Nat /\ Len(todo) = l + m
          /\ \A k \in 1 .. (l + m) :
               todo[k] = IF k <= l THEN <<"vertex", p.vertices[k]>> ELSE <<"edge", p.edges[k - l]>>
      BY <3>2, <3>3, WritesListed
    <3>5. DOMAIN p.vertices = 1 .. l /\ DOMAIN p.edges = 1 .. m
      BY <3>2, <3>3, LenProperties
    <3>6. cursor = l + m
      BY <1>1, <1>4, <1>11, <3>4 DEF WrittenUpTo
    <3>7. ASSUME NEW k \in DOMAIN p.vertices PROVE p.vertices[k] \in graph'.vertices
      <4>1. k \in 1 .. (l + m) /\ k <= l
        BY <3>4, <3>5
      <4> QED
        BY <1>6, <3>4, <3>6, <4>1 DEF Written
    <3>8. ASSUME NEW k \in DOMAIN p.edges PROVE p.edges[k] \in graph'.edges
      <4>1. PICK j : j = k + l
        OBVIOUS
      <4>2. j \in 1 .. (l + m) /\ ~(j <= l) /\ j - l = k
        BY <3>4, <3>5, <4>1
      <4>3. todo[j] = <<"edge", p.edges[k]>>
        BY <3>4, <4>2
      <4>4. Written(graph', todo[j])
        BY <1>6, <3>6, <4>2
      <4> QED
        BY <4>3, <4>4 DEF Written
    <3> QED
      BY <3>1, <3>7, <3>8 DEF Range
  <2>4. ~Running("store")'
    BY <2>1, <2>2 DEF Running
  <2>5. HoldsRuns(graph)'
    BY <1>9, <2>2, <2>3
  <2>6. ProjectionFacts'
    BY <1>8, <2>2
  <2> QED
    BY <2>4, <2>5, <2>6 DEF GraphInv
<1> QED
  BY <1>2, <1>3, <1>10, <1>11 DEF StoreStep

LEMMA StepGraphInv ==
  ASSUME RunsInv, SessionsInv, GraphInv, [ProvenanceNext]_provenanceVars
  PROVE  GraphInv'
<1>1. RunsStep /\ runs \in Seq(RunRecords) /\ RunsInv'
  BY StepRuns, StepRunsInv DEF RunsInv
<1>2. ASSUME UNCHANGED <<runs, graph>>, UNCHANGED cursor \/ ~Running("store") PROVE GraphInv'
  <2>1. Latest' = Latest /\ (Running("store")' <=> Running("store"))
    BY <1>2 DEF Latest, Running
  <2>2. Running("store")' => WrittenUpTo(graph, Writes(runs'[Latest'].graph), cursor')
    BY <1>2, <2>1 DEF GraphInv
  <2> QED
    BY <1>2, <2>2 DEF GraphInv, ProjectionFacts, HoldsRuns, Stored
<1>3. ASSUME ~Running("store"), UNCHANGED graph, Latest \in DOMAIN runs,
             CutOff \/ \E p \in Phases \cup {"over"} : Goto(p) /\ p # "store",
             Stored(Latest) \/ CutOff
      PROVE  GraphInv'
  <2>1. /\ DOMAIN runs' = DOMAIN runs /\ Latest' = Latest
        /\ \A n \in DOMAIN runs : runs'[n].phase # "store" => Stored(n)
        /\ ~Running("store")'
    <3>1. CASE CutOff
      <4>1. /\ DOMAIN runs' = DOMAIN runs /\ Latest' = Latest
            /\ \A n \in DOMAIN runs : runs'[n].phase = runs[n].phase
            /\ runs'[Latest].cut
        BY <1>1, <1>3, <3>1, CutShort
      <4> QED
        BY <4>1 DEF Running, Stored
    <3>2. CASE Stored(Latest) /\ \E p \in Phases \cup {"over"} : Goto(p) /\ p # "store"
      <4>1. PICK p \in Phases \cup {"over"} : Goto(p) /\ p # "store"
        BY <3>2
      <4>2. /\ DOMAIN runs' = DOMAIN runs /\ Latest' = Latest
            /\ \A n \in DOMAIN runs : runs'[n].phase = IF n = Latest THEN p ELSE runs[n].phase
        BY <1>1, <1>3, <4>1, MoveOn
      <4> QED
        BY <1>3, <3>2, <4>1, <4>2 DEF Running, Stored
    <3> QED
      BY <1>3, <3>1, <3>2
  <2> QED
    BY <1>1, <1>3, <2>1, GraphKept
<1>4. ASSUME NEW p \in Phases \ {"store"}, Running(p)
      PROVE  Latest \in DOMAIN runs /\ Stored(Latest) /\ ~Running("store")
  <2>1. Latest \in DOMAIN runs /\ runs[Latest].phase = p
    BY <1>1, <1>4, RunningFacts
  <2> QED
    BY <2>1 DEF Stored, Running
<1>5. CASE UNCHANGED provenanceVars
  BY <1>2, <1>5 DEF provenanceVars, memory
<1>6. CASE GetsLoop
  <2>1. /\ \E r \in RunRecords : runs' = Append(runs, r) /\ Fresh(r, Latest + 1)
        /\ Idle /\ UNCHANGED graph /\ cursor' = 1
    BY <1>6, SessionRun
  <2>2. PICK r \in RunRecords : runs' = Append(runs, r) /\ Fresh(r, Latest + 1)
    BY <2>1
  <2>3. /\ Latest \in Nat /\ Latest' = Latest + 1 /\ runs'[Latest + 1] = r
        /\ DOMAIN runs' = DOMAIN runs \cup {Latest + 1}
        /\ \A n \in DOMAIN runs : runs'[n] = runs[n]
    BY <1>1, <2>2, OneMore
  <2>4. ASSUME NEW n \in DOMAIN runs'
        PROVE  /\ runs'[n].phase # "store" => n \in DOMAIN runs /\ Stored(n)
               /\ n \in DOMAIN runs \/ Fresh(runs'[n], n)
    BY <2>2, <2>3 DEF Stored, Fresh
  <2>5. WrittenUpTo(graph, Writes(runs'[Latest'].graph), cursor')
    <3>1. PICK p : p = r.graph
      OBVIOUS
    <3>2. /\ p.vertices \in Seq(VerticesOf(Latest + 1, r.steps)) /\ p.vertices # << >>
          /\ p.edges \in Seq(EdgesAmong(p.vertices))
      BY <2>2, <3>1 DEF Fresh
    <3>3. Len(Writes(p)) = Len(p.vertices) + Len(p.edges) /\ Len(p.edges) \in Nat
      BY <3>2, WritesListed
    <3>4. Len(p.vertices) \in Nat \ {0}
      <4>1. PICK V : V = VerticesOf(Latest + 1, r.steps)
        OBVIOUS
      <4>2. PICK s \in Seq(V) : s = p.vertices
        BY <3>2, <4>1
      <4>3. s # << >>
        BY <3>2, <4>2
      <4>4. Len(s) \in Nat \ {0}
        BY <4>3
      <4> QED
        BY <4>2, <4>4
    <3>5. 1 <= Len(Writes(p))
      <4>1. PICK l, m : l = Len(p.vertices) /\ m = Len(p.edges)
        OBVIOUS
      <4>2. l \in Nat \ {0} /\ m \in Nat /\ Len(Writes(p)) = l + m
        BY <3>3, <3>4, <4>1
      <4> QED
        BY <4>2
    <3>6. WrittenUpTo(graph, Writes(p), 1)
      BY <3>5 DEF WrittenUpTo
    <3> QED
      BY <2>1, <2>3, <3>1, <3>6
  <2> QED
    BY <1>1, <2>1, <2>4, <2>5, GraphKept
<1>7. CASE NoLoop
  BY <1>2, <1>7 DEF NoLoop, SessionStarts, SessionEnds, memory
<1>8. CASE StoreStep
  BY <1>1, <1>8, StoreKeepsGraph
<1>9. CASE LogComplete
  <2>1. Running("log") /\ UNCHANGED graph /\ "log" \in Phases
    BY <1>9 DEF LogComplete, Phases
  <2>2. PICK p \in {"events", "query"} : Goto(p)
    BY <1>9 DEF LogComplete
  <2>3. p \in Phases \cup {"over"} /\ p # "store"
    BY DEF Phases
  <2> QED
    BY <1>3, <1>4, <2>1, <2>2, <2>3
<1>10. CASE EmitStep
  <2>1. Running("events") /\ UNCHANGED graph /\ "events" \in Phases
    BY <1>10 DEF EmitStep, Phases
  <2>2. Latest \in DOMAIN runs /\ Stored(Latest) /\ ~Running("store")
    BY <1>4, <2>1
  <2>3. CASE UNCHANGED runs
    BY <1>2, <2>1, <2>2, <2>3
  <2>4. CASE Goto("query")
    <3>1. PICK p \in Phases : p = "query"
      BY DEF Phases
    <3> QED
      BY <1>3, <2>1, <2>2, <2>4, <3>1
  <2> QED
    BY <1>10, <2>3, <2>4 DEF EmitStep
<1>11. CASE Query
  <2>1. Running("query") /\ UNCHANGED graph /\ "query" \in Phases
    BY <1>11 DEF Query, Phases
  <2>2. PICK p \in Phases \cup {"over"} : p = (IF NeedsEntry(Latest) THEN "ratchet" ELSE "over")
    BY DEF Phases
  <2>3. Goto(p) /\ p # "store"
    BY <1>11, <2>2 DEF Query
  <2> QED
    BY <1>3, <1>4, <2>1, <2>3
<1>12. ASSUME NEW id \in 1 .. MaxSessions, OpenLedger(id) PROVE GraphInv'
  <2>1. Running("ratchet") /\ UNCHANGED graph /\ Goto("saving") /\ "ratchet" \in Phases
    BY <1>12 DEF OpenLedger, Phases
  <2>2. PICK p \in Phases : p = "saving"
    BY DEF Phases
  <2> QED
    BY <1>3, <1>4, <2>1, <2>2
<1>13. CASE LoadRaises
  <2>1. Running("ratchet") /\ UNCHANGED graph /\ CutOff /\ "ratchet" \in Phases
    BY <1>13 DEF LoadRaises, CutOff, Phases
  <2> QED
    BY <1>3, <1>4, <2>1
<1>14. CASE WriteLedger
  <2>1. Running("saving") /\ UNCHANGED graph /\ Goto("over") /\ "saving" \in Phases
    BY <1>14 DEF WriteLedger, Phases
  <2> QED
    BY <1>3, <1>4, <2>1
<1>15. CASE EndsEarly
  <2>1. ~Idle /\ CutOff /\ UNCHANGED graph
    BY <1>15 DEF EndsEarly, CutOff
  <2>2. PICK p \in Phases : Running(p)
    BY <2>1 DEF Idle
  <2>3. Latest \in DOMAIN runs
    BY <1>1, <2>2, NotIdle
  <2>4. /\ DOMAIN runs' = DOMAIN runs /\ Latest' = Latest
        /\ \A n \in DOMAIN runs : runs'[n].phase = runs[n].phase
        /\ runs'[Latest].cut
    BY <1>1, <2>1, <2>3, CutShort
  <2>5. ~Running("store")' /\ \A n \in DOMAIN runs' : runs'[n].phase # "store" => Stored(n)
    BY <2>4 DEF Running, Stored
  <2> QED
    BY <1>1, <2>1, <2>4, <2>5, GraphKept
<1> QED
  BY <1>5, <1>6, <1>7, <1>8, <1>9, <1>10, <1>11, <1>12, <1>13, <1>14, <1>15, SessionCases
     DEF ProvenanceNext

-----------------------------------------------------------------------------
(* What the readers find.                                                  *)

Verdicts == {"finish", "failure"}

(* A trajectory ends in its only verdict.                                  *)
EndsInVerdict(s) ==
  /\ s # << >>
  /\ \A i \in DOMAIN s : s[i] \in Verdicts <=> i = Len(s)

(* What a run holds for its readers: one loop, an edge from it to each     *)
(* step, and at the end of the steps how it went.                          *)
Legible(r, n) ==
  /\ \E v \in Range(r.graph.vertices) : v.id = <<"loop", n>>
  /\ \A v \in Range(r.graph.vertices) : v.kind = "loop" => v.id = <<"loop", n>>
  /\ \A i \in DOMAIN r.steps :
       /\ \E v \in Range(r.graph.vertices) : v.id = <<"trajectory_step", <<n, i>>>>
       /\ \E e \in Range(r.graph.edges) :
            e.src = <<"loop", n>> /\ e.dst = <<"trajectory_step", <<n, i>>>>
  /\ r.steps # << >> =>
       /\ EndsInVerdict(r.steps)
       /\ r.steps[Len(r.steps)] = IF r.state = "done" THEN "finish" ELSE "failure"

LegibleRuns == \A n \in DOMAIN runs : Legible(runs[n], n)

LEMMA VerdictAtEnd ==
  ASSUME NEW s \in Seq(StepKinds), NEW t \in Seq(StepKinds), EndsInVerdict(t),
         \A i \in DOMAIN s : s[i] \notin Verdicts
  PROVE  EndsInVerdict(s \o t) /\ (s \o t)[Len(s \o t)] = t[Len(t)]
<1>1. PICK l, m, u : l = Len(s) /\ m = Len(t) /\ u = s \o t
  OBVIOUS
<1>2. /\ l \in Nat /\ m \in Nat /\ DOMAIN s = 1 .. l /\ DOMAIN t = 1 .. m
      /\ u \in Seq(StepKinds) /\ Len(u) = l + m /\ DOMAIN u = 1 .. (l + m)
      /\ \A i \in 1 .. (l + m) : u[i] = IF i <= l THEN s[i] ELSE t[i - l]
  BY <1>1, ConcatProperties, LenProperties
<1>3. m > 0
  <2>1. m # 0
    BY <1>1 DEF EndsInVerdict
  <2> QED
    BY <1>2, <2>1
<1>4. u # << >>
  BY <1>2, <1>3
<1>5. ASSUME NEW i \in DOMAIN u PROVE u[i] \in Verdicts <=> i = Len(u)
  <2>1. CASE i <= l
    BY <1>2, <1>3, <2>1
  <2>2. CASE ~(i <= l)
    <3>1. PICK j \in 1 .. m : j = i - l
      BY <1>2, <2>2
    <3>2. u[i] = t[j] /\ (j = m <=> i = l + m)
      BY <1>2, <2>2, <3>1
    <3>3. t[j] \in Verdicts <=> j = m
      BY <1>1, <1>2 DEF EndsInVerdict
    <3> QED
      BY <1>2, <3>2, <3>3
  <2> QED
    BY <2>1, <2>2
<1>6. u[l + m] = t[m]
  <2>1. l + m \in 1 .. (l + m) /\ ~(l + m <= l) /\ l + m - l = m
    BY <1>2, <1>3
  <2> QED
    BY <1>2, <2>1
<1> QED
  BY <1>1, <1>2, <1>4, <1>5, <1>6 DEF EndsInVerdict

LEMMA TrajectoryEnds ==
  ASSUME NEW how \in Hows
  PROVE  /\ EndsInVerdict(Trajectory(how))
         /\ Trajectory(how)[Len(Trajectory(how))] = IF how = "passed" THEN "finish" ELSE "failure"
<1> DEFINE a == <<"prompt_build", "llm_respond">>
           b == <<"code_extract", "candidate_write", "autofix", "executor_gate">>
           c == CASE how = "rejected" -> <<"failure">>
                  [] how = "scored"   -> <<"verify", "failure">>
                  [] how = "passed"   -> <<"verify", "finish">>
           d == IF how = "error" THEN <<"failure">> ELSE b \o c
           verdict == IF how = "passed" THEN "finish" ELSE "failure"
           Right(s) == s \in Seq(StepKinds) /\ EndsInVerdict(s) /\ s[Len(s)] = verdict
<1>1. a \in Seq(StepKinds) /\ \A i \in DOMAIN a : a[i] \notin Verdicts
  <2>1. a \in Seq(StepKinds) /\ DOMAIN a = 1 .. 2 /\ a[1] = "prompt_build" /\ a[2] = "llm_respond"
    BY DEF StepKinds
  <2> HIDE DEF a
  <2>2. \A i \in 1 .. 2 : i = 1 \/ i = 2
    OBVIOUS
  <2> QED
    BY <2>1, <2>2 DEF Verdicts
<1>2. b \in Seq(StepKinds) /\ \A i \in DOMAIN b : b[i] \notin Verdicts
  <2>1. b \in Seq(StepKinds) /\ DOMAIN b = 1 .. 4 /\ b[1] = "code_extract"
        /\ b[2] = "candidate_write" /\ b[3] = "autofix" /\ b[4] = "executor_gate"
    BY DEF StepKinds
  <2> HIDE DEF b
  <2>2. \A i \in 1 .. 4 : i = 1 \/ i = 2 \/ i = 3 \/ i = 4
    OBVIOUS
  <2> QED
    BY <2>1, <2>2 DEF Verdicts
<1>3. ASSUME how # "passed" PROVE Right(<<"failure">>)
  <2> DEFINE s == <<"failure">>
  <2>1. s \in Seq(StepKinds) /\ s # << >> /\ Len(s) = 1 /\ DOMAIN s = {1} /\ s[1] = "failure"
    BY DEF StepKinds
  <2> HIDE DEF s
  <2> QED
    BY <1>3, <2>1 DEF EndsInVerdict, Verdicts
<1>4. ASSUME NEW last \in Verdicts, last = verdict PROVE Right(<<"verify", last>>)
  <2> DEFINE s == <<"verify", last>>
  <2>1. s \in Seq(StepKinds) /\ s # << >> /\ Len(s) = 2 /\ DOMAIN s = 1 .. 2
        /\ s[1] = "verify" /\ s[2] = last
    BY DEF StepKinds, Verdicts
  <2> HIDE DEF s
  <2>2. \A i \in 1 .. 2 : i = 1 \/ i = 2
    OBVIOUS
  <2> QED
    BY <1>4, <2>1, <2>2 DEF EndsInVerdict, Verdicts
<1>5. ASSUME how # "error" PROVE Right(c)
  <2>1. how = "rejected" \/ how = "scored" \/ how = "passed"
    BY <1>5 DEF Hows
  <2>2. how = "rejected" => c = <<"failure">>
    OBVIOUS
  <2>3. how \in {"scored", "passed"} => c = <<"verify", verdict>>
    OBVIOUS
  <2>4. verdict \in Verdicts
    BY DEF Verdicts
  <2> HIDE DEF c, Right, verdict
  <2> QED
    BY <1>3, <1>4, <2>1, <2>2, <2>3, <2>4
<1>6. Trajectory(how) = a \o d
  BY DEF Trajectory
<1> HIDE DEF a, b, c
<1>7. Right(d)
  <2>1. CASE how = "error"
    <3>1. how # "passed" /\ d = <<"failure">>
      BY <2>1
    <3> HIDE DEF Right, d
    <3> QED
      BY <1>3, <3>1
  <2>2. CASE how # "error"
    <3>1. d = b \o c
      BY <2>2
    <3>2. c \in Seq(StepKinds) /\ EndsInVerdict(c) /\ c[Len(c)] = verdict
      BY <1>5, <2>2
    <3>3. b \o c \in Seq(StepKinds)
      BY <1>2, <3>2, ConcatProperties
    <3> HIDE DEF d
    <3> QED
      BY <1>2, <3>1, <3>2, <3>3, VerdictAtEnd
  <2> QED
    BY <2>1, <2>2
<1> HIDE DEF d
<1>8. d \in Seq(StepKinds) /\ EndsInVerdict(d) /\ d[Len(d)] = verdict
  BY <1>7
<1> HIDE DEF Right
<1> QED
  BY <1>1, <1>6, <1>8, VerdictAtEnd

LEMMA ProjectionLegible ==
  ASSUME NEW loop \in LoopRecords, NEW steps \in Seq(StepKinds), NEW r,
         r.graph = Project(loop, steps), r.steps = steps, r.state = loop.state,
         steps # << >> =>
           /\ EndsInVerdict(steps)
           /\ steps[Len(steps)] = IF loop.state = "done" THEN "finish" ELSE "failure"
  PROVE  Legible(r, loop.id)
<1>1. PICK p, n, lv, iv, sv, ov, tv :
        /\ p = Project(loop, steps) /\ n = loop.id
        /\ lv = LoopVertex(loop) /\ iv = IntentVertex(loop) /\ sv = SkillVertices(loop)
        /\ ov = OutcomeVertices(loop) /\ tv = StepVertices(loop, steps)
  OBVIOUS
<1>2. /\ Range(p.vertices) = {lv, iv} \cup Range(sv) \cup Range(ov) \cup Range(tv)
      /\ \A i \in DOMAIN steps : Edge("uses", lv, tv[i]) \in Range(p.edges)
  BY <1>1, ProjectionTyped
<1>3. /\ lv.id = <<"loop", n>> /\ lv.kind = "loop" /\ iv.kind = "intent"
  BY <1>1 DEF LoopVertex, IntentVertex, Vertex
<1>4. \A v \in Range(sv) : v.kind = "skill"
  BY <1>1 DEF SkillVertices, Vertex, Range
<1>5. \A v \in Range(ov) : v.kind # "loop"
  BY <1>1 DEF OutcomeVertices, Vertex, Range
<1>6. /\ DOMAIN tv = DOMAIN steps
      /\ \A i \in DOMAIN steps : tv[i].id = <<"trajectory_step", <<n, i>>>>
                                 /\ tv[i].kind = "trajectory_step"
  BY <1>1 DEF StepVertices, Vertex
<1>7. \A v \in Range(tv) : v.kind = "trajectory_step"
  BY <1>6 DEF Range
<1>8. lv \in Range(p.vertices)
  BY <1>2
<1>9. ASSUME NEW v \in Range(p.vertices), v.kind = "loop" PROVE v.id = <<"loop", n>>
  BY <1>2, <1>3, <1>4, <1>5, <1>7, <1>9
<1>10. ASSUME NEW i \in DOMAIN steps
       PROVE  /\ \E v \in Range(p.vertices) : v.id = <<"trajectory_step", <<n, i>>>>
              /\ \E e \in Range(p.edges) :
                   e.src = <<"loop", n>> /\ e.dst = <<"trajectory_step", <<n, i>>>>
  <2>1. tv[i] \in Range(p.vertices)
    BY <1>2, <1>6 DEF Range
  <2>2. PICK e : e = Edge("uses", lv, tv[i]) /\ e \in Range(p.edges)
    BY <1>2
  <2>3. e.src = lv.id /\ e.dst = tv[i].id
    BY <2>2 DEF Edge
  <2> QED
    BY <1>3, <1>6, <2>1, <2>2, <2>3
<1>11. r.graph = p
  BY <1>1
<1> QED
  BY <1>1, <1>3, <1>8, <1>9, <1>10, <1>11 DEF Legible

LEMMA SessionLegible ==
  ASSUME RunsInv, GetsLoop
  PROVE  /\ UNCHANGED runLog
         /\ \E s \in sessions : \E r :
              /\ runs' = Append(runs, r) /\ Legible(r, Latest + 1)
              /\ r.model = runLog[s].of /\ r.file = runLog[s].file
<1>1. Latest \in Nat
  BY LenProperties DEF RunsInv, Latest
<1>2. PICK n : n = Latest + 1 /\ n \in Nat
  BY <1>1
<1>0. PICK id \in sessions : RunProgramBench(id) \/ \E how \in Hows : RunSingleModel(id, how)
  BY DEF GetsLoop
<1>5. PICK m, file : runLog[id].of = m /\ runLog[id].file = file
  OBVIOUS
<1>3. CASE RunProgramBench(id)
  <2>1. PICK loop : loop = FoldLeft(Advance, Start(Latest + 1, <<"program-bench">>),
                                    Passing("program-bench-parity"))
    OBVIOUS
  <2>2. loop \in LoopRecords /\ loop.id = n /\ loop.state = "done"
    <3>1. <<"program-bench">> \in Seq(Skills) /\ "program-bench-parity" \in Names
      BY DEF Skills, Names
    <3>2. PICK skills \in Seq(Skills), verifier \in Names :
            skills = <<"program-bench">> /\ verifier = "program-bench-parity"
      BY <3>1
    <3>3. loop = Played(Start(n, skills), Passing(verifier))
      BY <1>2, <2>1, <3>2 DEF Played
    <3> QED
      BY <1>2, <3>3, FinalLoop
  <2> DEFINE r == [model |-> m, file |-> file, state |-> loop.state, steps |-> << >>, error |-> FALSE,
                   graph |-> Project(loop, << >>), phase |-> "store", cut |-> FALSE]
  <2>3. << >> \in Seq(StepKinds) /\ r.graph = Project(loop, << >>) /\ r.steps = << >>
        /\ r.state = loop.state /\ r.model = m /\ r.file = file
    OBVIOUS
  <2>4. runs' = Append(runs, r) /\ UNCHANGED runLog
    BY <1>3, <1>5, <2>1 DEF RunProgramBench, Produces
  <2> HIDE DEF r
  <2>5. Legible(r, n)
    BY <2>2, <2>3, ProjectionLegible
  <2> QED
    BY <1>2, <1>5, <2>3, <2>4, <2>5
<1>4. CASE \E how \in Hows : RunSingleModel(id, how)
  <2>1. PICK how \in Hows : RunSingleModel(id, how)
    BY <1>4
  <2>2. PICK loop : loop = FoldLeft(Advance, Start(Latest + 1, <<"sandbox-cache-task">>),
                              IF how = "passed" THEN Passing("sandbox-verifier") ELSE Failing)
    OBVIOUS
  <2>3. /\ loop \in LoopRecords /\ loop.id = n
        /\ loop.state = (IF how = "passed" THEN "done" ELSE "failed")
    <3>1. <<"sandbox-cache-task">> \in Seq(Skills) /\ "sandbox-verifier" \in Names
      BY DEF Skills, Names
    <3>2. PICK skills \in Seq(Skills), verifier \in Names :
            skills = <<"sandbox-cache-task">> /\ verifier = "sandbox-verifier"
      BY <3>1
    <3>3. loop = Played(Start(n, skills), IF how = "passed" THEN Passing(verifier) ELSE Failing)
      BY <1>2, <2>2, <3>2 DEF Played
    <3>4. loop = IF how = "passed" THEN Played(Start(n, skills), Passing(verifier))
                 ELSE Played(Start(n, skills), Failing)
      BY <3>3
    <3> QED
      BY <1>2, <3>4, FinalLoop
  <2>4. PICK steps : steps = Trajectory(how)
    OBVIOUS
  <2>5. /\ steps \in Seq(StepKinds) /\ EndsInVerdict(steps)
        /\ steps[Len(steps)] = IF loop.state = "done" THEN "finish" ELSE "failure"
    BY <2>3, <2>4, TrajectoryTyped, TrajectoryEnds
  <2> DEFINE r == [model |-> m, file |-> file, state |-> loop.state, steps |-> steps,
                   error |-> how \in {"error", "rejected"},
                   graph |-> Project(loop, steps), phase |-> "store", cut |-> FALSE]
  <2>6. r.graph = Project(loop, steps) /\ r.steps = steps /\ r.state = loop.state /\ r.model = m /\ r.file = file
    OBVIOUS
  <2>7. runs' = Append(runs, r) /\ UNCHANGED runLog
    BY <1>5, <2>1, <2>2, <2>4 DEF RunSingleModel, Produces
  <2> HIDE DEF r
  <2>8. Legible(r, n)
    BY <2>3, <2>5, <2>6, ProjectionLegible
  <2> QED
    BY <1>2, <1>5, <2>6, <2>7, <2>8
<1> QED
  BY <1>0, <1>3, <1>4

LEMMA StepLegible ==
  ASSUME RunsInv, SessionsInv, LegibleRuns, [ProvenanceNext]_provenanceVars
  PROVE  LegibleRuns'
<1>1. RunsStep /\ runs \in Seq(RunRecords)
  BY StepRuns DEF RunsInv
<1>2. \A n \in DOMAIN runs : n \in DOMAIN runs' /\ Legible(runs'[n], n)
  <2> TAKE n \in DOMAIN runs
  <2>1. n \in DOMAIN runs' /\ Unmoved(n) /\ Legible(runs[n], n)
    BY <1>1, RunsKeep DEF LegibleRuns
  <2> QED
    BY <2>1 DEF Unmoved, Legible
<1>3. CASE DOMAIN runs' = DOMAIN runs
  BY <1>2, <1>3 DEF LegibleRuns
<1>4. CASE GetsLoop
  <2>1. PICK r \in RunRecords : runs' = Append(runs, r)
    BY <1>4, SessionRun
  <2>2. Legible(r, Latest + 1)
    <3>1. PICK s : runs' = Append(runs, s) /\ Legible(s, Latest + 1)
      BY <1>4, SessionLegible
    <3>2. Append(runs, s)[Len(runs) + 1] = s /\ Append(runs, r)[Len(runs) + 1] = r
      BY <1>1, LenProperties
    <3> QED
      BY <2>1, <3>1, <3>2
  <2>3. DOMAIN runs' = DOMAIN runs \cup {Latest + 1} /\ runs'[Latest + 1] = r
    BY <1>1, <2>1, OneMore
  <2> QED
    BY <1>2, <2>2, <2>3 DEF LegibleRuns
<1>5. CASE ~GetsLoop
  <2>1. DOMAIN runs' = DOMAIN runs
    BY <1>5, SessionCases
       DEF ProvenanceNext, provenanceVars, memory, NoLoop, SessionStarts, SessionEnds, StoreStep,
           LogComplete, EmitStep, Query, OpenLedger, LoadRaises, WriteLedger, EndsEarly, Goto
  <2> QED
    BY <1>3, <2>1
<1> QED
  BY <1>4, <1>5

-----------------------------------------------------------------------------
(* The log's lines.                                                        *)

(* A line of this file before the i-th starts a session of this model.     *)
StartedBefore(lines, i, m, file) ==
  \E j \in DOMAIN lines :
    /\ j < i /\ lines[j].kind = "session_start"
    /\ lines[j].of = m /\ lines[j].file = file

(* Each run has its session_start line in its file; a completed run is on  *)
(* record in the graph, and its run_complete line stands in the same file  *)
(* after the session_start.                                                *)
LinesInv ==
  /\ \A n \in DOMAIN runs :
       StartedBefore(runLog, Len(runLog) + 1, runs[n].model, runs[n].file)
  /\ \A i \in Complete :
       LET n == runLog[i].of
       IN  n \in DOMAIN runs /\ Stored(n) /\ runLog[i].file = runs[n].file
           /\ StartedBefore(runLog, i, runs[n].model, runs[n].file)

(* Any step leaves the log or adds a line.                                 *)
LEMMA LogStep ==
  ASSUME RunsInv, [ProvenanceNext]_provenanceVars
  PROVE  \/ UNCHANGED runLog /\ sessions' \subseteq sessions
         \/ UNCHANGED runs /\ \E m \in Models, file \in LogFiles :
              /\ runLog' = Append(runLog, Line("session_start", m, file))
              /\ sessions' = sessions \cup {Len(runLog) + 1}
         \/ /\ LogComplete /\ UNCHANGED sessions
            /\ \E file \in LogFiles :
                 /\ Latest \in DOMAIN runs /\ Latest \in Nat /\ runs[Latest].file = file
                 /\ runLog' = Append(runLog, Line("run_complete", Latest, file))
<1>1. CASE LogComplete
  <2>1. Latest \in DOMAIN runs /\ Latest \in Nat
    BY <1>1, RunningFacts DEF LogComplete, RunsInv
  <2>2. runs[Latest].file \in LogFiles
    BY <2>1, RunFields DEF RunsInv, RunRecords
  <2> QED
    BY <1>1, <2>1, <2>2 DEF LogComplete
<1>2. CASE \E m \in Models, file \in LogFiles : SessionStarts(m, file)
  BY <1>2 DEF SessionStarts
<1>3. CASE \E s \in sessions : SessionEnds(s)
  BY <1>3 DEF SessionEnds
<1>4. CASE GetsLoop
  BY <1>4 DEF GetsLoop, RunProgramBench, RunSingleModel, Produces
<1>5. CASE UNCHANGED provenanceVars
  BY <1>5 DEF provenanceVars
<1>6. CASE StoreStep \/ EmitStep \/ Query
  BY <1>6 DEF StoreStep, EmitStep, Query
<1>7. CASE \/ \E id \in 1 .. MaxSessions : OpenLedger(id)
           \/ LoadRaises \/ WriteLedger \/ EndsEarly
  BY <1>7 DEF OpenLedger, LoadRaises, WriteLedger, EndsEarly
<1> QED
  BY <1>1, <1>2, <1>3, <1>4, <1>5, <1>6, <1>7, SessionCases DEF ProvenanceNext, NoLoop

LEMMA OneMoreLine ==
  ASSUME runLog \in Seq(Lines), NEW line \in Lines, runLog' = Append(runLog, line)
  PROVE  /\ runLog' \in Seq(Lines)
         /\ Len(runLog) \in Nat /\ Len(runLog') = Len(runLog) + 1
         /\ DOMAIN runLog = 1 .. Len(runLog)
         /\ DOMAIN runLog' = DOMAIN runLog \cup {Len(runLog) + 1}
         /\ \A i \in DOMAIN runLog : runLog'[i] = runLog[i]
         /\ runLog'[Len(runLog) + 1] = line
<1>1. PICK l : l = Len(runLog)
  OBVIOUS
<1>2. /\ l \in Nat /\ DOMAIN runLog = 1 .. l /\ DOMAIN runLog' = 1 .. (l + 1)
      /\ runLog' \in Seq(Lines) /\ Len(runLog') = l + 1
      /\ \A i \in 1 .. l : runLog'[i] = runLog[i]
      /\ runLog'[l + 1] = line
  BY <1>1, AppendProperties, LenProperties
<1>3. 1 .. (l + 1) = (1 .. l) \cup {l + 1}
  BY <1>2
<1> QED
  BY <1>1, <1>2, <1>3

LEMMA StepSessionsInv ==
  ASSUME RunsInv, SessionsInv, [ProvenanceNext]_provenanceVars
  PROVE  SessionsInv'
<1>1. runLog \in Seq(Lines) /\ \A s \in sessions : s \in DOMAIN runLog /\ runLog[s].kind = "session_start"
  BY DEF SessionsInv, Starts
<1>2. CASE UNCHANGED runLog /\ sessions' \subseteq sessions
  BY <1>2 DEF SessionsInv, Starts
<1>3. CASE \E m \in Models, file \in LogFiles :
             /\ runLog' = Append(runLog, Line("session_start", m, file))
             /\ sessions' = sessions \cup {Len(runLog) + 1}
  <2>1. PICK line \in Lines : /\ runLog' = Append(runLog, line) /\ line.kind = "session_start"
                              /\ sessions' = sessions \cup {Len(runLog) + 1}
    BY <1>3 DEF Line, Lines
  <2>2. /\ runLog' \in Seq(Lines) /\ runLog'[Len(runLog) + 1] = line
        /\ DOMAIN runLog' = DOMAIN runLog \cup {Len(runLog) + 1}
        /\ \A i \in DOMAIN runLog : runLog'[i] = runLog[i]
    BY <1>1, <2>1, OneMoreLine
  <2>3. \A s \in sessions' : s \in DOMAIN runLog' /\ runLog'[s].kind = "session_start"
    BY <1>1, <2>1, <2>2
  <2> QED
    BY <2>2, <2>3 DEF SessionsInv, Starts
<1>4. CASE UNCHANGED sessions /\ \E file \in LogFiles :
             Latest \in Nat /\ runLog' = Append(runLog, Line("run_complete", Latest, file))
  <2>1. PICK line \in Lines : runLog' = Append(runLog, line)
    BY <1>4 DEF Line, Lines
  <2>2. /\ runLog' \in Seq(Lines)
        /\ DOMAIN runLog' = DOMAIN runLog \cup {Len(runLog) + 1}
        /\ \A i \in DOMAIN runLog : runLog'[i] = runLog[i]
    BY <1>1, <2>1, OneMoreLine
  <2>3. \A s \in sessions' : s \in DOMAIN runLog' /\ runLog'[s].kind = "session_start"
    BY <1>1, <1>4, <2>2
  <2> QED
    BY <2>2, <2>3 DEF SessionsInv, Starts
<1> QED
  BY <1>2, <1>3, <1>4, LogStep

(* What has been started stays so when a line is added.                    *)
LEMMA StaysStarted ==
  ASSUME runLog \in Seq(Lines), NEW line \in Lines, runLog' = Append(runLog, line),
         NEW i \in 1 .. (Len(runLog) + 1), NEW m, NEW file, StartedBefore(runLog, i, m, file)
  PROVE  StartedBefore(runLog', i, m, file) /\ StartedBefore(runLog', Len(runLog') + 1, m, file)
<1>1. /\ Len(runLog) \in Nat /\ Len(runLog') = Len(runLog) + 1
      /\ DOMAIN runLog = 1 .. Len(runLog)
      /\ DOMAIN runLog' = DOMAIN runLog \cup {Len(runLog) + 1}
      /\ \A k \in DOMAIN runLog : runLog'[k] = runLog[k]
  BY OneMoreLine
<1>2. PICK l \in Nat : l = Len(runLog)
  BY <1>1
<1>3. PICK j \in DOMAIN runLog : /\ j < i /\ runLog[j].kind = "session_start"
                                 /\ runLog[j].of = m /\ runLog[j].file = file
  BY DEF StartedBefore
<1>4. j \in DOMAIN runLog' /\ runLog'[j] = runLog[j] /\ j < Len(runLog') + 1
  BY <1>1, <1>2, <1>3
<1> QED
  BY <1>3, <1>4 DEF StartedBefore

(* The runs' own lines are before the end of the log.                      *)
LEMMA RunsStarted ==
  ASSUME RunsInv, SessionsInv, LinesInv, RunsStep, [ProvenanceNext]_provenanceVars,
         NEW n \in DOMAIN runs'
  PROVE  StartedBefore(runLog, Len(runLog) + 1, runs'[n].model, runs'[n].file)
<1>1. runs \in Seq(RunRecords) /\ runLog \in Seq(Lines)
  BY DEF RunsInv, SessionsInv
<1>2. CASE n \in DOMAIN runs
  <2>1. runs'[n].model = runs[n].model /\ runs'[n].file = runs[n].file
    BY <1>2, RunsKeep DEF Unmoved
  <2> QED
    BY <1>2, <2>1 DEF LinesInv
<1>3. CASE GetsLoop /\ n \notin DOMAIN runs
  <2>1. PICK r \in RunRecords : runs' = Append(runs, r)
    BY <1>3, SessionRun
  <2>2. PICK s \in sessions : \E q :
          runs' = Append(runs, q) /\ q.model = runLog[s].of /\ q.file = runLog[s].file
    BY <1>3, SessionLegible
  <2>9. PICK q : runs' = Append(runs, q) /\ q.model = runLog[s].of /\ q.file = runLog[s].file
    BY <2>2
  <2>3. Append(runs, q)[Len(runs) + 1] = q /\ Append(runs, r)[Len(runs) + 1] = r
    BY <1>1, LenProperties
  <2>4. runs'[n] = r
    BY <1>1, <1>3, <2>1, OneMore
  <2>5. runs'[n].model = runLog[s].of /\ runs'[n].file = runLog[s].file
    BY <2>1, <2>3, <2>4, <2>9
  <2>6. s \in DOMAIN runLog /\ runLog[s].kind = "session_start"
    BY SessionKnown DEF Starts
  <2>7. PICK l \in Nat : l = Len(runLog) /\ DOMAIN runLog = 1 .. l
    BY <1>1, LenProperties
  <2>8. s < Len(runLog) + 1
    BY <2>6, <2>7
  <2> QED
    BY <2>5, <2>6, <2>8 DEF StartedBefore
<1>4. CASE ~GetsLoop
  <2>1. DOMAIN runs' = DOMAIN runs
    BY <1>4, SessionCases
       DEF ProvenanceNext, provenanceVars, memory, NoLoop, SessionStarts, SessionEnds, StoreStep,
           LogComplete, EmitStep, Query, OpenLedger, LoadRaises, WriteLedger, EndsEarly, Goto
  <2> QED
    BY <1>2, <2>1
<1> QED
  BY <1>2, <1>3, <1>4

LEMMA StepLinesInv ==
  ASSUME RunsInv, SessionsInv, LinesInv, [ProvenanceNext]_provenanceVars
  PROVE  LinesInv'
<1>1. RunsStep /\ runs \in Seq(RunRecords) /\ runLog \in Seq(Lines)
  BY StepRuns DEF RunsInv, SessionsInv
<1>2. \A n \in DOMAIN runs : /\ n \in DOMAIN runs' /\ runs'[n].model = runs[n].model
                             /\ runs'[n].file = runs[n].file
                             /\ Stored(n) => runs'[n].phase # "store"
  BY <1>1, RunsKeep DEF Unmoved
<1>3. \A n \in DOMAIN runs' :
        StartedBefore(runLog, Len(runLog) + 1, runs'[n].model, runs'[n].file)
  BY <1>1, RunsStarted
<1>4. \A i \in Complete :
        LET n == runLog[i].of
        IN  /\ n \in DOMAIN runs' /\ runs'[n].phase # "store" /\ runLog[i].file = runs'[n].file
            /\ StartedBefore(runLog, i, runs'[n].model, runs'[n].file)
  BY <1>2 DEF LinesInv
<1>5. CASE UNCHANGED runLog
  <2>1. Complete' = Complete
    BY <1>5 DEF Complete
  <2> QED
    BY <1>3, <1>4, <1>5, <2>1 DEF LinesInv, Stored
<1>6. ASSUME NEW line \in Lines, runLog' = Append(runLog, line),
             line.kind = "run_complete" =>
               LET n == line.of
               IN  n \in DOMAIN runs' /\ runs'[n].phase # "store" /\ line.file = runs'[n].file
      PROVE  LinesInv'
  <2>1. PICK l \in Nat : /\ l = Len(runLog) /\ DOMAIN runLog = 1 .. l
                         /\ DOMAIN runLog' = DOMAIN runLog \cup {l + 1}
                         /\ \A i \in DOMAIN runLog : runLog'[i] = runLog[i]
                         /\ runLog'[l + 1] = line
    BY <1>1, <1>6, OneMoreLine
  <2>2. \A n \in DOMAIN runs' :
          /\ StartedBefore(runLog', Len(runLog') + 1, runs'[n].model, runs'[n].file)
          /\ StartedBefore(runLog', l + 1, runs'[n].model, runs'[n].file)
    <3> TAKE n \in DOMAIN runs'
    <3>1. l + 1 \in 1 .. (Len(runLog) + 1)
      BY <2>1
    <3> QED
      BY <1>1, <1>3, <1>6, <2>1, <3>1, StaysStarted
  <2>3. ASSUME NEW i \in Complete'
        PROVE  LET n == runLog'[i].of
               IN  /\ n \in DOMAIN runs' /\ runs'[n].phase # "store"
                   /\ runLog'[i].file = runs'[n].file
                   /\ StartedBefore(runLog', i, runs'[n].model, runs'[n].file)
    <3>1. i \in DOMAIN runLog' /\ runLog'[i].kind = "run_complete"
      BY <2>3 DEF Complete
    <3>2. CASE i \in DOMAIN runLog
      <4>1. i \in Complete /\ runLog'[i] = runLog[i]
        BY <2>1, <3>1, <3>2 DEF Complete
      <4>2. PICK n : n = runLog[i].of
        OBVIOUS
      <4>3. /\ n \in DOMAIN runs' /\ runs'[n].phase # "store" /\ runLog[i].file = runs'[n].file
            /\ StartedBefore(runLog, i, runs'[n].model, runs'[n].file)
        BY <1>4, <4>1, <4>2
      <4>4. i \in 1 .. (Len(runLog) + 1)
        BY <2>1, <3>2
      <4>5. StartedBefore(runLog', i, runs'[n].model, runs'[n].file)
        BY <1>1, <1>6, <4>3, <4>4, StaysStarted
      <4> QED
        BY <4>1, <4>2, <4>3, <4>5
    <3>3. CASE i = l + 1
      BY <1>6, <2>1, <2>2, <3>1, <3>3
    <3> QED
      BY <2>1, <3>1, <3>2, <3>3
  <2> QED
    BY <2>2, <2>3 DEF LinesInv, Stored
<1>7. CASE \E m \in Models, file \in LogFiles :
             runLog' = Append(runLog, Line("session_start", m, file))
  <2>1. PICK line \in Lines : runLog' = Append(runLog, line) /\ line.kind = "session_start"
    BY <1>7 DEF Line, Lines
  <2> QED
    BY <1>6, <2>1
<1>8. CASE LogComplete /\ \E file \in LogFiles :
             /\ Latest \in DOMAIN runs /\ Latest \in Nat /\ runs[Latest].file = file
             /\ runLog' = Append(runLog, Line("run_complete", Latest, file))
  <2>1. PICK line \in Lines : /\ runLog' = Append(runLog, line) /\ Latest \in DOMAIN runs
                              /\ line.of = Latest /\ line.file = runs[Latest].file
    BY <1>8 DEF Line, Lines
  <2>2. PICK p \in {"events", "query"} : Goto(p)
    BY <1>8 DEF LogComplete
  <2>3. p \in Phases \cup {"over"} /\ p # "store"
    BY DEF Phases
  <2>4. Latest \in DOMAIN runs' /\ runs'[Latest].phase = p /\ runs'[Latest].file = runs[Latest].file
    BY <1>1, <2>1, <2>2, <2>3, MoveOn DEF Unmoved
  <2> QED
    BY <1>6, <2>1, <2>3, <2>4
<1> QED
  BY <1>5, <1>7, <1>8, LogStep

-----------------------------------------------------------------------------
(* What the readers find in the graph store.                               *)

ReadersInv == RunsInv /\ GraphInv /\ LegibleRuns

(* A vertex of the store is of some run, and a loop or a step of just one. *)
LEMMA VertexOwner ==
  ASSUME ReadersInv, NEW v \in graph.vertices
  PROVE  /\ v.id[1] = v.kind
         /\ v.kind = "loop" => \E n \in DOMAIN runs : v.id = <<"loop", n>>
         /\ v.kind = "trajectory_step" =>
              \E n \in DOMAIN runs : \E i \in DOMAIN runs[n].steps :
                v.id[2] = <<n, i>> /\ v.label = runs[n].steps[i]
<1>1. PICK n \in DOMAIN runs : v \in Range(runs[n].graph.vertices)
  BY DEF ReadersInv, GraphInv, HoldsRuns
<1>2. PICK vs, steps : vs = runs[n].graph.vertices /\ steps = runs[n].steps
  OBVIOUS
<1>3. vs \in Seq(VerticesOf(n, steps))
  BY <1>1, <1>2 DEF ReadersInv, GraphInv, ProjectionFacts
<1>4. v \in VerticesOf(n, steps)
  <2>1. PICK i \in DOMAIN vs : v = vs[i]
    BY <1>1, <1>2 DEF Range
  <2> QED
    BY <1>3, <2>1, StackElement
<1>5. Known(v, n, steps)
  BY <1>4 DEF VerticesOf
<1>6. v.kind = "loop" => v.id = <<"loop", n>>
  BY <1>1 DEF ReadersInv, LegibleRuns, Legible
<1>7. ASSUME v.kind = "trajectory_step"
      PROVE  \E i \in DOMAIN steps : v.id[2] = <<n, i>> /\ v.label = steps[i]
  <2>1. v.id[2] \in {n} \X DOMAIN steps /\ v.label = steps[v.id[2][2]]
    BY <1>5, <1>7 DEF Known
  <2>2. PICK k : k = v.id[2]
    OBVIOUS
  <2>3. k \in {n} \X DOMAIN steps /\ v.label = steps[k[2]]
    BY <2>1, <2>2
  <2>4. PICK i \in DOMAIN steps : k = <<n, i>> /\ k[2] = i
    BY <2>3
  <2> QED
    BY <2>2, <2>3, <2>4
<1> QED
  BY <1>1, <1>2, <1>5, <1>6, <1>7 DEF Known

(* The edges from a loop are of its own run.                               *)
LEMMA EdgeOwner ==
  ASSUME ReadersInv, NEW e \in graph.edges, NEW n \in DOMAIN runs, e.src = <<"loop", n>>
  PROVE  \E w \in Range(runs[n].graph.vertices) : e.dst = w.id
<1>1. PICK k \in DOMAIN runs : e \in Range(runs[k].graph.edges)
  BY DEF ReadersInv, GraphInv, HoldsRuns
<1>2. PICK vs, es : vs = runs[k].graph.vertices /\ es = runs[k].graph.edges
  OBVIOUS
<1>3. vs \in Seq(VerticesOf(k, runs[k].steps)) /\ es \in Seq(EdgesAmong(vs))
  BY <1>2 DEF ReadersInv, GraphInv, ProjectionFacts
<1>4. e \in EdgesAmong(vs)
  <2>1. PICK i \in DOMAIN es : e = es[i]
    BY <1>1, <1>2 DEF Range
  <2> QED
    BY <1>3, <2>1, StackElement
<1>5. PICK u \in Range(vs), w \in Range(vs) : e.src = u.id /\ e.dst = w.id
  BY <1>4 DEF EdgesAmong
<1>6. u.kind = "loop"
  <2>1. PICK i \in DOMAIN vs : u = vs[i]
    BY <1>5 DEF Range
  <2>2. u \in VerticesOf(k, runs[k].steps)
    BY <1>3, <2>1, StackElement
  <2>3. u.id[1] = u.kind
    BY <2>2 DEF VerticesOf, Known
  <2> QED
    BY <1>5, <2>3
<1>7. u.id = <<"loop", k>>
  BY <1>2, <1>5, <1>6 DEF ReadersInv, LegibleRuns, Legible
<1>8. k = n
  BY <1>5, <1>7
<1> QED
  BY <1>2, <1>5, <1>8

(* The loops found are those of runs, of every run stored among them.      *)
LEMMA LoopsFound ==
  ASSUME ReadersInv
  PROVE  /\ Loops(graph) = {<<"loop", n>> : n \in LoopsOf(graph)}
         /\ \A n \in DOMAIN runs : Stored(n) => n \in LoopsOf(graph)
<1>1. ASSUME NEW id \in Loops(graph) PROVE \E n \in LoopsOf(graph) : id = <<"loop", n>>
  <2>1. PICK v \in graph.vertices : id = v.id /\ v.id[1] = "loop"
    BY <1>1 DEF Loops, Ids
  <2>2. PICK n \in DOMAIN runs : v.id = <<"loop", n>>
    BY <2>1, VertexOwner
  <2> QED
    BY <1>1, <2>1, <2>2 DEF LoopsOf
<1>2. ASSUME NEW n \in DOMAIN runs, Stored(n) PROVE n \in LoopsOf(graph)
  <2>1. PICK v \in Range(runs[n].graph.vertices) : v.id = <<"loop", n>>
    BY DEF ReadersInv, LegibleRuns, Legible
  <2>2. v \in graph.vertices
    BY <1>2, <2>1 DEF ReadersInv, GraphInv, HoldsRuns
  <2>3. v.id \in Ids(graph) /\ v.id[1] = "loop"
    BY <2>1, <2>2 DEF Ids
  <2> QED
    BY <2>1, <2>3 DEF LoopsOf, Loops
<1>3. \A n \in LoopsOf(graph) : <<"loop", n>> \in Loops(graph)
  BY DEF LoopsOf
<1> QED
  BY <1>1, <1>2, <1>3

(* The steps found for a run are its own, all of them once it is stored.   *)
LEMMA StepsFound ==
  ASSUME ReadersInv, NEW n \in DOMAIN runs
  PROVE  LET found == StepsOf(graph, <<"loop", n>>)
         IN  /\ \A v \in found : \E i \in DOMAIN runs[n].steps :
                  v.id = <<"trajectory_step", <<n, i>>>> /\ v.label = runs[n].steps[i]
             /\ Stored(n) => \A i \in DOMAIN runs[n].steps :
                  \E v \in found : v.id = <<"trajectory_step", <<n, i>>>>
<1> DEFINE found == StepsOf(graph, <<"loop", n>>)
<1>1. ASSUME NEW v
      PROVE  v \in found <=> /\ v \in graph.vertices /\ v.kind = "trajectory_step"
                             /\ \E e \in graph.edges : e.src = <<"loop", n>> /\ e.dst = v.id
  BY DEF StepsOf, Neighbours
<1> HIDE DEF found
<1>2. ASSUME NEW v \in found
      PROVE  \E i \in DOMAIN runs[n].steps :
               v.id = <<"trajectory_step", <<n, i>>>> /\ v.label = runs[n].steps[i]
  <2>1. /\ v \in graph.vertices /\ v.kind = "trajectory_step"
        /\ \E e \in graph.edges : e.src = <<"loop", n>> /\ e.dst = v.id
    BY <1>1
  <2>2. PICK w \in Range(runs[n].graph.vertices) : v.id = w.id
    BY <2>1, EdgeOwner
  <2>3. v.id[1] = "trajectory_step"
    BY <2>1, VertexOwner
  <2>4. PICK vs, steps : vs = runs[n].graph.vertices /\ steps = runs[n].steps
    OBVIOUS
  <2>5. w \in VerticesOf(n, steps)
    <3>1. vs \in Seq(VerticesOf(n, steps))
      BY <2>4 DEF ReadersInv, GraphInv, ProjectionFacts
    <3>2. PICK i \in DOMAIN vs : w = vs[i]
      BY <2>2, <2>4 DEF Range
    <3> QED
      BY <3>1, <3>2, StackElement
  <2>6. w.id \in GraphIds /\ Known(w, n, steps)
    BY <2>5 DEF VerticesOf, GraphVertices
  <2>7. w.id[2] \in {n} \X DOMAIN steps
    BY <2>2, <2>3, <2>6 DEF Known
  <2>8. PICK k \in DOMAIN runs :
          \E i \in DOMAIN runs[k].steps : v.id[2] = <<k, i>> /\ v.label = runs[k].steps[i]
    BY <2>1, VertexOwner
  <2>9. k = n
    BY <2>2, <2>7, <2>8
  <2>10. w.id = <<w.id[1], w.id[2]>>
    BY <2>6 DEF GraphIds
  <2> QED
    BY <2>2, <2>3, <2>8, <2>9, <2>10
<1>3. ASSUME NEW i \in DOMAIN runs[n].steps, Stored(n)
      PROVE  \E v \in found : v.id = <<"trajectory_step", <<n, i>>>>
  <2>1. PICK v \in Range(runs[n].graph.vertices) : v.id = <<"trajectory_step", <<n, i>>>>
    BY DEF ReadersInv, LegibleRuns, Legible
  <2>2. PICK e \in Range(runs[n].graph.edges) :
          e.src = <<"loop", n>> /\ e.dst = <<"trajectory_step", <<n, i>>>>
    BY DEF ReadersInv, LegibleRuns, Legible
  <2>3. v \in graph.vertices /\ e \in graph.edges
    BY <1>3, <2>1, <2>2 DEF ReadersInv, GraphInv, HoldsRuns
  <2>4. v.kind = "trajectory_step"
    <3>1. v.id[1] = v.kind
      BY <2>3, VertexOwner
    <3> QED
      BY <2>1, <3>1
  <2>5. v \in found
    BY <1>1, <2>1, <2>2, <2>3, <2>4
  <2> QED
    BY <2>1, <2>5
<1> QED
  BY <1>2, <1>3 DEF found

(* The kinds found are those of the steps found, in their order.           *)
LEMMA KindsFound ==
  ASSUME ReadersInv, NEW n \in DOMAIN runs
  PROVE  \E N \in SUBSET DOMAIN runs[n].steps :
           /\ IsFiniteSet(N)
           /\ KindsOf(graph, <<"loop", n>>)
                = [k \in 1 .. Cardinality(N) |-> runs[n].steps[CHOOSE i \in N : Rank(N, i) = k]]
           /\ Stored(n) => N = DOMAIN runs[n].steps
<1>1. PICK S : S = runs[n].steps
  OBVIOUS
<1>2. S \in Seq(StepKinds) /\ DOMAIN S = 1 .. Len(S) /\ Len(S) \in Nat
  <2>1. S \in Seq(StepKinds)
    BY <1>1, RunFields DEF ReadersInv, RunsInv
  <2> QED
    BY <2>1, LenProperties
<1>3. PICK found : found = StepsOf(graph, <<"loop", n>>)
  OBVIOUS
<1>4. /\ \A v \in found : \E i \in DOMAIN S :
            v.id = <<"trajectory_step", <<n, i>>>> /\ v.label = S[i]
      /\ Stored(n) => \A i \in DOMAIN S :
            \E v \in found : v.id = <<"trajectory_step", <<n, i>>>>
  BY <1>1, <1>3, StepsFound
<1>5. \A v \in found : v \in GraphVertices /\ v.kind = "trajectory_step"
  BY <1>3 DEF StepsOf, Neighbours, ReadersInv, GraphInv, HoldsRuns
<1> DEFINE number(v) == v.id[2][2]
           N == {number(v) : v \in found}
           kind(i) == (CHOOSE v \in found : number(v) = i).label
           at(k) == CHOOSE i \in N : Rank(N, i) = k
<1>6. \A v \in found : number(v) \in DOMAIN S /\ v.label = S[number(v)]
                       /\ v.id = <<"trajectory_step", <<n, number(v)>>>>
  BY <1>4
<1>7. ASSUME NEW v \in found, NEW w \in found, number(v) = number(w) PROVE v = w
  <2>1. v.id = w.id /\ v.label = w.label /\ v.kind = w.kind
    BY <1>5, <1>6, <1>7
  <2>2. v \in GraphVertices /\ w \in GraphVertices
    BY <1>5
  <2> HIDE DEF number
  <2> QED
    BY <2>1, <2>2 DEF GraphVertices
<1>8. ASSUME NEW i \in N PROVE kind(i) = S[i]
  <2>1. \E v \in found : number(v) = i
    OBVIOUS
  <2>2. PICK w : w = CHOOSE v \in found : number(v) = i
    OBVIOUS
  <2>3. w \in found /\ number(w) = i
    BY <2>1, <2>2
  <2> QED
    BY <1>6, <2>2, <2>3
<1> HIDE DEF kind
<1>9. N \in SUBSET DOMAIN S
  BY <1>6
<1>10. IsFiniteSet(N) /\ Cardinality(found) = Cardinality(N)
  <2> DEFINE f == [v \in found |-> number(v)]
  <2>1. PICK m \in Nat : m = Len(S) /\ DOMAIN S = 1 .. m
    BY <1>2
  <2>2. IsFiniteSet(1 .. m)
    BY <2>1, FS_Interval
  <2> HIDE DEF number
  <2>3. f \in Injection(found, N) /\ f \in Surjection(found, N)
    BY <1>7 DEF Injection, IsInjective, Surjection
  <2> HIDE DEF f, N
  <2>4. IsFiniteSet(N)
    BY <1>9, <2>1, <2>2, FS_Subset
  <2> QED
    BY <2>3, <2>4, FS_Injection
<1>11. KindsOf(graph, <<"loop", n>>) = [k \in 1 .. Cardinality(found) |-> kind(at(k))]
  BY <1>3 DEF KindsOf, kind, Rank
<1>12. Stored(n) => N = DOMAIN S
  <2> SUFFICES ASSUME Stored(n), NEW i \in DOMAIN S PROVE i \in N
    BY <1>9
  <2>1. PICK v \in found : v.id = <<"trajectory_step", <<n, i>>>>
    BY <1>4
  <2>2. number(v) = i
    BY <2>1
  <2> QED
    BY <2>2
<1> HIDE DEF N, number
<1>13. ASSUME NEW k \in 1 .. Cardinality(N) PROVE kind(at(k)) = S[at(k)]
  <2>1. \E i \in N : Rank(N, i) = k
    <3>1. N \in SUBSET Nat
      BY <1>2, <1>9
    <3> QED
      BY <1>10, <3>1, RankedNumbers
  <2>2. at(k) \in N
    BY <2>1
  <2> HIDE DEF at
  <2> QED
    BY <1>8, <2>2
<1> HIDE DEF at
<1>14. KindsOf(graph, <<"loop", n>>) = [k \in 1 .. Cardinality(N) |-> S[at(k)]]
  BY <1>10, <1>11, <1>13
<1> QED
  BY <1>1, <1>9, <1>10, <1>12, <1>14 DEF at

(* The last kind found tells nothing or how the run went, and it does tell *)
(* it once a run with a trajectory is stored.                              *)
LEMMA LastKindFound ==
  ASSUME ReadersInv, NEW n \in DOMAIN runs
  PROVE  LET last == LastKind(graph, <<"loop", n>>)
         IN  /\ last = "finish" => Done(n)
             /\ last = "failure" => ~Done(n)
             /\ Stored(n) /\ ~IsBench(n) => last = IF Done(n) THEN "finish" ELSE "failure"
             /\ IsBench(n) => last = "none"
<1> DEFINE S == runs[n].steps
<1>1. S = runs[n].steps
  OBVIOUS
<1>2. S \in Seq(StepKinds) /\ DOMAIN S = 1 .. Len(S) /\ Len(S) \in Nat
  <2>1. S \in Seq(StepKinds)
    BY <1>1, RunFields DEF ReadersInv, RunsInv
  <2> QED
    BY <2>1, LenProperties
<1>3. PICK N \in SUBSET DOMAIN S :
        /\ IsFiniteSet(N)
        /\ KindsOf(graph, <<"loop", n>>)
             = [k \in 1 .. Cardinality(N) |-> S[CHOOSE i \in N : Rank(N, i) = k]]
        /\ Stored(n) => N = DOMAIN S
  BY KindsFound
<1> HIDE DEF S
<1>4. PICK c : c = Cardinality(N)
  OBVIOUS
<1>5. /\ N \in SUBSET Nat /\ c \in Nat
      /\ \A k \in 1 .. c : \E i \in N : Rank(N, i) = k
      /\ \A i \in N : Rank(N, i) \in 1 .. c
      /\ \A i, j \in N : i < j => Rank(N, i) < Rank(N, j)
  <2>1. N \in SUBSET Nat
    BY <1>2, <1>3
  <2> QED
    BY <1>3, <1>4, <2>1, RankedNumbers
<1>6. PICK kinds, last : kinds = KindsOf(graph, <<"loop", n>>) /\ last = LastKind(graph, <<"loop", n>>)
  OBVIOUS
<1>7. kinds = [k \in 1 .. c |-> S[CHOOSE i \in N : Rank(N, i) = k]]
  BY <1>3, <1>4, <1>6
<1>8. last = IF kinds = << >> THEN "none" ELSE kinds[Len(kinds)]
  BY <1>6 DEF LastKind, Last
<1>9. Len(kinds) = c /\ (kinds = << >> <=> c = 0)
  BY <1>5, <1>7
<1>10. S # << >> => /\ \A i \in DOMAIN S : S[i] \in Verdicts <=> i = Len(S)
                    /\ S[Len(S)] = IF Done(n) THEN "finish" ELSE "failure"
  BY <1>1 DEF ReadersInv, LegibleRuns, Legible, EndsInVerdict, Done
<1>11. CASE c = 0
  <2>1. last = "none"
    BY <1>8, <1>9, <1>11
  <2>2. N = {}
    BY <1>3, <1>4, <1>11, FS_EmptySet
  <2>3. Stored(n) => S = << >>
    <3>1. PICK l : l = Len(S)
      OBVIOUS
    <3>2. Stored(n) => 1 .. l = {}
      BY <1>2, <1>3, <2>2, <3>1
    <3>3. Stored(n) => l = 0
      BY <1>2, <3>1, <3>2
    <3> QED
      BY <1>2, <3>1, <3>3
  <2> QED
    BY <1>1, <1>6, <2>1, <2>3 DEF IsBench
<1>12. CASE c # 0
  <2>1. c \in 1 .. c
    BY <1>5, <1>12
  <2>2. PICK m : m = CHOOSE i \in N : Rank(N, i) = c
    OBVIOUS
  <2>3. m \in N /\ Rank(N, m) = c
    BY <1>5, <2>1, <2>2
  <2>4. last = S[m]
    BY <1>7, <1>8, <1>9, <1>12, <2>1, <2>2
  <2>5. m \in DOMAIN S /\ S # << >>
    BY <1>3, <2>3
  <2>6. last \in Verdicts => last = IF Done(n) THEN "finish" ELSE "failure"
    BY <1>10, <2>4, <2>5
  <2>7. Stored(n) => m = Len(S)
    <3> SUFFICES ASSUME Stored(n), m # Len(S) PROVE FALSE
      OBVIOUS
    <3>1. PICK l : l = Len(S)
      OBVIOUS
    <3>2. l \in N /\ m \in N /\ m < l
      BY <1>2, <1>3, <2>5, <3>1
    <3>3. PICK q, r : q = Rank(N, m) /\ r = Rank(N, l)
      OBVIOUS
    <3>4. q = c /\ r \in 1 .. c /\ q < r
      BY <1>5, <2>3, <3>2, <3>3
    <3> QED
      BY <1>5, <3>4
  <2>8. ~IsBench(n)
    BY <1>1, <2>5 DEF IsBench
  <2>9. Stored(n) => last = IF Done(n) THEN "finish" ELSE "failure"
    BY <1>10, <2>4, <2>5, <2>7
  <2> QED
    BY <1>6, <2>6, <2>8, <2>9 DEF Verdicts
<1> QED
  BY <1>11, <1>12

(* As many loops as runs that have one.                                    *)
LEMMA LoopIdsCounted ==
  ASSUME NEW A, IsFiniteSet(A)
  PROVE  LET T == {<<"loop", n>> : n \in A}
         IN  IsFiniteSet(T) /\ Cardinality(T) = Cardinality(A)
<1> DEFINE T == {<<"loop", n>> : n \in A}
           f == [n \in A |-> <<"loop", n>>]
<1>1. f \in Surjection(A, T) /\ f \in Injection(A, T)
  BY DEF Surjection, Injection, IsInjective
<1> HIDE DEF f, T
<1>2. IsFiniteSet(T) /\ Cardinality(T) = Cardinality(A)
  BY <1>1, FS_Surjection
<1> QED
  BY <1>2 DEF T

LEMMA ModelStarted ==
  ASSUME runLog \in Seq(Lines), ~FileShared, NEW i \in DOMAIN runLog, NEW m,
         StartedBefore(runLog, i, m, runLog[i].file)
  PROVE  ModelBefore(i) = m
<1> DEFINE before == {j \in Starts : j < i /\ runLog[j].file = runLog[i].file}
           latest == CHOOSE j \in before : \A k \in before : k <= j
<1>1. PICK l \in Nat : DOMAIN runLog = 1 .. l
  BY LenProperties
<1>2. PICK j \in before : runLog[j].of = m
  BY DEF StartedBefore, Starts
<1>3. before \in SUBSET (1 .. l)
  BY <1>1 DEF Starts
<1>4. ModelBefore(i) = runLog[latest].of
  BY DEF ModelBefore
<1>5. \A k \in before : k \in Starts /\ runLog[k].file = runLog[i].file
  OBVIOUS
<1> HIDE DEF before
<1>6. \E k \in before : \A h \in before : h <= k
  BY <1>2, <1>3, LargestNumber
<1>7. latest \in before
  BY <1>6
<1> HIDE DEF latest
<1>8. runLog[latest].of = runLog[j].of
  BY <1>2, <1>5, <1>7 DEF FileShared
<1> QED
  BY <1>2, <1>4, <1>8

(* The runs a model is found for are on record; unless a file was shared,  *)
(* the model is their own.                                                 *)
LEMMA ModelsFound ==
  ASSUME ReadersInv, SessionsInv, LinesInv
  PROVE  /\ DOMAIN ModelsFromLogs \subseteq LoopsOf(graph)
         /\ ~FileShared =>
              \A n \in DOMAIN ModelsFromLogs : ModelsFromLogs[n] = runs[n].model
<1>1. ASSUME NEW n \in DOMAIN ModelsFromLogs
      PROVE  n \in LoopsOf(graph) /\ (~FileShared => ModelsFromLogs[n] = runs[n].model)
  <2>1. \E i \in Complete : runLog[i].of = n
    BY <1>1 DEF ModelsFromLogs
  <2>2. PICK i : i = CHOOSE c \in Complete : runLog[c].of = n
    OBVIOUS
  <2>3. i \in Complete /\ runLog[i].of = n
    BY <2>1, <2>2
  <2>4. ModelsFromLogs[n] = ModelBefore(i)
    BY <1>1, <2>2 DEF ModelsFromLogs
  <2>5. /\ n \in DOMAIN runs /\ Stored(n)
        /\ StartedBefore(runLog, i, runs[n].model, runLog[i].file)
    BY <2>3 DEF LinesInv
  <2>6. ~FileShared => ModelBefore(i) = runs[n].model
    BY <2>3, <2>5, ModelStarted DEF SessionsInv, Complete
  <2> QED
    BY <2>4, <2>5, <2>6, LoopsFound
<1> QED
  BY <1>1

LEMMA LoopsFinite ==
  ASSUME RunsInv
  PROVE  /\ Latest \in Nat /\ DOMAIN runs = 1 .. Latest
         /\ IsFiniteSet(DOMAIN runs) /\ Cardinality(DOMAIN runs) = Latest
         /\ \A A \in SUBSET DOMAIN runs : IsFiniteSet(A) /\ Cardinality(A) \in Nat
<1>1. PICK l \in Nat : l = Latest /\ DOMAIN runs = 1 .. l
  BY LenProperties DEF RunsInv, Latest
<1>2. IsFiniteSet(1 .. l) /\ Cardinality(1 .. l) = l
  BY FS_Interval
<1>3. \A A \in SUBSET (1 .. l) : IsFiniteSet(A) /\ Cardinality(A) \in Nat
  BY <1>2, FS_Subset, FS_CardinalityType
<1> QED
  BY <1>1, <1>2, <1>3

-----------------------------------------------------------------------------
(* What the readers say.                                                   *)

LEMMA ScoreFound ==
  ASSUME ReadersInv, NEW n \in DOMAIN runs
  PROVE  LET score == ScoreOf(graph, <<"loop", n>>)
         IN  /\ score \in {0, 1, 2}
             /\ score = 2 => Done(n)
             /\ score = 0 => ~Done(n)
             /\ Stored(n) /\ ~IsBench(n) => score = IF Done(n) THEN 2 ELSE 0
<1>1. PICK last : last = LastKind(graph, <<"loop", n>>)
  OBVIOUS
<1>2. /\ last = "finish" => Done(n)
      /\ last = "failure" => ~Done(n)
      /\ Stored(n) /\ ~IsBench(n) => last = IF Done(n) THEN "finish" ELSE "failure"
  BY <1>1, LastKindFound
<1>3. ScoreOf(graph, <<"loop", n>>) = IF last = "finish" THEN 2 ELSE IF last = "failure" THEN 0 ELSE 1
  BY <1>1 DEF ScoreOf
<1> QED
  BY <1>2, <1>3

(* What a recommendation rests on.                                         *)
LEMMA Recommended ==
  ASSUME NEW g, NEW models
  PROVE  LET found == Recommend(g, models)
             scores == {ScoreOf(g, id) : id \in Loops(g)}
         IN  /\ "model_stable" \in found \/ "executor_gate_safe" \in found => scores = {2}
             /\ "failed_run_present" \in found <=> 0 \in scores
             /\ "undertested_model" \in found =>
                  /\ Cardinality(Range(models)) = 1
                  /\ Cardinality(DOMAIN models) = Cardinality(Loops(g))
<1> DEFINE scores == {ScoreOf(g, id) : id \in Loops(g)}
           oneModel == Cardinality(Range(models)) = 1
           drifts == {KindsOf(g, id) : id \in Loops(g)}
           undertested == /\ Cardinality(Loops(g)) >= 2 /\ oneModel
                          /\ Cardinality(DOMAIN models) = Cardinality(Loops(g))
           uniform == Cardinality(drifts) = 1
           drift == Cardinality(drifts) >= 2
           rules == [model_stable       |-> scores = {2} /\ oneModel,
                     executor_gate_safe |-> scores = {2},
                     undertested_model  |-> undertested,
                     failed_run_present |-> 0 \in scores,
                     trajectory_uniform |-> uniform,
                     trajectory_drift   |-> drift,
                     all_fail           |-> 2 \notin scores]
           found == Recommend(g, models)
<1>1. found = IF Loops(g) = {} THEN {"no_data"} ELSE {k \in DOMAIN rules : rules[k]}
  BY DEF Recommend
<1>2. Loops(g) = {} => scores = {}
  OBVIOUS
<1> HIDE DEF scores, oneModel, undertested, uniform, drift, found
<1>3. /\ "model_stable" \in DOMAIN rules /\ (rules["model_stable"] <=> scores = {2} /\ oneModel)
      /\ "executor_gate_safe" \in DOMAIN rules /\ (rules["executor_gate_safe"] <=> scores = {2})
      /\ "undertested_model" \in DOMAIN rules /\ (rules["undertested_model"] <=> undertested)
      /\ "failed_run_present" \in DOMAIN rules /\ (rules["failed_run_present"] <=> 0 \in scores)
  OBVIOUS
<1> HIDE DEF rules
<1>4. "model_stable" \in found \/ "executor_gate_safe" \in found => scores = {2}
  BY <1>1, <1>3
<1>5. "failed_run_present" \in found <=> 0 \in scores
  BY <1>1, <1>2, <1>3
<1>6. "undertested_model" \in found => undertested
  BY <1>1, <1>3
<1> QED
  BY <1>4, <1>5, <1>6 DEF found, scores, undertested, oneModel

LEMMA RecommendationsRight ==
  ASSUME ReadersInv, SessionsInv, LinesInv
  PROVE  RecommendationsHold
<1> DEFINE found == Recommend(graph, ModelsFromLogs)
           scores == {ScoreOf(graph, id) : id \in Loops(graph)}
<1>1. /\ "model_stable" \in found \/ "executor_gate_safe" \in found => scores = {2}
      /\ "failed_run_present" \in found <=> 0 \in scores
      /\ "undertested_model" \in found =>
           /\ Cardinality(Range(ModelsFromLogs)) = 1
           /\ Cardinality(DOMAIN ModelsFromLogs) = Cardinality(Loops(graph))
  BY Recommended
<1> HIDE DEF found
<1>2. LoopsOf(graph) \in SUBSET DOMAIN runs
  BY DEF LoopsOf
<1>3. \A n \in LoopsOf(graph) : ScoreOf(graph, <<"loop", n>>) \in scores
  BY LoopsFound
<1>4. \A s \in scores : \E n \in LoopsOf(graph) : s = ScoreOf(graph, <<"loop", n>>)
  BY LoopsFound
<1> HIDE DEF scores
<1>5. ASSUME scores = {2}, NEW n \in LoopsOf(graph) PROVE Done(n)
  <2>1. n \in DOMAIN runs /\ ScoreOf(graph, <<"loop", n>>) = 2
    BY <1>2, <1>3, <1>5
  <2> QED
    BY <2>1, ScoreFound
<1>6. ASSUME 0 \in scores PROVE \E n \in LoopsOf(graph) : ~Done(n)
  <2>1. PICK n \in LoopsOf(graph) : ScoreOf(graph, <<"loop", n>>) = 0
    BY <1>4, <1>6
  <2>2. ~Done(n)
    BY <1>2, <2>1, ScoreFound
  <2> QED
    BY <2>2
<1>7. ASSUME 0 \notin scores, NEW n \in DOMAIN runs, Stored(n) PROVE Done(n)
  <2> SUFFICES ASSUME ~Done(n) PROVE FALSE
    OBVIOUS
  <2>1. ~IsBench(n)
    BY DEF ReadersInv, RunsInv, RunFacts
  <2>2. ScoreOf(graph, <<"loop", n>>) = 0
    BY <1>7, <2>1, ScoreFound
  <2>3. n \in LoopsOf(graph)
    BY <1>7, LoopsFound
  <2> QED
    BY <1>3, <1>7, <2>2, <2>3
<1>8. ASSUME "undertested_model" \in found, ~FileShared, NEW n \in LoopsOf(graph), NEW k \in LoopsOf(graph)
      PROVE  runs[n].model = runs[k].model
  <2>1. PICK models : models = ModelsFromLogs
    OBVIOUS
  <2>2. PICK D : D = DOMAIN models
    OBVIOUS
  <2>3. D \subseteq LoopsOf(graph) /\ \A i \in D : models[i] = runs[i].model
    BY <1>8, <2>1, <2>2, ModelsFound
  <2>4. IsFiniteSet(LoopsOf(graph)) /\ IsFiniteSet(D)
    BY <1>2, <2>3, LoopsFinite DEF ReadersInv
  <2>5. Cardinality(Loops(graph)) = Cardinality(LoopsOf(graph))
    BY <2>4, LoopIdsCounted, LoopsFound
  <2>6. D = LoopsOf(graph)
    BY <1>1, <1>8, <2>1, <2>2, <2>3, <2>4, <2>5, FS_Subset
  <2>7. PICK R : R = Range(models)
    OBVIOUS
  <2>8. models \in Surjection(D, R)
    <3>1. models = [i \in D |-> models[i]]
      BY <2>1, <2>2 DEF ModelsFromLogs
    <3> QED
      BY <2>2, <2>7, <3>1 DEF Surjection, Range
  <2>9. IsFiniteSet(R)
    BY <2>4, <2>8, FS_Surjection
  <2>10. Cardinality(R) = 1
    BY <1>1, <1>8, <2>1, <2>7
  <2>11. \E x : R = {x}
    BY <2>9, <2>10, FS_Singleton
  <2>12. models[n] \in R /\ models[k] \in R
    BY <2>2, <2>6, <2>7 DEF Range
  <2> QED
    BY <2>3, <2>6, <2>11, <2>12
<1>9. {"model_stable", "executor_gate_safe"} \cap found # {} => \A n \in LoopsOf(graph) : Done(n)
  BY <1>1, <1>5
<1> QED
  BY <1>1, <1>6, <1>7, <1>8, <1>9 DEF RecommendationsHold, found

LEMMA ReportRight ==
  ASSUME ReadersInv
  PROVE  ReportTellsOutcome
<1>1. ASSUME NEW n \in LoopsOf(graph)
      PROVE  LET last == LastKind(graph, <<"loop", n>>)
             IN  (last = "finish" => Done(n)) /\ (last = "failure" => ~Done(n))
  <2>1. n \in DOMAIN runs
    BY DEF LoopsOf
  <2> QED
    BY <2>1, LastKindFound
<1>2. ASSUME \A n \in DOMAIN runs : Stored(n) /\ ~IsBench(n)
      PROVE  LET failed == Cardinality({n \in DOMAIN runs : ~Done(n)})
             IN  /\ Report(graph) = [total_loops          |-> Latest,
                                  runs_with_score_1    |-> Latest - failed,
                                  runs_with_score_lt_1 |-> failed,
                                  executor_failures    |-> failed]
                 /\ \A n, k \in DOMAIN runs :
                      Compare(graph, <<"loop", n>>, <<"loop", k>>).score_delta
                        = (IF Done(k) THEN 2 ELSE 0) - (IF Done(n) THEN 2 ELSE 0)
  <2> DEFINE Failed == {n \in DOMAIN runs : ~Done(n)}
             Passed == {n \in DOMAIN runs : Done(n)}
             last == [id \in Loops(graph) |-> LastKind(graph, id)]
             Judged(K) == {id \in Loops(graph) : last[id] \in K}
             Failures == {v \in UNION {StepsOf(graph, id) : id \in Loops(graph)} :
                            v.label = "failure"}
  <2>1. Loops(graph) = {<<"loop", n>> : n \in DOMAIN runs}
    <3>1. LoopsOf(graph) = DOMAIN runs
      BY <1>2, LoopsFound DEF LoopsOf
    <3> QED
      BY <3>1, LoopsFound
  <2>2. /\ IsFiniteSet(DOMAIN runs) /\ Cardinality(DOMAIN runs) = Latest /\ Latest \in Nat
        /\ IsFiniteSet(Failed) /\ IsFiniteSet(Passed)
        /\ Cardinality(Failed) \in Nat /\ Cardinality(Passed) \in Nat
    BY LoopsFinite DEF ReadersInv
  <2>3. Cardinality(Passed) = Latest - Cardinality(Failed)
    <3>1. Passed = DOMAIN runs \ Failed /\ DOMAIN runs \cap Failed = Failed
      OBVIOUS
    <3> QED
      BY <2>2, <3>1, FS_Difference
  <2>4. \A n \in DOMAIN runs :
          LastKind(graph, <<"loop", n>>) = IF Done(n) THEN "finish" ELSE "failure"
    BY <1>2, LastKindFound
  <2>5. Cardinality(Loops(graph)) = Latest
    BY <2>1, <2>2, LoopIdsCounted
  <2>6. ASSUME NEW K, "finish" \in K, "failure" \notin K
        PROVE  Cardinality(Judged(K)) = Cardinality(Passed)
    <3>1. ASSUME NEW n \in DOMAIN runs PROVE last[<<"loop", n>>] \in K <=> Done(n)
      <4>1. last[<<"loop", n>>] = LastKind(graph, <<"loop", n>>)
        BY <2>1
      <4> QED
        BY <2>4, <2>6, <4>1
    <3> HIDE DEF last
    <3>2. Judged(K) = {<<"loop", n>> : n \in Passed}
      BY <2>1, <3>1
    <3> QED
      BY <2>2, <3>2, LoopIdsCounted
  <2>7. Cardinality(Failures) = Cardinality(Failed)
    <3>1. ASSUME NEW n \in Failed
          PROVE  \E v \in Failures : v.id[2][1] = n
      <4>1. PICK S : S = runs[n].steps
        OBVIOUS
      <4>2. PICK l : l = Len(S)
        OBVIOUS
      <4>3. S # << >> /\ S[l] = "failure" /\ ~Done(n) /\ n \in DOMAIN runs
        <5>1. S # << >> /\ ~Done(n) /\ runs[n].state # "done"
          BY <1>2, <4>1 DEF IsBench, Done
        <5> QED
          BY <4>1, <4>2, <5>1 DEF ReadersInv, LegibleRuns, Legible
      <4>4. l \in DOMAIN S
        <5>1. S \in Seq(StepKinds)
          BY <4>1, RunFields DEF ReadersInv, RunsInv
        <5>2. l \in Nat /\ l # 0 /\ DOMAIN S = 1 .. l
          BY <4>2, <4>3, <5>1, LenProperties, EmptySeq
        <5> QED
          BY <5>2
      <4>5. PICK v \in StepsOf(graph, <<"loop", n>>) : v.id = <<"trajectory_step", <<n, l>>>>
        BY <1>2, <4>1, <4>4, StepsFound
      <4>6. PICK i \in DOMAIN S : v.id = <<"trajectory_step", <<n, i>>>> /\ v.label = S[i]
        BY <4>1, <4>5, StepsFound
      <4>7. i = l
        BY <4>5, <4>6
      <4>8. v.label = "failure" /\ v.id[2][1] = n
        BY <4>3, <4>6, <4>7
      <4>9. <<"loop", n>> \in Loops(graph)
        BY <2>1
      <4>10. v \in Failures
        BY <4>5, <4>8, <4>9
      <4> QED
        BY <4>8, <4>10
    <3>2. ASSUME NEW v \in Failures
          PROVE  \E n \in Failed : v \in GraphVertices /\ v.kind = "trajectory_step"
                   /\ v.id = <<"trajectory_step", <<n, Len(runs[n].steps)>>>>
      <4>1. PICK n \in DOMAIN runs : v \in StepsOf(graph, <<"loop", n>>)
        BY <2>1
      <4>2. v.label = "failure"
        OBVIOUS
      <4>3. PICK S : S = runs[n].steps
        OBVIOUS
      <4>4. PICK i \in DOMAIN S : v.id = <<"trajectory_step", <<n, i>>>> /\ v.label = S[i]
        BY <4>1, <4>3, StepsFound
      <4>5. S # << >>
        BY <4>4
      <4>6. /\ \A j \in DOMAIN S : S[j] \in Verdicts <=> j = Len(S)
            /\ S[Len(S)] = IF Done(n) THEN "finish" ELSE "failure"
        BY <4>3, <4>5 DEF ReadersInv, LegibleRuns, Legible, EndsInVerdict, Done
      <4>7. i = Len(S)
        BY <4>2, <4>4, <4>6 DEF Verdicts
      <4>8. ~Done(n)
        BY <4>2, <4>4, <4>6, <4>7
      <4>9. v \in GraphVertices /\ v.kind = "trajectory_step"
        BY <4>1 DEF StepsOf, Neighbours, ReadersInv, GraphInv, HoldsRuns
      <4> QED
        BY <4>3, <4>4, <4>7, <4>8, <4>9
    <3>3. \A v \in Failures : v.id[2][1] \in Failed
      BY <3>2
    <3>4. ASSUME NEW v \in Failures, NEW w \in Failures, v.id[2][1] = w.id[2][1] PROVE v = w
      <4>1. PICK n \in Failed : v \in GraphVertices /\ v.kind = "trajectory_step"
                                /\ v.id = <<"trajectory_step", <<n, Len(runs[n].steps)>>>>
        BY <3>2
      <4>2. PICK k \in Failed : w \in GraphVertices /\ w.kind = "trajectory_step"
                                /\ w.id = <<"trajectory_step", <<k, Len(runs[k].steps)>>>>
        BY <3>2
      <4>3. n = k
        BY <3>4, <4>1, <4>2
      <4>4. v.label = "failure" /\ w.label = "failure"
        OBVIOUS
      <4>5. v.id = w.id /\ v.kind = w.kind /\ v.label = w.label
        BY <4>1, <4>2, <4>3, <4>4
      <4> QED
        BY <4>1, <4>2, <4>5 DEF GraphVertices
    <3> DEFINE f == [v \in Failures |-> v.id[2][1]]
    <3> HIDE DEF Failures
    <3>5. f \in Injection(Failures, Failed) /\ f \in Surjection(Failures, Failed)
      <4>1. f \in [Failures -> Failed]
        BY <3>3
      <4>2. \A n \in Failed : \E v \in Failures : f[v] = n
        BY <3>1
      <4>3. \A v, w \in Failures : f[v] = f[w] => v = w
        BY <3>4
      <4> HIDE DEF f
      <4> QED
        BY <4>1, <4>2, <4>3 DEF Injection, IsInjective, Surjection
    <3> HIDE DEF f, Failed
    <3> QED
      BY <2>2, <3>5, FS_Injection
  <2>8. Report(graph) = [total_loops          |-> Latest,
                      runs_with_score_1    |-> Latest - Cardinality(Failed),
                      runs_with_score_lt_1 |-> Cardinality(Failed),
                      executor_failures    |-> Cardinality(Failed)]
    <3>1. Report(graph) = [total_loops          |-> Cardinality(Loops(graph)),
                        runs_with_score_1    |-> Cardinality(Judged({"finish"})),
                        runs_with_score_lt_1 |-> Cardinality(Loops(graph))
                                                  - Cardinality(Judged({"finish", "none"})),
                        executor_failures    |-> Cardinality(Failures)]
      BY DEF Report
    <3>2. Cardinality(Judged({"finish"})) = Latest - Cardinality(Failed)
      <4>1. Cardinality(Judged({"finish"})) = Cardinality(Passed)
        BY <2>6
      <4> QED
        BY <2>3, <4>1
    <3>3. Cardinality(Judged({"finish", "none"})) = Latest - Cardinality(Failed)
      <4>1. Cardinality(Judged({"finish", "none"})) = Cardinality(Passed)
        BY <2>6
      <4> QED
        BY <2>3, <4>1
    <3> HIDE DEF Judged, Failures, Failed
    <3>4. PICK c : c = Cardinality(Failed)
      OBVIOUS
    <3>5. Latest - (Latest - c) = c
      BY <2>2, <3>4
    <3> QED
      BY <2>5, <2>7, <3>1, <3>2, <3>3, <3>4, <3>5
  <2>9. ASSUME NEW n \in DOMAIN runs, NEW k \in DOMAIN runs
        PROVE  Compare(graph, <<"loop", n>>, <<"loop", k>>).score_delta
                 = (IF Done(k) THEN 2 ELSE 0) - (IF Done(n) THEN 2 ELSE 0)
    <3>1. /\ ScoreOf(graph, <<"loop", n>>) = IF Done(n) THEN 2 ELSE 0
          /\ ScoreOf(graph, <<"loop", k>>) = IF Done(k) THEN 2 ELSE 0
      BY <1>2, ScoreFound
    <3>2. Compare(graph, <<"loop", n>>, <<"loop", k>>).score_delta
            = ScoreOf(graph, <<"loop", k>>) - ScoreOf(graph, <<"loop", n>>)
      BY DEF Compare
    <3> QED
      BY <3>1, <3>2
  <2> QED
    BY <2>8, <2>9
<1> QED
  BY <1>1, <1>2, Zenon DEF ReportTellsOutcome

-----------------------------------------------------------------------------
(* The inductive invariant: the records of the runs say what the graph,    *)
(* the events, the ledger and the log may hold, and none of those four     *)
(* needs another.                                                          *)
DiskInv == RunsInv /\ SessionsInv /\ LegibleRuns /\ LedgerInv /\ EventsInv /\ GraphInv /\ LinesInv

LEMMA InitDiskInv == ProvenanceInit => DiskInv
<1> SUFFICES ASSUME ProvenanceInit PROVE DiskInv
  OBVIOUS
<1>1. /\ runs = << >> /\ cursor = 1 /\ pending = {} /\ graph = NoGraph
      /\ eventStore = << >> /\ ledger = {} /\ saved = {} /\ torn = FALSE /\ runLog = << >>
      /\ sessions = {}
  BY DEF ProvenanceInit
<1>2. DOMAIN runs = {} /\ Latest = 0 /\ runs \in Seq(RunRecords)
  BY <1>1, EmptySeq DEF Latest
<1>3. \A p \in Phases : ~Running(p)
  BY <1>2 DEF Running
<1>4. ~Running("store") /\ ~Running("log") /\ ~Running("events") /\ ~Running("saving")
  BY <1>3 DEF Phases
<1>5. RunsInv
  BY <1>1, <1>2 DEF RunsInv, RunFacts
<1>6. LedgerInv
  BY <1>1, <1>2, <1>4 DEF LedgerInv
<1>7. EventsInv
  <2>1. eventStore \in Seq(EventRows) /\ DOMAIN eventStore = {}
    BY <1>1, EmptySeq
  <2> QED
    BY <1>2, <1>4, <2>1 DEF EventsInv
<1>8. GraphInv
  BY <1>1, <1>2, <1>4 DEF GraphInv, ProjectionFacts, HoldsRuns, NoGraph
<1>9. LinesInv
  <2>1. Complete = {}
    BY <1>1, EmptySeq DEF Complete
  <2> QED
    BY <1>2, <2>1 DEF LinesInv
<1>11. SessionsInv
  BY <1>1, EmptySeq DEF SessionsInv
<1>10. LegibleRuns
  BY <1>2 DEF LegibleRuns
<1> QED
  BY <1>5, <1>6, <1>7, <1>8, <1>9, <1>10, <1>11 DEF DiskInv

(* What a process finds on disk is what the runs before it left there,     *)
(* wherever they ended: composition/sandbox/runs, any number of processes. *)
THEOREM DiskAlwaysAccountedFor == ProvenanceSpec => []DiskInv
<1>1. ProvenanceInit => DiskInv
  BY InitDiskInv
<1>2. DiskInv /\ [ProvenanceNext]_provenanceVars => DiskInv'
  BY StepRunsInv, StepSessionsInv, StepLegible, StepLedgerInv, StepEventsInv, StepGraphInv,
     StepLinesInv DEF DiskInv
<1> QED
  BY <1>1, <1>2, PTL DEF ProvenanceSpec

(* The graph store holds what was projected and nothing else, whole for    *)
(* each run whose process got past storing it: store_loop_graph's MERGE    *)
(* statements, interrupted anywhere and repeated by later runs.            *)
THEOREM GraphAlwaysProjection == ProvenanceSpec => []GraphIsProjection
<1>1. ASSUME DiskInv PROVE GraphIsProjection
  <2>1. HoldsRuns(graph)
    BY <1>1 DEF DiskInv, GraphInv
  <2>2. graph.vertices \subseteq UNION {Range(runs[n].graph.vertices) : n \in DOMAIN runs}
    BY <2>1 DEF HoldsRuns
  <2>3. graph.edges \subseteq UNION {Range(runs[n].graph.edges) : n \in DOMAIN runs}
    BY <2>1 DEF HoldsRuns
  <2> DEFINE all == [n \in DOMAIN runs |-> [vertices |-> Range(runs[n].graph.vertices),
                                            edges    |-> Range(runs[n].graph.edges)]]
  <2>4. \A n \in DOMAIN runs : /\ all[n].vertices = Range(runs[n].graph.vertices)
                               /\ all[n].edges = Range(runs[n].graph.edges)
    OBVIOUS
  <2>5. \A n \in DOMAIN runs :
          Stored(n) => all[n].vertices \subseteq graph.vertices /\ all[n].edges \subseteq graph.edges
    BY <2>1, <2>4 DEF HoldsRuns
  <2> HIDE DEF all
  <2>6. graph.vertices \subseteq UNION {all[n].vertices : n \in DOMAIN runs}
    BY <2>2, <2>4
  <2>7. graph.edges \subseteq UNION {all[n].edges : n \in DOMAIN runs}
    BY <2>3, <2>4
  <2> QED
    BY <2>5, <2>6, <2>7 DEF GraphIsProjection, all
<1> QED
  BY <1>1, DiskAlwaysAccountedFor, PTL

(* Events are on record only for runs whose graph is, each after the one   *)
(* that caused it, all of a run's or none once its process moved on:       *)
(* emit_trajectory_events and the store's skipping of ids it has.          *)
THEOREM EventsAlwaysFollowGraph == ProvenanceSpec => []EventsFollowGraph
<1>1. ASSUME DiskInv PROVE EventsFollowGraph
  BY <1>1 DEF DiskInv, EventsInv, EventsFollowGraph
<1> QED
  BY <1>1, DiskAlwaysAccountedFor, PTL

(* Entries of the ratchet are of failed runs on record, a failed run that  *)
(* came to its end has one, and only a save that was cut off loses any:    *)
(* RatchetLedger's load, append and save, which writes the file anew.      *)
THEOREM LedgerAlwaysTellsFailures == ProvenanceSpec => []LedgerTellsFailures
<1>1. ASSUME DiskInv PROVE LedgerTellsFailures
  BY <1>1 DEF DiskInv, LedgerInv, LedgerTellsFailures
<1> QED
  BY <1>1, DiskAlwaysAccountedFor, PTL

(* However storing was cut off, no run that did not pass counts as passed, *)
(* and the counts are exact when every run was stored with its trajectory: *)
(* ReportReader.read and the score of SandboxRunDiff.                      *)
THEOREM ReportAlwaysTellsOutcome == ProvenanceSpec => []ReportTellsOutcome
<1>1. ASSUME DiskInv PROVE ReportTellsOutcome
  BY <1>1, ReportRight DEF DiskInv, ReadersInv
<1> QED
  BY <1>1, DiskAlwaysAccountedFor, PTL

(* SandboxRecommender over what any history of runs and crashes left: the  *)
(* gate is called safe, a model stable, the ratchet pointed to and a model *)
(* called the only one tested only when it is so, and a failed run that is *)
(* stored is never missed.  A model is told by the session_start lines,    *)
(* which is why sessions of two models must not have shared a log file.    *)
THEOREM RecommendationsAlwaysHold == ProvenanceSpec => []RecommendationsHold
<1>1. ASSUME DiskInv PROVE RecommendationsHold
  BY <1>1, RecommendationsRight DEF DiskInv, ReadersInv
<1> QED
  BY <1>1, DiskAlwaysAccountedFor, PTL
=============================================================================
