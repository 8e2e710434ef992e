----------------------------- MODULE ForkReplay -----------------------------
(***************************************************************************)
(* Forks of a run over the shared event store, and what reads them back:   *)
(* NativeForkEngine.fork, AsyncForkEngine (fork in a pool thread, several  *)
(* at once) and NativeReplayEngine in strict mode.                         *)
(*                                                                         *)
(* A fork reads the parent run as a list, then appends a copy of each      *)
(* event under the new run id, one append at a time.  Other forks, the     *)
(* parent run and the runs that continue finished forks append meanwhile:  *)
(* from other threads over the in-memory log, from other processes over    *)
(* the SQLite file.  Every writer numbers timestamps with a counter of its *)
(* own, so a later event may read as an earlier one.                       *)
(***************************************************************************)
EXTENDS EventLog, FiniteSets

CONSTANTS
  Parent,          (* the run that is forked                               *)
  Forks,           (* fork run ids; uuids are taken as distinct            *)
  Missing,         (* an event id the parent does not have                 *)
  Timestamps,      (* timestamps the writers use                           *)
  Vertices,
  NoVertex,        (* what an event writes that adds an edge               *)
  ParentRun,       (* the payloads the parent run appends, in this order:  *)
                   (* [vertex, data], what the event writes                *)
  Continuation,    (* the payloads a run appends that takes a fork on      *)
  MaxFailures      (* bound: appends the store fails                       *)

Payloads == Range(ParentRun) \cup Range(Continuation)

ASSUME RunAssumption == Parent \notin Forks /\ Timestamps \subseteq Nat
ASSUME IdAssumption == "new" \notin Forks \cup {Parent}
ASSUME PayloadAssumption ==
  /\ ParentRun \in Seq(Payloads)
  /\ Continuation \in Seq(Payloads)
  /\ \A p \in Payloads : p.data # "absent"
ASSUME BoundAssumption == MaxFailures \in Nat

VARIABLES
  backend,   (* "memory" or "sqlite"                                       *)
  log,       (* the store's rows, in append order                          *)
  job,       (* job[f]: the call of fork that makes run f                  *)
  failures   (* appends failed so far                                      *)

vars == <<backend, log, job, failures>>

Points == {<<Parent, n>> : n \in DOMAIN ParentRun} \cup {Missing}

NoJob == [pc |-> "none", at |-> Missing, pooled |-> FALSE, prefix |-> << >>, copied |-> 0]

Init ==
  /\ backend \in {"memory", "sqlite"}
  /\ log = << >>
  /\ job = [f \in Forks |-> NoJob]
  /\ failures = 0

-----------------------------------------------------------------------------
(* Reading.                                                                *)

(* iter_rows(run): the rows of one run, by timestamp, then append order.   *)
EventsOf(run) == IterRows(log, {i \in DOMAIN log : log[i].run = run})

(* The list fork builds: up to the event, or everything.                   *)
(* Mutant: the loop breaks before the event is on the list.                *)
PrefixExclusive(events, at) ==
  LET hits == {i \in DOMAIN events : events[i].id = at}
  IN  IF hits = {} THEN events
      ELSE SubSeq(events, 1, (CHOOSE i \in hits : \A j \in hits : i <= j) - 1)

Prefix(events, at) ==
  LET hits == {i \in DOMAIN events : events[i].id = at}
  IN  IF hits = {} THEN events
      ELSE SubSeq(events, 1, CHOOSE i \in hits : \A j \in hits : i <= j)

(* Mutant: the copy keeps its run.                                         *)
CopyKeepsRun(f, event) == [event EXCEPT !.id = <<f, @>>]

(* f"{fork_run_id}/{event.id}", everything else but the run as it was.     *)
Copy(f, event) == [event EXCEPT !.id = <<f, @>>, !.run = f]

CountOf(run) == Cardinality({i \in DOMAIN log : log[i].run = run})
Continuations(f) == {i \in DOMAIN log : log[i].run = f /\ log[i].id[1] = "new"}

-----------------------------------------------------------------------------
(* The parent run goes on.                                                 *)
AppendParent(ts) ==
  LET n == CountOf(Parent) + 1
  IN  /\ n <= Len(ParentRun)
      /\ log' = AppendRow(log, [id |-> <<Parent, n>>, run |-> Parent, ts |-> ts,
                                pay |-> ParentRun[n]])
      /\ UNCHANGED <<backend, job, failures>>

(* fork, or fork_async, which hands it to a thread of the pool; over the   *)
(* in-memory log only threads share the store.                             *)
Request(f, at, pooled) ==
  /\ job[f].pc = "none"
  /\ at \in {e.id : e \in Range(EventsOf(Parent))} \cup {Missing}
  /\ pooled \/ backend = "sqlite"
  /\ job' = [job EXCEPT ![f] = [NoJob EXCEPT !.pc = "requested", !.at = at, !.pooled = pooled]]
  /\ UNCHANGED <<backend, log, failures>>

(* A sqlite3 connection refuses every thread but the one that opened it.   *)
OwnThread(f) == backend = "memory" \/ ~job[f].pooled

ReadPrefix(f) ==
  /\ job[f].pc = "requested"
  /\ OwnThread(f)
  /\ job' = [job EXCEPT ![f].pc = "copying", ![f].prefix = Prefix(EventsOf(Parent), job[f].at)]
  /\ UNCHANGED <<backend, log, failures>>

ReadRaises(f) ==
  /\ job[f].pc = "requested"
  /\ ~OwnThread(f)
  /\ job' = [job EXCEPT ![f].pc = "raised"]
  /\ UNCHANGED <<backend, log, failures>>

Copying(f) == job[f].pc = "copying" /\ job[f].copied < Len(job[f].prefix)

CopyNext(f) ==
  /\ Copying(f)
  /\ log' = AppendRow(log, Copy(f, job[f].prefix[job[f].copied + 1]))
  /\ job' = [job EXCEPT ![f].copied = @ + 1]
  /\ UNCHANGED <<backend, failures>>

(* append_row raises ToolError (a locked or full database), or the process *)
(* is stopped: the copies made so far stay.                                *)
CopyFails(f) ==
  /\ Copying(f)
  /\ backend = "sqlite"
  /\ failures < MaxFailures
  /\ failures' = failures + 1
  /\ job' = [job EXCEPT ![f].pc = "raised"]
  /\ UNCHANGED <<backend, log>>

(* Mutant: the call goes on until it has met the event it was given.       *)
ReturnWaitsForEvent(f) ==
  /\ job[f].pc = "copying"
  /\ job[f].copied = Len(job[f].prefix)
  /\ \E i \in DOMAIN job[f].prefix : job[f].prefix[i].id = job[f].at
  /\ job' = [job EXCEPT ![f].pc = "done"]
  /\ UNCHANGED <<backend, log, failures>>

Return(f) ==
  /\ job[f].pc = "copying"
  /\ job[f].copied = Len(job[f].prefix)
  /\ job' = [job EXCEPT ![f].pc = "done"]
  /\ UNCHANGED <<backend, log, failures>>

(* The caller takes the fork on under its run id.                          *)
Continue(f, ts) ==
  LET n == Cardinality(Continuations(f)) + 1
  IN  /\ job[f].pc = "done"
      /\ n <= Len(Continuation)
      /\ log' = AppendRow(log, [id |-> <<"new", f, n>>, run |-> f, ts |-> ts,
                                pay |-> Continuation[n]])
      /\ UNCHANGED <<backend, job, failures>>

ForkStep(f) == ReadPrefix(f) \/ ReadRaises(f) \/ CopyNext(f) \/ CopyFails(f) \/ Return(f)

Next ==
  \/ \E ts \in Timestamps : AppendParent(ts)
  \/ \E f \in Forks :
       \/ \E at \in Points, pooled \in BOOLEAN : Request(f, at, pooled)
       \/ ForkStep(f)
       \/ \E ts \in Timestamps : Continue(f, ts)

Spec == Init /\ [][Next]_vars

(* The pool runs its threads, a process its calls.                         *)
FairSpec == Spec /\ \A f \in Forks : WF_vars(ForkStep(f))

-----------------------------------------------------------------------------
(* replay(strict): a vertex has the data of the last event that writes it, *)
(* and every event that adds an edge adds one.                             *)
Replayed(events) ==
  LET Writes(v) == {i \in DOMAIN events : events[i].pay.vertex = v}
  IN  [vertices |-> [v \in Vertices |->
                      IF Writes(v) = {} THEN "absent"
                      ELSE events[CHOOSE i \in Writes(v) : \A j \in Writes(v) : j <= i].pay.data],
       edges |-> Cardinality({i \in DOMAIN events : events[i].pay.vertex = NoVertex})]

-----------------------------------------------------------------------------
(* Properties.                                                             *)

(* What the fork run holds of its parent, read back from the store.        *)
Copies(f) ==
  LET copies == IterRows(log, {i \in DOMAIN log : log[i].run = f /\ log[i].id[1] = f})
  IN  [i \in DOMAIN copies |-> [copies[i] EXCEPT !.id = @[2], !.run = Parent]]

(* The call that makes f, as its caller sees it.                           *)
BranchOf(f) ==
  [state |-> CASE job[f].pc = "copying" -> "branched"
               [] job[f].pc = "raised" -> "failed"
               [] OTHER -> job[f].pc,
   at |-> job[f].at,
   events |-> CASE job[f].pc = "copying" -> job[f].prefix
                [] job[f].pc = "done" -> Copies(f)
                [] OTHER -> << >>]

Port ==
  INSTANCE ForkPort WITH
    NoPoint <- Missing,
    parent <- EventsOf(Parent),
    branch <- [f \in Forks |-> BranchOf(f)]

(* Forks implement the port: whatever other forks, the parent run and the  *)
(* runs that continue forks append between two copies and afterwards, what *)
(* a fork holds of its parent reads back as the prefix the parent had at   *)
(* one moment of the call, in the same order.                              *)
ImplementsPort == Port!Spec

(* A finished fork replays to the state its prefix replays to, but for the *)
(* vertices its continuation writes: those have either's data, for the     *)
(* continuation's timestamps may sort before the copies.                   *)
ReplayKeepsPrefix ==
  \A f \in Forks : job[f].pc = "done" =>
    LET was == Replayed(job[f].prefix)
        is == Replayed(EventsOf(f))
        written == {log[i].pay : i \in Continuations(f)}
    IN  /\ \A v \in Vertices :
             is.vertices[v] \in
               IF \E p \in written : p.vertex = v
               THEN {p.data : p \in {q \in written : q.vertex = v}} \cup ({was.vertices[v]} \ {"absent"})
               ELSE {was.vertices[v]}
        /\ is.edges = was.edges + Cardinality({i \in Continuations(f) : log[i].pay.vertex = NoVertex})

(* Every call of fork comes to an end, whatever is appended meanwhile: the *)
(* parent is read once, so a run that keeps growing cannot hold it up.     *)
ForksEnd ==
  \A f \in Forks : job[f].pc = "requested" ~> job[f].pc \in {"done", "raised"}
=============================================================================
