---------------------------- MODULE Provenance -----------------------------
(***************************************************************************)
(* What the sandbox command line keeps on disk: composition/sandbox/runs.  *)
(* Each process logs the start of its session, runs one model or one       *)
(* program bench, then stores the loop's graph statement by statement,     *)
(* logs the run, emits its trajectory to the event store and, if the run   *)
(* failed, adds an entry to the ratchet ledger, which is saved by writing  *)
(* the whole file anew.  A process may end at any point, by an exception   *)
(* or killed.                                                              *)
(*                                                                         *)
(* Sessions overlap freely until they have a loop.  The first statement on *)
(* the graph store opens it, and the process that has opened it keeps the  *)
(* store's lock until it ends; opening a locked store raises.              *)
(*                                                                         *)
(* The readers (report, recommender, diff) change nothing: they are        *)
(* operators of LoopGraph over the state a process would find.             *)
(***************************************************************************)
EXTENDS LoopGraph, EventLog

CONSTANTS
  Models,
  LogFiles,    (* the files session loggers open, named by the second      *)
  MaxSessions, (* bound: sessions started                                  *)
  MaxMishaps   (* bound: processes that end early with the store open      *)

ASSUME MaxAssumption == {MaxSessions, MaxMishaps} \subseteq Nat

VARIABLES
  sessions,   (* processes without a loop yet, by the positions of their   *)
              (* session_start lines                                       *)
  runs,       (* what each process that opened the store had produced, how *)
              (* far it got, whether it ended early; the last one may      *)
              (* still be at it                                            *)
  cursor,     (* the next statement or event of that process               *)
  pending,    (* the ledger's entries in the memory of that process        *)
  graph,      (* disk: the graph store                                     *)
  runLog,     (* disk: the session_start and run_complete lines of all log *)
              (* files, in the order of writing                            *)
  eventStore, (* disk: the event store                                     *)
  ledger,     (* disk: the entries of the ratchet file                     *)
  torn,       (* disk: the ratchet file ends in part of a line             *)
  saved,      (* ghost: the entries of every save that finished            *)
  damaged,    (* ghost: a save was cut off                                 *)
  mishaps     (* ghost: processes that ended early with the store open     *)

memory == <<cursor, pending>>
ghosts == <<saved, damaged, mishaps>>
ratchet == <<ledger, torn>>
provenanceVars == <<sessions, runs, memory, graph, runLog, eventStore, ratchet, ghosts>>

ProvenanceInit ==
  /\ sessions = {} /\ runs = << >> /\ cursor = 1 /\ pending = {}
  /\ graph = NoGraph
  /\ runLog = << >>
  /\ eventStore = << >>
  /\ ledger = {} /\ torn = FALSE
  /\ saved = {} /\ damaged = FALSE /\ mishaps = 0

-----------------------------------------------------------------------------
(* The run in memory of the process that has the store open.               *)
Latest == Len(runs)
Running(phase) == Latest > 0 /\ ~runs[Latest].cut /\ runs[Latest].phase = phase
Phases == {"store", "log", "events", "query", "ratchet", "saving"}
Idle == \A p \in Phases : ~Running(p)

Goto(phase) == runs' = [runs EXCEPT ![Latest].phase = phase]

Accepts(loop, es) ==
  \A i \in DOMAIN es : Advances(FoldLeft(Advance, loop, SubSeq(es, 1, i - 1)), es[i])

Passing(verifier) ==
  <<Event("verified", "verifying", verifier), Event("finished", "done", Unnamed)>>
Failing == <<Event("failed", "failed", Unnamed)>>

(* The steps of a run by how it went: the model failed, the executor       *)
(* rejected the candidate, the verifier scored it below 1.0, or passed it. *)
Trajectory(how) ==
  <<"prompt_build", "llm_respond">>
    \o (IF how = "error" THEN <<"failure">>
        ELSE <<"code_extract", "candidate_write", "autofix", "executor_gate">>
             \o (CASE how = "rejected" -> <<"failure">>
                   [] how = "scored"   -> <<"verify", "failure">>
                   [] how = "passed"   -> <<"verify", "finish">>))

(* main: the session's logger opens the file of the second it starts in,   *)
(* so sessions that start together write to one file.  The commands that   *)
(* run no model log one too, of model None, which no reader takes.         *)
Line(kind, of, file) == [kind |-> kind, of |-> of, file |-> file]
Starts == {i \in DOMAIN runLog : runLog[i].kind = "session_start"}

SessionStarts(m, file) ==
  /\ Cardinality(Starts) < MaxSessions
  /\ runLog' = Append(runLog, Line("session_start", m, file))
  /\ sessions' = sessions \cup {Len(runLog) + 1}
  /\ UNCHANGED <<runs, memory, graph, eventStore, ratchet, ghosts>>

(* Session s has a loop and opens the store to write it.                   *)
Produces(s, skills, es, steps, error) ==
  LET loop == Start(Latest + 1, skills)
  IN  /\ Idle
      /\ Accepts(loop, es)
      /\ LET final == FoldLeft(Advance, loop, es)
         IN  runs' = Append(runs, [model |-> runLog[s].of, file |-> runLog[s].file,
                                   state |-> final.state, steps |-> steps,
                                   error |-> error, graph |-> Project(final, steps),
                                   phase |-> "store", cut |-> FALSE])
      /\ sessions' = sessions \ {s}
      /\ cursor' = 1
      /\ UNCHANGED <<pending, graph, runLog, eventStore, ratchet, ghosts>>

RunSingleModel(s, how) ==
  Produces(s, <<"sandbox-cache-task">>,
           IF how = "passed" THEN Passing("sandbox-verifier") ELSE Failing,
           Trajectory(how), how \in {"error", "rejected"})

(* A bench that passes; it has no trajectory.                              *)
RunProgramBench(s) ==
  Produces(s, <<"program-bench">>, Passing("program-bench-parity"), << >>, FALSE)

(* A session that leaves no trace but its line: it raises before it has a  *)
(* loop or when it finds the store locked, its bench fails, or it is       *)
(* killed.                                                                 *)
SessionEnds(s) ==
  /\ sessions' = sessions \ {s}
  /\ UNCHANGED <<runs, memory, graph, runLog, eventStore, ratchet, ghosts>>

-----------------------------------------------------------------------------
(* store_loop_graph                                                        *)
IsBench(n) == runs[n].steps = << >>

StoreStep ==
  LET todo == Writes(runs[Latest].graph)
  IN  /\ Running("store")
      /\ graph' = Store(graph, todo[cursor])
      /\ IF cursor < Len(todo)
         THEN cursor' = cursor + 1 /\ UNCHANGED runs
         ELSE cursor' = 1 /\ Goto(IF IsBench(Latest) THEN "over" ELSE "log")
      /\ UNCHANGED <<sessions, pending, runLog, eventStore, ratchet, ghosts>>

(* The run_complete line; then the events, if there is an event store.     *)
LogComplete ==
  /\ Running("log")
  /\ runLog' = Append(runLog, Line("run_complete", Latest, runs[Latest].file))
  /\ \E next \in {"events", "query"} : Goto(next)
  /\ UNCHANGED <<sessions, memory, graph, eventStore, ratchet, ghosts>>

(* emit_trajectory_events.  Mutant: ids without the run.                  *)
StepEventIdByStep(n, i) == <<0, i>>

StepEventId(n, i) == <<n, i>>

StepEvent(n, i) == [id |-> StepEventId(n, i), run |-> n,
                    cause |-> IF i = 1 THEN << >> ELSE StepEventId(n, i - 1)]

EmitStep ==
  /\ Running("events")
  /\ eventStore' = AppendRow(eventStore, StepEvent(Latest, cursor))
  /\ IF cursor < Len(runs[Latest].steps)
     THEN cursor' = cursor + 1 /\ UNCHANGED runs
     ELSE cursor' = 1 /\ Goto("query")
  /\ UNCHANGED <<sessions, pending, graph, runLog, ratchet, ghosts>>

(* Mutant: only runs with an error get an entry.                           *)
NeedsEntryIfError(n) == runs[n].error

(* The provenance query; then the ratchet, if the run failed.              *)
NeedsEntry(n) == runs[n].state # "done" \/ runs[n].error

Query ==
  /\ Running("query")
  /\ Readable(Neighbours(graph, <<"loop", Latest>>))
  /\ Goto(IF NeedsEntry(Latest) THEN "ratchet" ELSE "over")
  /\ UNCHANGED <<sessions, memory, graph, runLog, eventStore, ratchet, ghosts>>

-----------------------------------------------------------------------------
(* RatchetLedger.load, append and save.  Loading a torn file raises.  A    *)
(* new id is random: it may sort anywhere among the old ones.              *)
OpenLedger(id) ==
  /\ Running("ratchet") /\ ~torn
  /\ id \notin {e.id : e \in ledger}
  /\ pending' = ledger \cup {[id |-> id, run |-> Latest]}
  /\ ledger' = {}
  /\ Goto("saving")
  /\ UNCHANGED <<sessions, cursor, graph, runLog, eventStore, torn, ghosts>>

LoadRaises ==
  /\ Running("ratchet") /\ torn
  /\ runs' = [runs EXCEPT ![Latest].cut = TRUE]
  /\ UNCHANGED <<sessions, memory, graph, runLog, eventStore, ratchet, ghosts>>

WriteLedger ==
  /\ Running("saving")
  /\ ledger' = pending /\ saved' = saved \cup pending
  /\ pending' = {}
  /\ Goto("over")
  /\ UNCHANGED <<sessions, cursor, graph, runLog, eventStore, torn, damaged, mishaps>>

-----------------------------------------------------------------------------
(* The process ends early: a statement or an append raised, or it was      *)
(* killed.  A save that is cut off leaves the first lines, in the order of *)
(* their ids, and perhaps part of the next.                                *)
EndsEarly ==
  /\ ~Idle /\ mishaps < MaxMishaps
  /\ mishaps' = mishaps + 1
  /\ runs' = [runs EXCEPT ![Latest].cut = TRUE]
  /\ pending' = {}
  /\ IF ~Running("saving") THEN UNCHANGED <<ratchet, damaged>>
     ELSE /\ \E k \in {0} \cup {e.id : e \in pending} :
               ledger' = {e \in pending : e.id <= k}
          /\ torn' \in BOOLEAN /\ (torn' => ledger' # pending)
          /\ damaged' = TRUE
  /\ UNCHANGED <<sessions, cursor, graph, runLog, eventStore, saved>>

Session ==
  \/ \E m \in Models, file \in LogFiles : SessionStarts(m, file)
  \/ \E s \in sessions :
       \/ \E how \in {"error", "rejected", "scored", "passed"} : RunSingleModel(s, how)
       \/ RunProgramBench(s)
       \/ SessionEnds(s)

ProvenanceNext ==
  \/ Session
  \/ StoreStep \/ LogComplete \/ EmitStep \/ Query
  \/ \E id \in 1..MaxSessions : OpenLedger(id)
  \/ LoadRaises \/ WriteLedger
  \/ EndsEarly

ProvenanceSpec == ProvenanceInit /\ [][ProvenanceNext]_provenanceVars

-----------------------------------------------------------------------------
(* What the properties speak of.                                           *)
Stored(n) == runs[n].phase # "store"
Done(n) == runs[n].state = "done"
EventsOfRun(n) == {i \in DOMAIN eventStore : eventStore[i].run = n}
LoopsOf(g) == {n \in DOMAIN runs : <<"loop", n>> \in Loops(g)}

(* The model the recommender finds for each run with a run_complete line:  *)
(* that of the last session_start before it in its file.                   *)
Complete == {i \in DOMAIN runLog : runLog[i].kind = "run_complete"}
ModelBefore(i) ==
  LET before == {j \in Starts : j < i /\ runLog[j].file = runLog[i].file}
  IN  runLog[CHOOSE j \in before : \A k \in before : k <= j].of
ModelsFromLogs ==
  [n \in {runLog[i].of : i \in Complete} |->
     ModelBefore(CHOOSE i \in Complete : runLog[i].of = n)]

(* Sessions of two models have written to one file.                        *)
FileShared ==
  \E i, j \in Starts : runLog[i].file = runLog[j].file /\ runLog[i].of # runLog[j].of

(* The store holds what was projected and nothing else, whole for each run *)
(* whose process got past storing it, in part for one that ended early:    *)
(* re-creating shared vertices and the ends of edges by MERGE neither      *)
(* changes a vertex nor leaves one without a kind.                         *)
GraphIsProjection ==
  LET all == [n \in DOMAIN runs |-> [vertices |-> Range(runs[n].graph.vertices),
                                     edges    |-> Range(runs[n].graph.edges)]]
  IN  /\ graph.vertices \subseteq UNION {all[n].vertices : n \in DOMAIN runs}
      /\ graph.edges \subseteq UNION {all[n].edges : n \in DOMAIN runs}
      /\ \A n \in DOMAIN runs : Stored(n) =>
           all[n].vertices \subseteq graph.vertices /\ all[n].edges \subseteq graph.edges

(* The report judges by the last step it finds: however storing was cut    *)
(* off, no run that did not pass counts as passed, and the counts are      *)
(* exact when every run was stored with its trajectory.                    *)
ReportTellsOutcome ==
  /\ \A n \in LoopsOf(graph) :
       LET last == LastKind(graph, <<"loop", n>>)
       IN  (last = "finish" => Done(n)) /\ (last = "failure" => ~Done(n))
  /\ (\A n \in DOMAIN runs : Stored(n) /\ ~IsBench(n)) =>
       LET failed == Cardinality({n \in DOMAIN runs : ~Done(n)})
       IN  /\ Report(graph) = [total_loops          |-> Latest,
                            runs_with_score_1    |-> Latest - failed,
                            runs_with_score_lt_1 |-> failed,
                            executor_failures    |-> failed]
           /\ \A n, k \in DOMAIN runs :
                Compare(graph, <<"loop", n>>, <<"loop", k>>).score_delta
                  = (IF Done(k) THEN 2 ELSE 0) - (IF Done(n) THEN 2 ELSE 0)

(* The recommender, over what any history of runs and crashes left: it     *)
(* calls the gate safe or a model stable only when every run it sees       *)
(* passed, points to the ratchet exactly when a stored run failed, and     *)
(* calls a model the only one tested only when it is, unless sessions of   *)
(* two models shared a log file: then the order of their lines may name    *)
(* the wrong model for a run (see the findings).                           *)
RecommendationsHold ==
  LET found == Recommend(graph, ModelsFromLogs)
  IN  /\ {"model_stable", "executor_gate_safe"} \cap found # {} =>
           \A n \in LoopsOf(graph) : Done(n)
      /\ "failed_run_present" \in found => \E n \in LoopsOf(graph) : ~Done(n)
      /\ "failed_run_present" \notin found => \A n \in DOMAIN runs : Stored(n) => Done(n)
      /\ "undertested_model" \in found /\ ~FileShared =>
           \A n, k \in LoopsOf(graph) : runs[n].model = runs[k].model

(* A run's events are on record only once its graph is, each after the one *)
(* that caused it, and all of them or none once the process has moved on,  *)
(* whatever the runs before it left in the store.                          *)
EventsFollowGraph ==
  /\ \A i \in DOMAIN eventStore :
       /\ Stored(eventStore[i].run)
       /\ eventStore[i].cause # << >> =>
            \E j \in 1..(i - 1) : eventStore[j].id = eventStore[i].cause
  /\ \A n \in DOMAIN runs : runs[n].phase \in {"query", "ratchet", "saving", "over"} =>
       Cardinality(EventsOfRun(n)) \in {0, Len(runs[n].steps)}

(* An entry of the ratchet is of a failed run whose graph is stored, each  *)
(* failed run whose process came to its end has one, and the file loses    *)
(* entries only by a save that was cut off.                                *)
LedgerTellsFailures ==
  /\ \A e \in saved : ~Done(e.run) /\ Stored(e.run)
  /\ \A n \in DOMAIN runs :
       runs[n].phase = "over" /\ ~Done(n) => \E e \in saved : e.run = n
  /\ torn => damaged
  /\ ~damaged /\ ~Running("saving") => ledger = saved

=============================================================================
