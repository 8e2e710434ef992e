------------------------------ MODULE EventLog ------------------------------
(***************************************************************************)
(* The append-only event log behind the EventStore port: EventStoreImpl    *)
(* over an EventLogBackend (InMemoryEventLog or SQLiteEventLog).           *)
(*                                                                         *)
(* The log is a sequence of rows in append (rowid) order.  A row is a      *)
(* record with at least the fields id, run and ts (timestamp_ns); what     *)
(* else it carries is the caller's.  Both backends read the same way,      *)
(* all rows or those of one run: a set of positions, in reading order.     *)
(***************************************************************************)
EXTENDS Naturals, Sequences, SequencesExt, FiniteSets

IdsIn(log) == {log[i].id : i \in DOMAIN log}

(* append_row / INSERT OR IGNORE: a row whose id is already there is       *)
(* silently dropped, whatever its payload.                                 *)
AppendRow(log, row) ==
  IF row.id \in IdsIn(log) THEN log ELSE Append(log, row)

(* iter_rows sorts by timestamp_ns, ties in append order: the row at j is  *)
(* read before the row at i.                                               *)
Earlier(log, j, i) ==
  \/ log[j].ts < log[i].ts
  \/ log[j].ts = log[i].ts /\ j < i

(* Where the rows at some positions come in that order, and the rows read. *)
Place(log, at, i) == Cardinality({j \in at : Earlier(log, j, i)}) + 1

Listing(log, at) == [k \in 1 .. Cardinality(at) |-> CHOOSE i \in at : Place(log, at, i) = k]

IterRows(log, at) == [k \in 1 .. Cardinality(at) |-> log[Listing(log, at)[k]]]
=============================================================================
