------------------------------ MODULE ForkPort ------------------------------
(***************************************************************************)
(* What the ForkEngine port promises, however a fork is made: it holds the *)
(* events of its parent run up to the chosen one, as they read at one      *)
(* moment between the call and its return, and from then on it is          *)
(* independent of the parent.                                              *)
(***************************************************************************)
EXTENDS Naturals, Sequences, SequencesExt

CONSTANTS Forks,  (* fork run ids                                          *)
          Points, (* ids of events to fork at, existing or not             *)
          NoPoint (* of a fork nobody has asked for                        *)

VARIABLES parent, (* the parent run's events, in the order they are read   *)
          branch  (* branch[f]: how far the fork is, the event it was      *)
                  (* asked at, and the parent's events it holds            *)

portVars == <<parent, branch>>

NoBranch == [state |-> "none", at |-> NoPoint, events |-> << >>]

(* The events up to and including the first with the id; all of them when  *)
(* none has it.                                                            *)
Prefix(events, at) ==
  LET hits == {i \in DOMAIN events : events[i].id = at}
  IN  IF hits = {} THEN events
      ELSE SubSeq(events, 1, CHOOSE i \in hits : \A j \in hits : i <= j)

Init ==
  /\ parent = << >>
  /\ branch = [f \in Forks |-> NoBranch]

(* The parent run goes on: an event turns up, wherever its timestamp puts  *)
(* it.                                                                     *)
Record ==
  /\ \E i \in DOMAIN parent' : parent = RemoveAt(parent', i)
  /\ UNCHANGED branch

Request(f, at) ==
  /\ branch[f] = NoBranch
  /\ branch' = [branch EXCEPT ![f] = [NoBranch EXCEPT !.state = "requested", !.at = at]]
  /\ UNCHANGED parent

Branch(f) ==
  /\ branch[f].state = "requested"
  /\ branch' = [branch EXCEPT ![f].state = "branched", ![f].events = Prefix(parent, branch[f].at)]
  /\ UNCHANGED parent

Return(f) ==
  /\ branch[f].state = "branched"
  /\ branch' = [branch EXCEPT ![f].state = "done"]
  /\ UNCHANGED parent

Fail(f) ==
  /\ branch[f].state \in {"requested", "branched"}
  /\ branch' = [branch EXCEPT ![f].state = "failed", ![f].events = << >>]
  /\ UNCHANGED parent

Next ==
  \/ Record
  \/ \E f \in Forks :
       \/ \E at \in Points : Request(f, at)
       \/ Branch(f)
       \/ Return(f)
       \/ Fail(f)

Spec == Init /\ [][Next]_portVars
=============================================================================
