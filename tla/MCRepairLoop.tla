---------------------------- MODULE MCRepairLoop ----------------------------
(* Two goals, one of which a second node may repeat, two claims that may   *)
(* stand between evidence and a goal, and an explicit gap.                 *)
EXTENDS RepairLoop, TLC

CONSTANTS g, h, again, c, d, ev, hole, gid, hid, cid, did, eid, oid

MCNodes == {g, h, again, c, d, ev, hole}
MCIdOf ==
  (g :> gid) @@ (h :> hid) @@ (again :> gid) @@ (c :> cid) @@ (d :> did) @@ (ev :> eid)
    @@ (hole :> oid)
MCKindOf ==
  (g :> "goal") @@ (h :> "goal") @@ (again :> "goal") @@ (c :> "claim") @@ (d :> "claim")
    @@ (ev :> "evidence") @@ (hole :> "gap")

Supports(x, y) == [src |-> x, dst |-> y, kind |-> "supports"]
Contradicts(x, y) == [src |-> x, dst |-> y, kind |-> "contradicts"]

MCGraphs ==
  { [nodes |-> {g}, edges |-> {}],
    [nodes |-> {g, h, d, c}, edges |-> {Supports(cid, gid), Supports(did, cid)}],
    [nodes |-> {g, h, c, ev}, edges |-> {Supports(eid, cid), Contradicts(cid, gid)}],
    [nodes |-> {g, ev, hole}, edges |-> {Supports(eid, gid)}] }

MCPatches ==
  { [nodes |-> {ev}, edges |-> {Supports(eid, gid)}],
    [nodes |-> {ev}, edges |-> {}],
    [nodes |-> {ev, d}, edges |-> {Supports(eid, did)}],
    [nodes |-> {c}, edges |-> {Supports(cid, hid)}],
    [nodes |-> {ev, h}, edges |-> {Supports(eid, hid), Contradicts(eid, gid)}],
    [nodes |-> {h}, edges |-> {Supports(hid, gid), Supports(eid, hid)}],
    [nodes |-> {again}, edges |-> {}],
    [nodes |-> {d}, edges |-> {Supports(did, did)}] }
=============================================================================
