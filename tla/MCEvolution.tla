---------------------------- MODULE MCEvolution -----------------------------
(* An instance of Evolution for TLC: every kind of every domain, with      *)
(* knobs that a tool refuses, at, next to and above their caps.            *)
EXTENDS Evolution

MCLimits == {-1, 3}

Of(kind, knobs) == [kind : {kind}, knob : knobs]
MCCandidates ==
  [compiler |-> Of("tile", {0, 32, 252, 300}) \cup Of("unroll", {0, 2, 16})
                  \cup Of("fusion", {1, 4}) \cup Of("interchange", {0}),
   sql |-> Of("add_index", {0, 1, 16, 20}) \cup Of("reorder_joins", {0, 1, 8})
             \cup Of("rewrite_as_join", {2}) \cup Of("replan_query", {0}),
   iac |-> Of("remove_unused", {0}) \cup Of("add_output", {0})
             \cup Of("restructure_dep", {0}) \cup Of("replan_providers", {0}),
   security |-> Of("patch", {0, 1, 64}) \cup Of("add_control", {0, 8})
                  \cup Of("isolate", {0}) \cup Of("quarantine", {0}),
   ml |-> Of("adjust_lr", {64, 3200, 8000}) \cup Of("prune_layer", {0, 32})
            \cup Of("add_regularization", {0}) \cup Of("switch_optimizer", {0}),
   network |-> Of("reroute", {0}) \cup Of("compress", {0, 1})
                 \cup Of("add_cache", {0}) \cup Of("switch_protocol", {0}),
   storage |-> Of("compress", {0, 50, 90, 95}) \cup Of("partition", {1, 2})
                 \cup Of("shard", {2}) \cup Of("reindex", {0}),
   log |-> Of("filter", {0}) \cup Of("aggregate", {0})
             \cup Of("sample", {1, 10, 100}) \cup Of("rotate", {0})]

(* One baseline with room to improve, one that is nearly as good as it     *)
(* gets, so that ties are broken by the later metrics.                     *)
MCBaselines ==
  [compiler |-> {[cycles |-> 96, spills |-> 3, misses |-> 0],
                 [cycles |-> 1, spills |-> 0, misses |-> 5],
                 [cycles |-> 1, spills |-> 2, misses |-> 0]},
   sql |-> {[examined |-> 64, returned |-> 4, time |-> 100],
            [examined |-> 1, returned |-> 1, time |-> 0]},
   iac |-> {[resources |-> 5, variables |-> 1, drift |-> 100],
            [resources |-> 0, variables |-> 0, drift |-> 100]},
   security |-> {[threats |-> 9, risk |-> 80, coverage |-> 60],
                 [threats |-> 0, risk |-> 0, coverage |-> 95]},
   ml |-> {[loss |-> 6400, accuracy |-> 50, epochs |-> 30],
           [loss |-> 0, accuracy |-> 100, epochs |-> 12]},
   network |-> {[latency |-> 100, bandwidth |-> 100, loss |-> 10],
                [latency |-> 0, bandwidth |-> 0, loss |-> 10]},
   storage |-> {[bytes |-> 1000, latency |-> 60], [bytes |-> 0, latency |-> 2]},
   log |-> {[errors |-> 4, volume |-> 100], [errors |-> 0, volume |-> 100]}]
=============================================================================
