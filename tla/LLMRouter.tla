----------------------------- MODULE LLMRouter ------------------------------
(***************************************************************************)
(* LLMRouter.route_with_fallback over a ModelRegistry and the health of    *)
(* the providers: the models are put in order once, when the route begins; *)
(* each is tried until it serves or its retries are used up; health is     *)
(* updated once per model tried.  A route is sequential and the router has *)
(* no other thread, so the interleaving is between what the providers do   *)
(* and the order of routes and registrations.                              *)
(*                                                                         *)
(* A provider call that raises and one that returns nothing are handled    *)
(* alike and are one event here, a call that fails.                        *)
(***************************************************************************)
EXTENDS Integers, Sequences, FiniteSets, SequencesExt

CONSTANTS
  Models,
  ProviderOf,    (* ProviderOf[m]: provider_id                             *)
  Capabilities,  (* Capabilities[m]: what m can do                         *)
  Cost,          (* Cost[m]: input plus output cost per 1M tokens          *)
  Wired,         (* the providers the router was given                     *)
  Stages,
  Preference,    (* Preference[s]: _stage_preference, or NoPreference      *)
  NoPreference,
  Requirements,  (* the sets of capabilities that requests require         *)
  NoModel,
  MaxFailures,   (* max_failures                                           *)
  MaxRetries     (* max_retries                                            *)

ASSUME ModelAssumption ==
  /\ IsFiniteSet(Models)
  /\ NoModel \notin Models
  /\ DOMAIN ProviderOf = Models
  /\ DOMAIN Capabilities = Models
  /\ Cost \in [Models -> Nat]
  /\ DOMAIN Preference = Stages
ASSUME LimitAssumption ==
  /\ MaxFailures \in Nat \ {0}
  /\ MaxRetries \in Nat

VARIABLES
  registry,  (* ModelRegistry: the models in the order of its dict         *)
  failures,  (* failures[p]: consecutive_failures of ProviderHealth        *)
  phase,     (* "idle", or "calling" while a provider call is out          *)
  queue,     (* the rest of the ordered models; the head is being tried    *)
  attempt,   (* index of the current try of the head                       *)
  tried,     (* RoutingResult.attempts so far, with the model              *)
  outcome,   (* how the last route ended                                   *)
  request,   (* ghost: what the route was asked for                        *)
  before,    (* ghost: failures when the route began                       *)
  calls      (* ghost: provider calls of the route that have ended         *)

routeVars == <<phase, queue, attempt, tried, outcome, request, before, calls>>
routerVars == <<registry, failures, phase, queue, attempt, tried, outcome, request, before, calls>>

Requests == [stage : Stages, needs : Requirements]
Registered == ToSet(registry)

RouterInit ==
  /\ registry = << >>
  /\ failures = [p \in Wired |-> 0]
  /\ phase = "idle"
  /\ queue = << >>
  /\ attempt = 0
  /\ tried = << >>
  /\ outcome = [kind |-> "none", model |-> NoModel]
  /\ request \in Requests
  /\ before = failures
  /\ calls = 0

-----------------------------------------------------------------------------
(* Selection: _ordered_healthy_models.                                     *)

Capable(req) == {m \in Registered : req.needs \subseteq Capabilities[m]}

IsHealthy(h, p) == h[p] < MaxFailures

(* Mutant: health is not looked at.                                        *)
CandidatesUnfiltered(req, h) == Capable(req)

Candidates(req, h) == {m \in Capable(req) : IsHealthy(h, ProviderOf[m])}

(* The models with the capability the stage prefers, if there are any.     *)
Preferred(req, S) ==
  LET best == {m \in S : Preference[req.stage] \in Capabilities[m]}
  IN  IF Preference[req.stage] # NoPreference /\ best # {} THEN best ELSE S

(* models.sort: by cost; ties stay in the order of the registry.           *)
(* Mutant: the registry's order is kept.                                   *)
GoesBeforeUnsorted(m, k) ==
  \E i, j \in DOMAIN registry : i < j /\ registry[i] = m /\ registry[j] = k

GoesBefore(m, k) ==
  \/ Cost[m] < Cost[k]
  \/ /\ Cost[m] = Cost[k]
     /\ \E i, j \in DOMAIN registry : i < j /\ registry[i] = m /\ registry[j] = k

Orderings(S) ==
  {s \in [1 .. Cardinality(S) -> S] :
     \A i, j \in 1 .. Cardinality(S) : i < j => GoesBefore(s[i], s[j])}

OrderedHealthyModels(req) == Orderings(Preferred(req, Candidates(req, failures)))

(* The health of a provider the router was not given is a KeyError.        *)
Misconfigured(req) == \E m \in Capable(req) : ProviderOf[m] \notin Wired

-----------------------------------------------------------------------------
(* ModelRegistry.register, between routes.                                 *)
Register(m) ==
  /\ phase = "idle"
  /\ m \notin Registered
  /\ registry' = Append(registry, m)
  /\ UNCHANGED <<failures, routeVars>>

Ends(kind, model) ==
  /\ phase' = "idle"
  /\ queue' = << >>
  /\ attempt' = 0
  /\ outcome' = [kind |-> kind, model |-> model]

(* route_with_fallback raises before it tries anything.                    *)
RouteRaises(req) ==
  /\ phase = "idle"
  /\ Misconfigured(req)
  /\ Ends("raised", NoModel)
  /\ tried' = << >>
  /\ request' = req
  /\ before' = failures
  /\ calls' = 0
  /\ UNCHANGED <<registry, failures>>

(* It computes the order and calls the first provider, if there is one.    *)
RouteBegins(req) ==
  /\ phase = "idle"
  /\ ~Misconfigured(req)
  /\ \E order \in OrderedHealthyModels(req) :
       IF order = << >>
       THEN Ends("exhausted", NoModel)
       ELSE /\ phase' = "calling"
            /\ queue' = order
            /\ attempt' = 0
            /\ outcome' = [kind |-> "none", model |-> NoModel]
  /\ tried' = << >>
  /\ request' = req
  /\ before' = failures
  /\ calls' = 0
  /\ UNCHANGED <<registry, failures>>

(* The call succeeds: _mark_success, RoutingResult.                        *)
CallServes ==
  /\ phase = "calling"
  /\ LET m == Head(queue)
     IN  /\ failures' = [failures EXCEPT ![ProviderOf[m]] = 0]
         /\ tried' = Append(tried, [model |-> m, ok |-> TRUE])
         /\ Ends("served", m)
  /\ calls' = calls + 1
  /\ UNCHANGED <<registry, request, before>>

(* The call fails and retries are left: back off and call again.           *)
(* Mutants: the count starts over at the last retry; every failed call     *)
(* marks the health.                                                       *)
CallFailsWraps ==
  /\ phase = "calling"
  /\ attempt' = (attempt + 1) % (MaxRetries + 1)
  /\ UNCHANGED <<registry, failures, phase, queue, tried, outcome, request, before, calls>>

CallFailsMarksHealth ==
  /\ phase = "calling"
  /\ attempt < MaxRetries
  /\ attempt' = attempt + 1
  /\ calls' = calls + 1
  /\ failures' = [failures EXCEPT ![ProviderOf[Head(queue)]] = @ + 1]
  /\ UNCHANGED <<registry, phase, queue, tried, outcome, request, before>>

CallFails ==
  /\ phase = "calling"
  /\ attempt < MaxRetries
  /\ attempt' = attempt + 1
  /\ calls' = calls + 1
  /\ UNCHANGED <<registry, failures, phase, queue, tried, outcome, request, before>>

(* The last retry fails: _mark_failure, and fall back to the next model.   *)
(* Mutant: the loop is range(max_retries).                                 *)
ModelFailsEarly ==
  /\ phase = "calling"
  /\ attempt + 1 >= MaxRetries
  /\ LET m == Head(queue)
     IN  /\ failures' = [failures EXCEPT ![ProviderOf[m]] = @ + 1]
         /\ tried' = Append(tried, [model |-> m, ok |-> FALSE])
  /\ IF Len(queue) = 1
     THEN Ends("exhausted", NoModel)
     ELSE /\ queue' = Tail(queue)
          /\ attempt' = 0
          /\ UNCHANGED <<phase, outcome>>
  /\ calls' = calls + 1
  /\ UNCHANGED <<registry, request, before>>

ModelFails ==
  /\ phase = "calling"
  /\ attempt = MaxRetries
  /\ LET m == Head(queue)
     IN  /\ failures' = [failures EXCEPT ![ProviderOf[m]] = @ + 1]
         /\ tried' = Append(tried, [model |-> m, ok |-> FALSE])
  /\ IF Len(queue) = 1
     THEN Ends("exhausted", NoModel)
     ELSE /\ queue' = Tail(queue)
          /\ attempt' = 0
          /\ UNCHANGED <<phase, outcome>>
  /\ calls' = calls + 1
  /\ UNCHANGED <<registry, request, before>>

CallReturns == CallServes \/ CallFails \/ ModelFails

RouterNext ==
  \/ \E m \in Models : Register(m)
  \/ \E req \in Requests : RouteBegins(req) \/ RouteRaises(req)
  \/ CallReturns

RouterSpec == RouterInit /\ [][RouterNext]_routerVars

(* complete returns or raises in the end, as the loop relies on: nothing   *)
(* enforces per_call_timeout.  Every kind of request keeps coming.         *)
FairRouterSpec ==
  /\ RouterSpec
  /\ WF_routerVars(CallReturns)
  /\ \A req \in Requests : SF_routerVars(RouteBegins(req))

-----------------------------------------------------------------------------
(* Properties.                                                             *)

Tries == [model : Models, ok : BOOLEAN]
Outcomes == [kind : {"none", "served", "exhausted", "raised"}, model : Models \cup {NoModel}]

(* Types; a route in progress always has a model to try.                   *)
RouterTypeOK ==
  /\ registry \in Seq(Models)
  /\ failures \in [Wired -> Nat]
  /\ before \in [Wired -> Nat]
  /\ phase \in {"idle", "calling"}
  /\ queue \in Seq(Models)
  /\ phase = "calling" <=> queue # << >>
  /\ attempt \in 0 .. MaxRetries
  /\ tried \in Seq(Tries)
  /\ outcome \in Outcomes
  /\ calls \in Nat

FailedTries(p) ==
  Cardinality({k \in DOMAIN tried : ~tried[k].ok /\ ProviderOf[tried[k].model] = p})

Served(p) == \E k \in DOMAIN tried : tried[k].ok /\ ProviderOf[tried[k].model] = p

(* During and after a route a provider's consecutive failures are those it *)
(* had before plus one per model of it that failed, or 0 if it served: the *)
(* retries of one model count once (_attempt_with_retries).                *)
HealthMatchesTries ==
  \A p \in Wired :
    failures[p] = IF Served(p) THEN 0 ELSE before[p] + FailedTries(p)

(* A provider that was unhealthy when the route began is not called, and   *)
(* one that became so within the route only for the models of it that were *)
(* ordered before: so its failures stay below max_failures plus its number *)
(* of models.  "The provider is marked unhealthy and the next healthy      *)
(* model is tried" does not allow the latter (see the findings): this is   *)
(* how far the code goes beyond it.                                        *)
FailuresBounded ==
  \A p \in Wired :
    /\ failures[p] < MaxFailures + Cardinality({m \in Models : ProviderOf[m] = p})
    /\ FailedTries(p) > 0 => before[p] < MaxFailures

(* Fallback only after the last retry: every model given up on has had     *)
(* exactly max_retries + 1 calls, and the one that served no more.         *)
RetriesBeforeFallback ==
  LET spent == (MaxRetries + 1) * Cardinality({k \in DOMAIN tried : ~tried[k].ok})
  IN  IF outcome.kind = "served"
      THEN calls - spent \in 1 .. MaxRetries + 1
      ELSE calls = spent + attempt

(* "Selects the cheapest healthy": what serves a route is a capable model, *)
(* and whatever is cheaper, capable, preferred by the stage and healthy    *)
(* when the route began was tried before and failed.                       *)
CheapestServes ==
  [][phase = "calling" /\ outcome'.kind = "served" =>
       LET eligible == Preferred(request, Candidates(request, before))
       IN  /\ outcome'.model \in eligible
           /\ \A m \in eligible :
                Cost[m] < Cost[outcome'.model] =>
                  \E k \in DOMAIN tried : tried[k] = [model |-> m, ok |-> FALSE]]_routerVars

(* Every route ends, if every provider call does.                          *)
RouteEnds == phase = "calling" ~> phase = "idle"

(* "ProviderHealth tracks consecutive failures per provider so degraded    *)
(* providers are temporarily skipped by selection": one that is skipped is *)
(* called again some day.  It never is (see the findings).                 *)
SkippedOnlyTemporarily ==
  \A p \in Wired :
    ~IsHealthy(failures, p) ~> (phase = "calling" /\ ProviderOf[Head(queue)] = p)
=============================================================================
