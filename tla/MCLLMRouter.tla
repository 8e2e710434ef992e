---------------------------- MODULE MCLLMRouter -----------------------------
(* Two wired providers, one of them with two models, and a model of a      *)
(* provider the router was not given.                                      *)
EXTENDS LLMRouter

CONSTANTS m1, m2, m3, alien, provA, provB, provC, none

MCModels == {m1, m2, m3, alien}
MCProviderOf == (m1 :> provA) @@ (m2 :> provA) @@ (m3 :> provB) @@ (alien :> provC)
MCCapabilities ==
  (m1 :> {"fast"}) @@ (m2 :> {"fast", "thinking"}) @@ (m3 :> {"fast"}) @@ (alien :> {"vision"})
MCCost == (m1 :> 2) @@ (m2 :> 3) @@ (m3 :> 1) @@ (alien :> 1)
MCWired == {provA, provB}
MCPreference == ("synthesize" :> "thinking") @@ ("default" :> none)
MCStages == {"synthesize", "default"}
MCRequirements == {{}, {"fast"}}
=============================================================================
