--------------------------- MODULE MCFitnessLoop ---------------------------
(* Instances of FitnessLoop for TLC. *)
EXTENDS FitnessLoop, TLC

Model(tier, cost, quality) ==
    [tier |-> tier, cost |-> cost, tools |-> TRUE, thinking |-> FALSE,
     provider |-> "anthropic", quality |-> quality]
MCCatalog ==
    ("opus" :> Model(1, 450, "debugging" :> 94)) @@ ("sonnet" :> Model(2, 90, "debugging" :> 72))
MCModels == <<"opus", "sonnet">>
MCTasks == <<"debugging">>

Tiers(mid) == [high |-> "opus", mid |-> mid, low |-> "sonnet"]
MCTiers == {Tiers("sonnet"), Tiers("opus")}
MCPolicies ==
    {[version |-> 1, rules |-> <<
        [task |-> "debugging", criteria |-> "quality", minQuality |-> 90, maxCost |-> 100,
         maxLatency |-> NoLimit, fallback |-> "sonnet"]>>]}
MCMeasurements ==
    {[model |-> "sonnet", task |-> "debugging", quality |-> q, cost |-> 7,
      latency |-> 900, samples |-> 3] : q \in {60, 88}}
MCFeedbacks == {{}, {[model |-> "sonnet", task |-> "debugging", delta |-> -40, count |-> 25]}}
=============================================================================
