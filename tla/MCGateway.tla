----------------------------- MODULE MCGateway -----------------------------
(* Instances of Gateway for TLC. *)
EXTENDS Gateway, TLC

Model(tier, cost, tools, provider, quality) ==
    [tier |-> tier, cost |-> cost, tools |-> tools, thinking |-> tier < 3,
     provider |-> provider, quality |-> quality]
MCCatalog ==
    [m \in {"claude-opus-4-6", "sonnet", "gemma"} |->
       CASE m = "claude-opus-4-6" -> Model(1, 450, TRUE, "anthropic", ("debugging" :> 94))
         [] m = "sonnet" -> Model(2, 90, TRUE, "anthropic", ("debugging" :> 72))
         [] m = "gemma" -> Model(3, 1, FALSE, "google",
                                 ("debugging" :> 28 @@ "summarization" :> 65))]
MCModels == <<"claude-opus-4-6", "sonnet", "gemma">>
MCTasks == <<"debugging", "summarization", "conversation">>

\* The matrix with one measurement.
Measured == [model |-> "sonnet", task |-> "debugging", quality |-> 80, cost |-> 7,
             latency |-> 900, samples |-> 3]
MCMatrices == {MergeFitness(GenerateSynthetic, {Measured})}
MCPolicies ==
    {BootstrapPolicy([high |-> "claude-opus-4-6", mid |-> "sonnet", low |-> "gemma"], TRUE),
     [version |-> 1, rules |-> <<
        [task |-> "debugging", criteria |-> "quality", minQuality |-> 90, maxCost |-> 100,
         maxLatency |-> NoLimit, fallback |-> "gemma"]>>]}

Profile(endpoint, tools, session, model) ==
    [endpoint |-> endpoint, tools |-> tools, forced |-> NoModel,
     plan |-> FALSE, session |-> session, model |-> model]
MCProfiles ==
    {Profile("chat", FALSE, NoSession, "sonnet"),
     Profile("messages", TRUE, "s1", "claude-opus-4-6"),
     [Profile("messages", FALSE, NoSession, "sonnet") EXCEPT !.forced = "gemma"],
     [Profile("chat", FALSE, NoSession, "gemma") EXCEPT !.plan = TRUE]}
MCAnswers == {[task |-> "debugging", confidence |-> 90],
              [task |-> "summarization", confidence |-> 60],
              [task |-> "conversation", confidence |-> 20]}
MCUpstreams == {{}, {{}}, {{"claude-opus-4-6", "gemma"}}}
=============================================================================
