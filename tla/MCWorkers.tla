----------------------------- MODULE MCWorkers -----------------------------
(* Background workers, engines and further services that share no state,      *)
(* instantiated together.  Each behaviour is one of the component chosen by   *)
(* `active`, whose fairness is the one its module states.                     *)
EXTENDS Settlement, ConsensusProvider, McpTracing, Alerts, BenchmarkRuns, Governance,
        StreamBridge, Billing, Waste, Budgets, Staking, AgentProof
VARIABLE active

MCDeposit == [v \in Members |-> IF v = "a" THEN 800 ELSE 400]
\* Workflows: a join, one whose sorted order is not its listing, a cycle, a stray name.
MCCost == ("s1" :> 10) @@ ("s2" :> 3) @@ ("s3" :> 7)
MCGraphs == { ("s1" :> {}) @@ ("s2" :> {}) @@ ("s3" :> {"s1", "s2"}),
              ("s1" :> {}) @@ ("s2" :> {"s3"}) @@ ("s3" :> {"s2"}),
              ("s1" :> {"s4"}) }
MCSteps == <<"s1", "s2", "s3">>
Sharing(p, w) == [to |-> p, weight |-> w]
MCSplitRules == {<<Sharing("s1", 2), Sharing("s2", 1)>>, <<Sharing("s2", 1), Sharing("s2", 1)>>, <<>>}
MCBadCalls == {<<4>>}
\* Evaluation set with a repeated prompt and one of a task without a rubric.
MCLines == <<[hash |-> "p", task |-> "debugging"], [hash |-> "p", task |-> "debugging"],
             [hash |-> "q", task |-> "unknown"]>>
MCVerdicts == {<<>>, <<150, 50>>}
MCBenchModels == <<"a", "b">>
MCAmounts == {[tokens |-> 2, cost |-> 2], [tokens |-> 2, cost |-> 3]}
MCCharges == {[tokens |-> 2, cost |-> 3], [tokens |-> 0, cost |-> -2]}
\* The catalog of the program, and matrices that name no model, or one too dear or good.
MCModels ==
    <<"claude-opus-4-20250514", "claude-opus-4-6-20250527", "claude-opus-4-6",
      "claude-opus-4-5-20251101", "claude-opus-4-5",
      "us.anthropic.claude-opus-4-5-20251101-v1:0", "gpt-5.2-chat-latest", "claude-sonnet-4-6",
      "claude-sonnet-4-5-20250929", "claude-sonnet-4-20250514", "gpt-5.2-codex", "gpt-4o",
      "gpt-4-turbo", "qwen.qwen3-vl-235b-a22b", "qwen.qwen3-next-80b-a3b",
      "moonshot.kimi-k2-thinking", "moonshotai.kimi-k2.5", "openai.gpt-oss-120b-1:0",
      "minimax.minimax-m2.1", "claude-haiku-4-5-20251001", "gpt-4o-mini",
      "us.amazon.nova-2-lite-v1:0", "qwen.qwen3-coder-30b-a3b-v1:0", "openai.gpt-oss-20b-1:0",
      "google.gemma-3-27b-it", "google.gemma-3-12b-it", "google.gemma-3-4b-it",
      "mistral.ministral-3-14b-instruct", "mistral.ministral-3-8b-instruct",
      "mistral.ministral-3-3b-instruct">>
MCTasks == <<"debugging", "summarization">>
Row(m, t, q) == [model |-> m, task |-> t, quality |-> q]
Gemma == "google.gemma-3-27b-it"
Sonnet == "claude-sonnet-4-6"
MCEvidence == {<<>>, <<Row(Gemma, "debugging", 86), Row(Sonnet, "debugging", 95)>>,
               <<Row(Gemma, "summarization", 92), Row("gpt-4o", "summarization", 87)>>}
Kind(m, t, a, p, cost) == [model |-> m, task |-> t, args |-> a, prompt |-> p, trace |-> "t",
                           cost |-> cost]
MCCallKinds == {Kind("claude-opus-4-6", "debugging", "a", "p", 40),
                Kind("gpt-5.2-chat-latest", "summarization", "b", "q", 40),
                Kind(Sonnet, "debugging", NoCall, "p", 10)}
\* What an execution pays out, and the fees of the contract.
MCPayouts == {<<<<"a", 1>>>>, <<<<"b", 1>>, <<"b", 1>>>>, <<<<"a", 1>>, <<"b", 1>>>>, <<>>}
MCFees == {<<1, 1>>, <<1, 0>>, <<0, 0>>}

components ==
    <<settleVars, proposalVars, mcpVars, alertVars, benchVars, govVars,
      trustVars, bridgeVars, billingVars, wasteVars, budgetVars,
      stakingVars, revenueVars>>
Init ==
    /\ active \in
        {"workflows", "settlement", "proposals", "mcp", "alerts", "bench",
         "governance", "trust", "bridge", "billing", "waste", "budgets",
         "staking", "revenue"}
    /\ SettlementInit /\ ProposalsInit /\ McpInit /\ AlertsInit /\ BenchInit
    /\ GovInit /\ TrustInit /\ BridgeInit /\ BillingInit /\ WasteInit
    /\ BudgetsInit /\ StakingInit /\ RevenueInit
    /\ active # "governance" => quorum = 3
    /\ active # "settlement" => managed
Next ==
    /\ UNCHANGED active
    /\ \/ /\ active = "workflows" /\ WfNext
          /\ UNCHANGED <<payVars, proposalVars, mcpVars, alertVars, benchVars, govVars, trustVars,
                         bridgeVars, billingVars, wasteVars, budgetVars, stakingVars,
                         revenueVars>>
       \/ /\ active = "settlement" /\ SettlementNext
          /\ UNCHANGED <<wfVars, proposalVars, mcpVars, alertVars, benchVars, govVars, trustVars,
                         bridgeVars, billingVars, wasteVars, budgetVars, stakingVars,
                         revenueVars>>
       \/ /\ active = "proposals" /\ ProposalsNext
          /\ UNCHANGED <<settleVars, mcpVars, alertVars, benchVars, govVars, trustVars,
                         bridgeVars, billingVars, wasteVars, budgetVars, stakingVars,
                         revenueVars>>
       \/ /\ active = "mcp" /\ McpNext
          /\ UNCHANGED <<settleVars, proposalVars, alertVars, benchVars, govVars,
                         trustVars, bridgeVars, billingVars, wasteVars, budgetVars,
                         stakingVars, revenueVars>>
       \/ /\ active = "alerts" /\ AlertsNext
          /\ UNCHANGED <<settleVars, proposalVars, mcpVars, benchVars, govVars, trustVars,
                         bridgeVars, billingVars, wasteVars, budgetVars, stakingVars,
                         revenueVars>>
       \/ /\ active = "bench" /\ BenchNext
          /\ UNCHANGED <<settleVars, proposalVars, mcpVars, alertVars, govVars, trustVars,
                         bridgeVars, billingVars, wasteVars, budgetVars, stakingVars,
                         revenueVars>>
       \/ /\ active = "governance" /\ GovNext
          /\ UNCHANGED <<settleVars, proposalVars, mcpVars, alertVars, benchVars,
                         trustVars, bridgeVars, billingVars, wasteVars, budgetVars,
                         stakingVars, revenueVars>>
       \/ /\ active = "trust" /\ TrustNext
          /\ UNCHANGED <<settleVars, proposalVars, mcpVars, alertVars, benchVars, govVars,
                         bridgeVars, billingVars, wasteVars, budgetVars, stakingVars,
                         revenueVars>>
       \/ /\ active = "bridge" /\ BridgeNext
          /\ UNCHANGED <<settleVars, proposalVars, mcpVars, alertVars, benchVars, govVars,
                         trustVars, billingVars, wasteVars, budgetVars, stakingVars,
                         revenueVars>>
       \/ /\ active = "billing" /\ BillingNext
          /\ UNCHANGED <<settleVars, proposalVars, mcpVars, alertVars, benchVars, govVars,
                         trustVars, bridgeVars, wasteVars, budgetVars, stakingVars,
                         revenueVars>>
       \/ /\ active = "waste" /\ WasteNext
          /\ UNCHANGED <<settleVars, proposalVars, mcpVars, alertVars, benchVars, govVars,
                         trustVars, bridgeVars, billingVars, budgetVars, stakingVars,
                         revenueVars>>
       \/ /\ active = "budgets" /\ BudgetsNext
          /\ UNCHANGED <<settleVars, proposalVars, mcpVars, alertVars, benchVars, govVars,
                         trustVars, bridgeVars, billingVars, wasteVars, stakingVars,
                         revenueVars>>
       \/ /\ active = "staking" /\ StakingNext
          /\ UNCHANGED <<settleVars, proposalVars, mcpVars, alertVars, benchVars, govVars,
                         trustVars, bridgeVars, billingVars, wasteVars, budgetVars,
                         revenueVars>>
       \/ /\ active = "revenue" /\ RevenueNext
          /\ UNCHANGED <<settleVars, proposalVars, mcpVars, alertVars, benchVars, govVars,
                         trustVars, bridgeVars, billingVars, wasteVars, budgetVars,
                         stakingVars>>
vars == <<active, components>>
Spec == /\ Init /\ [][Next]_vars
        /\ WF_wfVars(active = "workflows" /\ Collect)
        /\ WF_wfVars(active = "workflows" /\ TimesOut)
        /\ WF_mcpVars(active = "mcp" /\ WriterStep)
        /\ WF_alertVars(active = "alerts" /\ CheckerStep)
        /\ WF_alertVars(active = "alerts" /\ AlertsTick)

\* A decision stands on the votes behind it, among validators and in governance: it had
\* its majority, is recorded once, survives late votes and late finalizations, and each
\* challenge won against it cost its voters their share once.
VotesDecide ==
    /\ FinalizedHadSupermajority /\ FinalizedIsRecorded
    /\ WonMeansSlashed /\ SlashesMatchChallenges
    /\ VerdictFitsVotes /\ TalliesCountVotersOnce

\* Advice on spending is sound: what is called waste could have been saved, by a model
\* that is cheaper than the one in use; the path of a budget's downgrades ends and returns
\* to no dearer tier, but at two models of the catalog its next step is a dearer model;
\* and the dearer a request, the more urgent what its budget says.
AdviceHolds ==
    /\ AdviceSaves /\ ScoreCoversOverkill /\ LoopsAreRuns /\ MissesAreCacheable
    /\ DowngradesEnd /\ SeverityFollowsCost

\* The contracts keep their books: stakes are held, balances add up to the supply, a
\* settlement moves what it books, and the ranking lists every agent in its place.
ContractsKeepBooks ==
    []Solvent /\ []SupplyIsHeld /\ []BurnedIsDead /\ SettlesWhatItBooks /\ []TopIsRanked

\* An execution and the writer of tool calls end once their time has come.
WorkersEnd == ExecutionEnds /\ McpWriterEnds
=============================================================================
