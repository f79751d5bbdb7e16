------------------------------- MODULE Budgets -------------------------------
(***************************************************************************)
(* MODEL_CATALOG of models.py: tier, price and downgrade path of each      *)
(* model; cost is avg_cost in millionths of a dollar per thousand tokens,  *)
(* the qualities by task are left to the instances of Routing.             *)
(* Spend caps (alerts/budgets.py, api/routes/alerts.py): an operator sets  *)
(* budgets; check_budget says what a further cost calls for. No code of    *)
(* the program calls it: the caller modelled here is the one the README    *)
(* describes, which steps down the path of models.py while it is told to.  *)
(***************************************************************************)
EXTENDS Integers, FiniteSets, SequencesExt

CONSTANTS
    BudgetOrgs, Projects, NoProject,
    Caps,       \* budget_usd, positive
    Costs,      \* what a further request may cost
    MaxBudgets  \* bound: budgets created

ASSUME CapAssumption == Caps \subseteq Nat \ {0} /\ Costs \subseteq Nat

VARIABLES
    budgets, \* budget_configs: [org, project, cap, action, spend]
    caller   \* the models a caller went through, and what it was last told

Lowest == "" \* downgrade_to = None
FrontierModels ==
    {"claude-opus-4-20250514", "claude-opus-4-6-20250527", "claude-opus-4-6",
     "claude-opus-4-5-20251101", "claude-opus-4-5",
     "us.anthropic.claude-opus-4-5-20251101-v1:0", "gpt-5.2-chat-latest"}
MidTierModels ==
    {"claude-sonnet-4-6", "claude-sonnet-4-5-20250929", "claude-sonnet-4-20250514",
     "gpt-5.2-codex", "gpt-4o", "gpt-4-turbo", "qwen.qwen3-vl-235b-a22b",
     "qwen.qwen3-next-80b-a3b", "moonshot.kimi-k2-thinking", "moonshotai.kimi-k2.5",
     "openai.gpt-oss-120b-1:0", "minimax.minimax-m2.1"}
LowTierModels ==
    {"claude-haiku-4-5-20251001", "gpt-4o-mini", "us.amazon.nova-2-lite-v1:0",
     "qwen.qwen3-coder-30b-a3b-v1:0", "openai.gpt-oss-20b-1:0", "google.gemma-3-27b-it",
     "google.gemma-3-12b-it", "google.gemma-3-4b-it", "mistral.ministral-3-14b-instruct",
     "mistral.ministral-3-8b-instruct", "mistral.ministral-3-3b-instruct"}
AvgCost(m) ==
    CASE m \in FrontierModels \ {"gpt-5.2-chat-latest"} -> 45000
      [] m = "gpt-4-turbo" -> 20000
      [] m \in {"claude-sonnet-4-6", "claude-sonnet-4-5-20250929", "claude-sonnet-4-20250514"} -> 9000
      [] m \in {"gpt-5.2-chat-latest", "gpt-5.2-codex"} -> 7875
      [] m = "gpt-4o" -> 6250
      [] m = "qwen.qwen3-vl-235b-a22b" -> 6000
      [] m = "qwen.qwen3-next-80b-a3b" -> 3600
      [] m = "claude-haiku-4-5-20251001" -> 2400
      [] m = "moonshotai.kimi-k2.5" -> 1800
      [] m = "moonshot.kimi-k2-thinking" -> 1550
      [] m = "us.amazon.nova-2-lite-v1:0" -> 1400
      [] m \in {"minimax.minimax-m2.1", "qwen.qwen3-coder-30b-a3b-v1:0"} -> 610
      [] m = "openai.gpt-oss-120b-1:0" -> 420
      [] m = "gpt-4o-mini" -> 375
      [] m = "mistral.ministral-3-14b-instruct" -> 200
      [] m = "mistral.ministral-3-8b-instruct" -> 150
      [] m = "mistral.ministral-3-3b-instruct" -> 100
      [] m = "google.gemma-3-27b-it" -> 95
      [] m \in {"openai.gpt-oss-20b-1:0", "google.gemma-3-12b-it"} -> 85
      [] m = "google.gemma-3-4b-it" -> 60
\* The models called with tools: those of Anthropic and OpenAI.
ToolModels ==
    FrontierModels \cup
    {"claude-sonnet-4-6", "claude-sonnet-4-5-20250929", "claude-sonnet-4-20250514",
     "gpt-5.2-codex", "gpt-4o", "gpt-4-turbo", "claude-haiku-4-5-20251001", "gpt-4o-mini"}
DowngradeTo(m) ==
    CASE m \in FrontierModels -> "claude-sonnet-4-6"
      [] m \in MidTierModels \cap ToolModels -> "claude-haiku-4-5-20251001"
      [] m = "qwen.qwen3-vl-235b-a22b" -> "qwen.qwen3-next-80b-a3b"
      [] m = "qwen.qwen3-next-80b-a3b" -> "qwen.qwen3-coder-30b-a3b-v1:0"
      [] m = "moonshot.kimi-k2-thinking" -> "moonshotai.kimi-k2.5"
      [] m = "openai.gpt-oss-120b-1:0" -> "openai.gpt-oss-20b-1:0"
      [] m = "google.gemma-3-27b-it" -> "google.gemma-3-12b-it"
      [] m = "google.gemma-3-12b-it" -> "google.gemma-3-4b-it"
      [] m = "mistral.ministral-3-14b-instruct" -> "mistral.ministral-3-8b-instruct"
      [] m = "mistral.ministral-3-8b-instruct" -> "mistral.ministral-3-3b-instruct"
      [] OTHER -> Lowest

MODEL_CATALOG ==
    [m \in FrontierModels \cup MidTierModels \cup LowTierModels |->
        [tier |-> IF m \in FrontierModels THEN 1 ELSE IF m \in MidTierModels THEN 2 ELSE 3,
         cost |-> AvgCost(m), tools |-> m \in ToolModels,
         thinking |-> m # "claude-haiku-4-5-20251001", next |-> DowngradeTo(m)]]

\* get_downgrade, and the path a caller that keeps asking is led down.
GetDowngrade(m) == IF m \in DOMAIN MODEL_CATALOG THEN MODEL_CATALOG[m].next ELSE Lowest
GetTier(m) == IF m \in DOMAIN MODEL_CATALOG THEN MODEL_CATALOG[m].tier ELSE 0

budgetVars == <<budgets, caller>>
BudgetActions == {"none", "alert", "downgrade", "block"}
Severities == <<"info", "warning", "critical">>
Rank(severity) == CHOOSE i \in DOMAIN Severities : Severities[i] = severity
Silent == [action |-> "none", severity |-> "info", suggested |-> Lowest]

\* Thresholds at 80, 95 and 100 percent of the cap; the last one takes the
\* action the budget was given.
Utilization(b, cost) == ((b.spend + cost) * 100) \div b.cap
CheckBudget(b, cost, model) ==
    LET used == Utilization(b, cost)
        told(action, severity, suggested) ==
            [action |-> action, severity |-> severity, suggested |-> suggested] IN
    CASE used >= 100 -> told(b.action, "critical", GetDowngrade(model))
      [] used \in 95..99 -> told("alert", "warning", GetDowngrade(model))
      [] used \in 80..94 -> told("alert", "info", Lowest)
      [] OTHER -> Silent

BudgetsInit == budgets = <<>> /\ caller = [path |-> <<>>, told |-> Silent]

\* POST /budgets: the row starts with nothing spent, and nothing ever adds to it.
CreateBudget(org, project, cap, action) ==
    /\ Len(budgets) < MaxBudgets
    /\ budgets' = Append(budgets, [org |-> org, project |-> project, cap |-> cap,
                                   action |-> action, spend |-> 0])
    /\ UNCHANGED caller
\* The rows of an organisation, and the one created last, which comes first of them.
GetBudgetConfigs(org) == {i \in DOMAIN budgets : budgets[i].org = org}
Newest(org) == budgets[Max(GetBudgetConfigs(org))]

\* A request under the newest budget of its organisation, and the same request
\* once more with the model that was suggested.
Request(org, model, cost) ==
    /\ GetBudgetConfigs(org) # {}
    /\ caller' = [path |-> <<model>>, told |-> CheckBudget(Newest(org), cost, model)]
    /\ UNCHANGED budgets
StepDown(org, cost) ==
    /\ caller.told.action = "downgrade" /\ caller.told.suggested # Lowest
    /\ GetBudgetConfigs(org) # {}
    /\ caller' = [path |-> Append(caller.path, caller.told.suggested),
                  told |-> CheckBudget(Newest(org), cost, caller.told.suggested)]
    /\ UNCHANGED budgets

BudgetsNext ==
    \/ \E org \in BudgetOrgs, p \in Projects \cup {NoProject}, cap \in Caps, a \in BudgetActions :
          CreateBudget(org, p, cap, a)
    \/ \E org \in BudgetOrgs, cost \in Costs :
          StepDown(org, cost) \/ \E m \in DOMAIN MODEL_CATALOG : Request(org, m, cost)

\* A caller that steps down whenever it is told to comes to an end: the path names
\* models of the catalog only, none twice, and never returns to a dearer tier. But
\* the next model costs as much or more where these two step down, which get_downgrade
\* calls "the next-cheaper model", and nowhere else.
DearerNext == {"gpt-5.2-chat-latest", "moonshot.kimi-k2-thinking"}
DowngradesEnd ==
    LET path == caller.path IN
    /\ \A i \in DOMAIN path : path[i] \in DOMAIN MODEL_CATALOG
    /\ \A i, j \in DOMAIN path : i < j => /\ path[i] # path[j]
                                          /\ GetTier(path[i]) <= GetTier(path[j])
    /\ \A i, j \in DOMAIN path : j = i + 1 =>
          (MODEL_CATALOG[path[j]].cost < MODEL_CATALOG[path[i]].cost <=> path[i] \notin DearerNext)

\* The dearer of two requests under one budget is never taken more lightly, and a
\* budget does what it was configured for only when it is critical.
SeverityFollowsCost ==
    \A i \in DOMAIN budgets, c, d \in Costs : c <= d =>
        LET small == CheckBudget(budgets[i], c, "gpt-4o")
            large == CheckBudget(budgets[i], d, "gpt-4o") IN
        /\ Rank(small.severity) <= Rank(large.severity)
        /\ large.action \in {"downgrade", "block"} => large.severity = "critical"
=============================================================================
