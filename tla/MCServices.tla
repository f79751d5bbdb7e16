----------------------------- MODULE MCServices -----------------------------
(* Services that share no state, instantiated together.  Each behaviour is    *)
(* one of the component chosen by `active`; the others stay as they start.    *)
EXTENDS ValidationTasks, QualityReports, FeedbackSignals, SdkTracing,
        AuditTrail, Tenancy, Classifier, LocalProvider, Conversation
VARIABLE active

MCDeposit == [v \in Members |-> IF v = "a" THEN 800 ELSE 400]
MCEventKinds ==
    {[task |-> "reasoning", tools |-> FALSE, sensitive |-> TRUE, oversight |-> FALSE, agent |-> ""],
     [task |-> "code_review", tools |-> TRUE, sensitive |-> FALSE, oversight |-> TRUE, agent |-> "n"]}
MCUserRoles == [r \in {"admin", "viewer"} |-> IF r = "admin" THEN {"read", "manage"} ELSE {"read"}]
\* Keywords of four tasks; messages of each role, with and without marks.
MCTaskKeywords == [t \in {TaskTypes[i] : i \in 1..13} |->
    CASE t = "code_review" -> {"audit", "peer review"} [] t = "conversation" -> {"chat"}
      [] t = "tool_selection" -> {"use tool"} [] t = "debugging" -> {"debug", "traceback"}
      [] OTHER -> {}]
Msg(role, keywords, marks) ==
    [role |-> role, keywords |-> keywords, fence |-> "fence" \in marks, schema |-> "schema" \in marks,
     json |-> "json" \in marks, calls |-> "calls" \in marks, plan |-> "plan" \in marks]
MCMessages ==
    {Msg("system", {"audit"}, {"fence"}), Msg("system", {}, {"schema", "json"}),
     Msg("system", {"traceback"}, {"plan"}),
     Msg("user", {"chat"}, {}), Msg("user", {"debug", "traceback"}, {}),
     Msg("user", {"use tool"}, {}), Msg("user", {}, {}), Msg("assistant", {}, {"calls"}), Msg("tool", {}, {"calls"})}
MCTokenCounts == {[prompt |-> 0, completion |-> 0], [prompt |-> 100, completion |-> 5],
                  [prompt |-> 100, completion |-> 60], [prompt |-> 100, completion |-> 201]}
MCLlmAnswers == {[clean |-> TRUE, names |-> {"debugging"}],
                 [clean |-> FALSE, names |-> {"debugging", "testing"}], [clean |-> FALSE, names |-> {}]}
Example(messages, tools, n, expected) ==
    [request |-> [messages |-> messages, tools |-> tools, anthropic |-> FALSE],
     tokens |-> [prompt |-> 100, completion |-> n], expected |-> expected]
MCExamples ==
    {Example(<<Msg("user", {"debug", "traceback"}, {}), Msg("assistant", {}, {"calls"})>>, 4, 60, "debugging"),
     Example(<<Msg("system", {"audit", "traceback"}, {"fence"}), Msg("user", {"audit", "peer review"}, {})>>, 0, 5, "code_review"),
     Example(<<Msg("user", {}, {})>>, 0, 60, "conversation"),
     Example(<<Msg("system", {}, {"fence"}), Msg("user", {}, {})>>, 0, 201, "debugging")}

components ==
    <<taskVars, reportVars, fbVars, sdkVars, merkleVars,
      auditVars, tenancyVars, classifierVars, providerVars, talkVars>>
Init ==
    /\ active \in
        {"tasks", "reports", "feedback", "sdk", "merkle",
         "audit", "tenancy", "classifier", "provider", "talk"}
    /\ TasksInit /\ ReportsInit /\ FbInit /\ SdkInit /\ MerkleInit
    /\ AuditInit /\ TenancyInit /\ ClassifierInit /\ ProviderInit /\ TalkInit
Next ==
    /\ UNCHANGED active
    /\ \/ /\ active = "tasks" /\ TasksNext
          /\ UNCHANGED <<reportVars, fbVars, sdkVars, merkleVars, auditVars,
                         tenancyVars, classifierVars, providerVars, talkVars>>
       \/ /\ active = "reports" /\ ReportsNext
          /\ UNCHANGED <<taskVars, fbVars, sdkVars, merkleVars, auditVars,
                         tenancyVars, classifierVars, providerVars, talkVars>>
       \/ /\ active = "feedback" /\ FbNext
          /\ UNCHANGED <<taskVars, reportVars, sdkVars, merkleVars, auditVars,
                         tenancyVars, classifierVars, providerVars, talkVars>>
       \/ /\ active = "sdk" /\ SdkNext
          /\ UNCHANGED <<taskVars, reportVars, fbVars, merkleVars, auditVars,
                         tenancyVars, classifierVars, providerVars, talkVars>>
       \/ /\ active = "merkle" /\ MerkleNext
          /\ UNCHANGED <<taskVars, reportVars, fbVars, sdkVars, auditVars,
                         tenancyVars, classifierVars, providerVars, talkVars>>
       \/ /\ active = "audit" /\ AuditNext
          /\ UNCHANGED <<taskVars, reportVars, fbVars, sdkVars, merkleVars,
                         tenancyVars, classifierVars, providerVars, talkVars>>
       \/ /\ active = "tenancy" /\ TenancyNext
          /\ UNCHANGED <<taskVars, reportVars, fbVars, sdkVars, merkleVars,
                         auditVars, classifierVars, providerVars, talkVars>>
       \/ /\ active = "classifier" /\ ClassifierNext
          /\ UNCHANGED <<taskVars, reportVars, fbVars, sdkVars, merkleVars,
                         auditVars, tenancyVars, providerVars, talkVars>>
       \/ /\ active = "provider" /\ ProviderNext
          /\ UNCHANGED <<taskVars, reportVars, fbVars, sdkVars, merkleVars,
                         auditVars, tenancyVars, classifierVars, talkVars>>
       \/ /\ active = "talk" /\ TalkNext
          /\ UNCHANGED <<taskVars, reportVars, fbVars, sdkVars, merkleVars,
                         auditVars, tenancyVars, classifierVars, providerVars>>
vars == <<active, components>>
Spec == Init /\ [][Next]_vars

\* Reports and signals rest on what happened: a drift on a fall between its two windows,
\* an impact on what was spent, a signal on a repetition, which the detector does see.
EvidenceIsReal ==
    /\ DriftIsRecent /\ []ImpactWithinSpend
    /\ []SignalsAreRepeats /\ VisibleRetriesAreFound /\ []RepetitionsNeedARace
=============================================================================
