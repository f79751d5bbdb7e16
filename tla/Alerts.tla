------------------------------- MODULE Alerts -------------------------------
(***************************************************************************)
(* The alert rules and the background task that watches them               *)
(* (alerts/checker.py, alerts/anomaly.py, alerts/notify.py and the rule    *)
(* endpoints of api/routes/alerts.py).  Times are ages in ticks of the     *)
(* monotonic clock; a metric is a small number that the environment moves. *)
(***************************************************************************)
EXTENDS Integers, FiniteSets

CONSTANTS AlertRules,   \* the identifiers of the rules that may be created
          SpendRules,   \* those of type anomaly_zscore; the rest are error_rate
          Levels0,      \* the values a metric takes
          Mean, Dev,    \* mean and deviation of the baseline of a metric
          Floor,        \* min_failure_rate
          Cooldown,     \* cooldown_s, in ticks
          Interval      \* check_interval_s, in ticks

ASSUME AlertsAssumption ==
    /\ SpendRules \subseteq AlertRules /\ Levels0 \subseteq Nat
    /\ {Mean, Dev, Floor} \subseteq Nat
    /\ Cooldown \in Nat \ {0} /\ Interval \in Nat \ {0}

VARIABLES saved,    \* the table alert_rules: rule -> its channels, and enabled
          given,    \* the list handed to run(), as it was at that moment
          level,    \* the current value of the metric of each rule
          fired,    \* _last_fired: rule -> ticks since it was recorded
          checker,  \* the task: what it does, the rules left, the ticks to wait
          shut,     \* the shutdown event
          quiet,    \* history: ticks since the rule was last announced
          told      \* the messages the last dispatch delivered

alertVars == <<saved, given, level, fired, checker, shut, quiet, told>>

-----------------------------------------------------------------------------
(* anomaly.py.  A rate that was never above zero is a spike from Floor on;  *)
(* a flat spend history has no anomaly at all.                              *)
SpendSeverity(current) ==
    IF Dev = 0 THEN "none"
    ELSE IF current - Mean > 3 * Dev THEN "critical"
    ELSE IF current - Mean > 2 * Dev THEN "warning" ELSE "none"

FailureSeverity(current) ==
    IF current < Floor \/ current < 2 * Mean THEN "none"
    ELSE IF Mean > 0 /\ current >= 3 * Mean THEN "critical" ELSE "warning"

Severity(r) == IF r \in SpendRules THEN SpendSeverity(level[r]) ELSE FailureSeverity(level[r])

(* should_fire, record_fired and _prune_fired: an entry of the table is     *)
(* dropped once it can no longer hold a rule back.                          *)
MayFire(r) == r \notin DOMAIN fired \/ fired[r] >= Cooldown

MutPrunedEarly(f) == [r \in {s \in DOMAIN f : f[s] < Interval} |-> f[r]]
Pruned(f) == [r \in {s \in DOMAIN f : f[s] < Cooldown} |-> f[r]]

Recorded0(f, r) == [s \in DOMAIN f \cup {r} |-> IF s = r THEN 0 ELSE f[s]]

(* process_event, as the pair of the verdict and the table it leaves.       *)
Processed(r) == <<MayFire(r), IF MayFire(r) THEN Recorded0(fired, r) ELSE fired>>

-----------------------------------------------------------------------------
Asleep == [pc |-> "waiting", todo |-> {}, left |-> Interval]

AlertsInit ==
    /\ saved = [r \in {} |-> {}] /\ given = saved
    /\ level = [r \in AlertRules |-> 0]
    /\ fired = [r \in {} |-> 0]
    /\ checker = [pc |-> "new", todo |-> {}, left |-> 0]
    /\ shut = FALSE
    /\ quiet = [r \in AlertRules |-> Cooldown]
    /\ told = {}

(* POST, PUT and DELETE /alerts/rules: they change the table and not the    *)
(* list a running checker was given.                                        *)
SaveRule(r, channels, enabled) ==
    /\ saved' = [s \in DOMAIN saved \cup {r} |->
                    IF s = r THEN [via |-> channels, enabled |-> enabled] ELSE saved[s]]
    /\ UNCHANGED <<given, level, fired, checker, shut, quiet, told>>

DeleteRule(r) ==
    /\ r \in DOMAIN saved
    /\ saved' = [s \in DOMAIN saved \ {r} |-> saved[s]]
    /\ UNCHANGED <<given, level, fired, checker, shut, quiet, told>>

StartChecker ==
    /\ checker.pc = "new" /\ saved # [r \in {} |-> {}]
    /\ given' = saved
    /\ checker' = [checker EXCEPT !.pc = "top"]
    /\ UNCHANGED <<saved, level, fired, shut, quiet, told>>

(* The loop of run(): prune, then each enabled rule in turn.                *)
Again == IF shut THEN "ended" ELSE "pruning"

LoopTop ==
    /\ checker.pc = "top"
    /\ checker' = [checker EXCEPT !.pc = Again]
    /\ UNCHANGED <<saved, given, level, fired, shut, quiet, told>>

Prune0 ==
    /\ checker.pc = "pruning"
    /\ fired' = Pruned(fired)
    /\ checker' = [pc |-> "checking", left |-> 0,
                   todo |-> {r \in DOMAIN given : given[r].enabled}]
    /\ UNCHANGED <<saved, given, level, shut, quiet, told>>

(* evaluate_rule, process_event, and a dispatch whose messages may each be  *)
(* lost: send_slack_webhook and send_email report False and nobody looks.   *)
(* run() gives dispatch_alert no SMTP host, so no mail is ever sent.        *)
CheckRule(r) ==
    /\ checker.pc = "checking" /\ r \in checker.todo
    /\ checker' = [checker EXCEPT !.todo = @ \ {r}]
    /\ IF Severity(r) = "none" \/ ~Processed(r)[1]
         THEN /\ fired' = IF Severity(r) = "none" THEN fired ELSE Processed(r)[2]
              /\ UNCHANGED <<quiet, told>>
         ELSE /\ fired' = Processed(r)[2]
              /\ quiet' = [quiet EXCEPT ![r] = 0]
              /\ told' \in SUBSET ({<<r, c>> : c \in given[r].via \ {"email"}})
    /\ UNCHANGED <<saved, given, level, shut>>

Rest ==
    /\ checker.pc = "checking" /\ checker.todo = {}
    /\ checker' = Asleep
    /\ UNCHANGED <<saved, given, level, fired, shut, quiet, told>>

(* wait_for(shutdown.wait(), interval).                                     *)
Wake ==
    /\ checker.pc = "waiting" /\ (shut \/ checker.left = 0)
    /\ checker' = [checker EXCEPT !.pc = "top"]
    /\ UNCHANGED <<saved, given, level, fired, shut, quiet, told>>

Shutdown ==
    /\ ~shut /\ shut' = TRUE
    /\ UNCHANGED <<saved, given, level, fired, checker, quiet, told>>

(* Time passes while the checker waits, the metrics move at any time.       *)
Older(age) == IF age < Cooldown THEN age + 1 ELSE age

AlertsTick ==
    /\ checker.pc = "waiting" /\ checker.left > 0 /\ ~shut
    /\ checker' = [checker EXCEPT !.left = @ - 1]
    /\ fired' = [r \in DOMAIN fired |-> Older(fired[r])]
    /\ quiet' = [r \in AlertRules |-> Older(quiet[r])]
    /\ UNCHANGED <<saved, given, level, shut, told>>

MetricMoves(r, v) ==
    /\ level[r] # v /\ level' = [level EXCEPT ![r] = v]
    /\ UNCHANGED <<saved, given, fired, checker, shut, quiet, told>>

CheckerStep == LoopTop \/ Prune0 \/ (\E r \in AlertRules : CheckRule(r)) \/ Rest \/ Wake

AlertsNext ==
    \/ \E r \in AlertRules, e \in BOOLEAN, c \in {{"slack"}, {"email"}, {"slack", "email"}} :
         SaveRule(r, c, e)
    \/ \E r \in AlertRules : DeleteRule(r)
    \/ StartChecker \/ CheckerStep \/ Shutdown \/ AlertsTick
    \/ \E r \in AlertRules, v \in Levels0 : MetricMoves(r, v)

(* The task runs as long as the event loop does, and the clock ticks.       *)
AlertsFairness == WF_alertVars(CheckerStep) /\ WF_alertVars(AlertsTick)

-----------------------------------------------------------------------------
(* However the sweeps, the pruning of old entries and the metrics interleave, *)
(* one rule is not announced twice within a cooldown.                       *)
CooldownRespected ==
    [][\A r \in AlertRules : (quiet'[r] = 0 /\ quiet[r] # 0) => quiet[r] >= Cooldown]_alertVars

(* An anomaly that persists is announced again after every cooldown: being  *)
(* held back must not renew the cooldown of a rule checked more often.      *)
Pressing(r) == r \in DOMAIN given /\ given[r].enabled /\ Severity(r) # "none" /\ ~shut

PersistentIsRepeated ==
    \A r \in AlertRules : <>[]Pressing(r) => []<>(quiet[r] = 0)

(* Once shutdown() was called a checker that runs comes to its end.         *)
CheckerEnds == (shut /\ checker.pc # "new") ~> (checker.pc = "ended")

(* Neither too often nor too rarely: an anomaly is announced once in a      *)
(* cooldown, again as long as it persists, and shutdown ends the checker.   *)
AlertsSound == CooldownRespected /\ PersistentIsRepeated /\ CheckerEnds
=============================================================================
