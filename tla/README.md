# Verification of BlockWorks (AgentProof)

TLA+ models of the parts of this repository that keep state and interact: what
they promise, checked by TLC on small instances, and proved by TLAPS where the
promise matters for every size. `PROJECT.json` lists every part with its status,
every hazard with its line, and the source lines of every definition.

Source paths are relative to `src/blockthrough/` (Python) and `contracts/src/`
(Solidity).

## The system

A request reaches the **LLM proxy** (`api/routes/proxy.py`), which classifies it,
lets the **routing engine** choose a model, calls the upstream and hands an event
to the **capture pipeline**; a sample is replayed by the **benchmark worker**. Its
results, the **feedback** found in the events and the operators' policies come
back to the router through one fitness matrix and one policy. From the stored
events the other services make their statements: **waste**, **drift**, **alerts**,
**compliance** and **billing** reports. The **attestation scheduler** condenses
each period into a record of a hash chain kept by a provider, in memory or on a
chain, written directly or after a vote of **validators**. Around it are **workflows** of
agents and their payment through **channels** and **revenue** contracts, and a
**marketplace** of agents that no two routes share.

| part | state | operations | hard behaviours |
|---|---|---|---|
| capture pipeline (`pipeline/`, `routing/writer.py`) | bounded queue, batch in flight, rows | log, batch, flush with retries, fallback, shutdown, drain | retries after a lost answer, cancellation in any await |
| proxy and routing (`api/routes/proxy.py`, `routing/`) | session windows, matrix, policy, queues | classify, route, answer, stream, capture, sample | data that changes between a request's awaits |
| fitness loop (`routing/router.py`, `api/app.py`, `feedback/adjuster.py`, `benchmarking/mirror.py`) | matrix, stale mark, policy, item in flight | measure, refresh, adjust, regenerate, post, toggle | a refresh over several awaits, cancelled workers |
| conversations (`routing/sanitize.py`, `convert.py`), streams | history, blocks | repair, convert, replay, bridge | identifiers of two providers, truncated histories |
| classification, benchmark runs, drift, feedback signals, waste | rows, scores | classify, resume, compare, detect | late rows, partial failures, thresholds |
| MCP writer, alerts, SDK | two queues; cooldowns; context variables | extract, store; sweep, notify; trace, report | cancellation in a flush, persistence and cooldown, tasks copying contexts |
| compliance, tenants, validators, governance, billing | dictionaries in memory | file, log in, settle, vote, reconcile | awaits between check and update, repetition |
| workflows, settlement, revenue | executions, splits, channels, shares | run, pay, settle, dispute | failures and timeouts half way, repeated settlement |
| attestation (`attestation/`, `AgentProofAttestation.sol`) | records, nonces, node's pool | submit, batch, verify, one cycle per interval | receipts that time out, replaced transactions, late events |
| contracts for stakes, consensus, channels, trust, tokens | escrow, stakes, proposals, claims | stake, vote, slash, claim, challenge, reclaim | disputes racing expiry, moving stakes, payouts that fail |

## Modules

Definitions named `Mut...` are deliberately wrong variants of the definition that
follows them; each property of a run is violated under one.

**Capture.** `QueueWorker` is `AsyncQueueWorker` with the writer in front of the
table. A step is what the event loop runs between two awaits; `pc` is the await
at which `run()` is suspended. `kind` is which worker it is: a callback's is `lazy`
(`_ensure_writer` starts a fresh one after `close()`), the one of routing decisions is
not `Keyed` (each attempt gives its rows new ids, where an event's row has the event's).
A broken connection leaves a batch's transaction committed or not. `McpTracing` overrides
that loop as `mcp/writer.py` does: two queues, one transaction for both.

**The proxy.** `Routing` holds `resolve()`, the default policy and the merging of
measured and synthetic fitness as operators. `Gateway` runs requests over it: a
request is a coroutine that yields while it is classified, answered and
streamed; the matrix and the policy may be replaced at each yield. `FitnessLoop`
is the other half: matrix, refresh task, feedback, benchmark worker, operators
and process shutdown. `Gateway` sees of it that matrix and policy change.
`Conversation` follows one history through repair, conversion, replay and answer;
`StreamBridge` one OpenAI stream on its way to an Anthropic client. `Classifier`
is the rules, the model-based classification and the evaluation harness.

**What is made of the events.** `BenchmarkRuns` (runner, judge, resumption),
`QualityReports` (drift, accountability), `FeedbackSignals` (detection of retries
and overrides), `Waste` (over `Routing`), `Budgets` (the model catalogue, its
downgrade paths, spend caps), `Alerts` (rules and the checker task), `Billing`
(reconciliation), `AuditTrail` (Merkle tree and compliance reports), `SdkTracing`
(instrumented programs and the ingest route).

**Agents and people.** `Tenancy` (tenants, users, roles, contexts), `Governance`,
`ValidatorRegistry` and over it `ValidationTasks` (benchmark validation) and
`ConsensusProvider` (attestation by vote). `Settlement` validates a graph, runs it
level by level and splits its cost; beside it the engine of revenue books the shares
of what a request names, and pays them through the
channel manager where the engine has one.

**Attestation.** `AttestationRecords` is the record and its chain hash, taken as
injective. `AttestationChain` is the abstract specification every provider
implements: a history per organisation that only grows at its end, each record
carrying the hash of its predecessor. `LocalProvider` implements it in memory: a
batch is a run of steps no other operation interrupts, and `committed` hides
these from the abstract chain. `AttestationContract` is the registry; a call is a
step, a reverting call none. `AttestationScheduler` is one organisation's cycle
over it: an event is its creation time, `buffered` is captured and not yet in the
database, `pending` the node's pool, `mined` the account's transaction count.

**Contracts.** `Staking` carries a history of what each validator paid in, got
back and lost. `Consensus` is over `Staking` and `AttestationContract`, deployed
as `contracts/script/Deploy.s.sol` does. `ChannelManager` holds the states signed
through the manager and the proofs handed out; `Channel` is the contract over it,
for the channels of one pair. A signature is membership in `signed`, or in `alone` for
what the sender signs with its own key and does not hand to the manager: the contract
takes either. `AgentProof` is
the token and the revenue contract and, apart from them, the registry of trust
scores.

`*Proofs` hold theorems: one module for each of `QueueWorker`, `Gateway`, `Channel`, the
contracts under `Consensus` and `AttestationScheduler`, `ServicesProofs` for
components of `Services`, for `FitnessLoop` and for `Billing`, and `WorkersProofs` for the
other components of `Workers`. `Sums` holds what
these share: sums over finite sets and running totals. `MC*` hold the values TLC needs and a configuration file
cannot express. `MCServices` and `MCWorkers` explore components that share no
state in one run: the variable `active`, chosen at the start, names the one
component a behaviour runs, so that the state space is the sum of the
components' and not their product.

## Runs

| configuration | what it shows | bounds |
|---|---|---|
| `EventWriter` | nothing is lost silently, an event is stored once, faults are masked, of a batch only the bad row is dropped, everything settles, shutdown ends | 4 events, one bad, queue 2, batch 2, 2 attempts, 3 faults |
| `Gateway` | decisions are explained by the policy, the phase and the upstreams of the moment; what is complete, and nothing else, is captured once or counted as dropped, and sampled at most once | 2 requests of 1 session, 3 queues of 1, window 2, 1 change of the data |
| `BelowFloor` (violated) | "never route below QUALITY_FLOOR regardless of policy" | as above |
| `FitnessLoop` | measurements and a user's policy survive refreshes and toggles, feedback stays bounded, what was measured reaches the router, the worker ends | 2 models, 1 task, queue 1, 1 posted policy, 1 toggle, 2 measurements |
| `SchedulerTimeouts` | no event attested twice but in a truncated second, no gap but for late events, totals and root differ by late events and broken days only, an attested period is found | 7 instants, 2 ticks a second, 4 a day, 2 events, 3 records, 3 transactions |
| `Consensus` | finalization is backed by the stake that voted; voters are slashed once, only yes-voters; bonds are covered | 2 validators with stakes up to 3, 1 proposal, 2 challenges |
| `ProposalSlots` | the registry stays a linked chain under a second attestor with batches; a finalized proposal is recorded once; competition for a slot needs a repeated expiry | 3 proposals, 2 slots, 2 arbiters |
| `ConsensusPayout` (violated) | "slash all yes-voters, return bond + 50% of slash" | 1 proposal, 2 challenges |
| `Channel` | deposits and escrow conserved, only signed amounts paid, signed states covered and ordered, proofs final, a claim shrinks only through a state signed past the manager, a dispute is paid before the expiry | 2 channels, deposits up to 2, 2 payments each, 1 state signed past the manager, 4 instants, lifetime 2, challenge period 1 |
| `ChannelReclaim` (violated) | "if unchallenged, the channel settles at the claimed amount" | as above, all states signed through the manager |
| `Services` | one property for each of validator tasks, drift and feedback signals, SDK, audit trail, tenants, classifier, in-memory provider, conversations | below |
| `Workers` | one property for each of workflows and settlement, votes, tool calls, benchmark runs, streams, billing, advice, alerts, stakes, contracts, and the two workers' end | below |

`Services`: 3 members and 4 scores for a task; 2 traces of 2 calls; up to 5 leaves; 3 audit events and 2 reports; 2
tenants, users, logins and nested contexts; 2 turns of a conversation and 3
examples for the classifier; 2 organisations with 2 nonces and a malformed body.

`Workers`: 3 steps, 2 channels, 3 settlements of 3 costs; 2 validators, 2 nonces, 2
finalizations in flight, 2 challenges; 4 tool calls, queues of 3 and 1, batch 2, 2
attempts, 2 faults; 1 alert rule with cooldown 3 and interval 2; 3 prompts, 2
models, 2 runs; 3 voters, quorum 0 or 3; 3 agents; 6 stream deltas; 2 invoice
lines; 4 calls in a window of 2; a cap of 20; 2 stakers with deposits up to 3 and a
minimum that moves; a supply of 2 and 1 execution.

Why the bounds are enough: a queue of two with four events overflows, fills a
batch and leaves a rest; three faults exceed the two attempts of a batch, so the
fallback meets a broken connection as well as a bad row. Two requests of a
session are the least whose phases mix; one change of policy falls into every
await of either. A second and a third record are the least that let a late
transaction race its successor; two ticks a second let a period begin between
the seconds of the chain, and six instants pass the four of a day. Stakes of 1, 2
and 3 reach both sides of the two-thirds boundary. A third proposal of one slot is
the least for a repeated expiry. Two channels show a settlement that pays from
another deposit, two payments a claim that is replaced,
and a state signed past the manager, under a lower or a higher nonce, what else may
replace it or be replaced. Three steps hold a chain
and a pair that runs at once; three settlements exhaust a channel after a repetition. Five leaves are
padded to eight, over two odd levels. Three calls of one prompt are the least
that a loop and a repeated window tell apart. The alert cooldown is longer than the
sweep's interval, so that an anomaly is due again between two sweeps.

Every bound is a named constant (`Max...`, `...Capacity`, `Window`, `Funding`) and
appears only in guards. The registry's nonce wraps at 2^64, timestamps are below
2^40 and amounts below 2^256, all out of reach. Qualities are hundredths and
amounts integers where the program uses floats.

`CHECK_DEADLOCK FALSE` is set where the system really stops: workers that end,
channels that are all settled, requests all answered, histories at their bound.

## Properties and their parts

A run's property is often a conjunction of named parts, each with its own comment
in the module. The ones a reader may look for:

- `RepeatsAreExplained` (QueueWorker): a row beyond an item's first is owed to a fault
  or to the cancelled write, in the table without a key of the item's own too.
- `FaultsStayLocal`, `WriterSettles` (QueueWorker): faults masked within the
  retries and a bad row alone dropped; each event settled and shutdown ends.
- `DecisionsExplained`, `RulesHonoured`, `CapturesExact` (Gateway);
  `KnowledgeKept`, `LoopSettles` (FitnessLoop).
- `AttestedOnce` and `RecordsVerify` (AttestationScheduler): what may be repeated
  or left out; that the totals of a record are those of the events under its root but
  for late events and, over a day, the broken days at both ends; and that the backward
  walk finds the record of every attested period.
- `VotesDecide` (MCWorkers): a record of the consensus provider had its majority,
  is there once and cost its voters their share once if challenged; a governance
  verdict goes with the votes.
- `WorkflowsPaid` (Settlement): dependencies and splits over failures and timeouts;
  shares that cover what was settled, and earnings that are paid through channels or on
  record as owed, by an engine with a channel manager and by one without. `ContractsKeepBooks` (MCWorkers): solvency, supply,
  ranking.
- `EvidenceIsReal` (MCServices): a drift rests on a fall, an impact on spend, a
  signal on a repetition.
- `RefinesChain`: the consensus contract's registry (`ProposalSlots`) and the
  in-memory provider (part of `ProviderKeepsChain`) implement `AttestationChain`.

## Fairness

Only what the program's scheduling gives. `QueueWorker!FairSpec` assumes that the
worker's own steps go on: the event loop runs ready tasks, awaits on the database
and timeouts end. Producers, shutdown and cancellation may never happen.
`FitnessLoop` assumes the same of the refresh task and the benchmark worker, and
strongly of the refresh's last step, so that a database which answers again and
again is at some time not overtaken by a failure; `TiersTakeEffect` and
`MeasurementsArrive` hold for a refresh that is retried, as the loop does.
`MCWorkers` assumes that a level's results are collected and the execution
timeout fires, that the tool-call writer runs, and that the checker and its clock
go on, each only while its component is the active one. The other modules state
safety only: nothing in the code makes a node mine, a validator vote, an owner
resolve or a client return.

## Proofs

`QueueWorkerProofs` proves for all values of the constants `WorkerInvariant`:
`Spec => []IInv`. `IInv` is `TypeOK`, the promise that nothing is lost silently,
and what makes it inductive: there is a batch while one is flushed and none where
`run()` keeps none, and the fallback splits the batch into items still to do and
settled ones. `TypeCorrect` and `NothingLostSilently` follow.
`RowsAreRepeatedByFaults` counts, for each item, its rows and whether it is still to be
written: the sum stays within one, the faults and the cancelled write (`RepeatInv`).
`FaultsStayWhereTheyAre` (that faults within the retries are masked, and that of a
batch only the bad row is dropped) needs two more invariants on top of it: the queue repeats
nothing and shares nothing with the batch and the table (`ItemsApart`), and every
attempt beyond the first cost a fault, while a batch is stored as a whole or not at
all (`FaultInv`). It assumes `WorkerAssumption` only. An attempt to prove it showed
that masking fails once a task was cancelled while writing and a lazy writer was
started again, which three events are too few to reach: the cancelled task's rows may
be there, so that the drain falls back at once. The property therefore excludes
behaviours in which a write was cancelled (`interrupted`), and the run has four events.

`GatewayProofs` proves the three properties of `Gateway` for any requests, sessions,
policies, matrices, catalogue and queues. Its invariant (`GatewayInv`) is one per
request (`ReqInv`: no decision before the request was routed, and until then the policy
in hand is one of those that were active), one per session (a window of tasks), one per
queued decision (`Explained`: its request was routed, and while it is still under way
holds the policy and the rule the row names) and one of what was captured (`CaptureInv`:
a complete request has one event, queued or written, or one drop, and no other has any). It rests on two
lemmas about the engine: what `resolve()` may answer (`ResolveOutcome`, with the first of
the matching rules as the one that decides, `FirstExists`) and what sharpening does to a
rule (`Sharpened`). A request that is being classified changes only by being routed
(`OnlyRouting`), so what was chosen is a matter of that one step: from it follow
`RulesAreHonoured`, with a lemma that a confidence matters to the engine only by
reaching its threshold (`ConfidenceThreshold`), on which the agreement of the dry run
rests. `CapturesAreExact` is `CaptureInv` itself. It assumes that
profiles, policies and matrices have the types the program validates them to have
(`ProfilesAssumption`, `RoutingAssumption`), that a window is at least its minimum
(`WindowAssumption`), and queues of at least one (`CapacityAssumption`).
`ConversationsAreValid` proves `ConversationsValid` for conversations of any length,
any providers and any number of calls. The invariant is one of the client's history
(`History`): calls come in order, and an answer names a call of the message before it,
or one older than every call that is left (`AnswersMatch`). So a call that some answer
names has it in the very next message (`KeptAnswered`), which taking out the others
leaves alone; numbering anew keeps identifiers apart because a larger number has a
larger rank (`RanksDiffer`, `RenamedApart`). Splitting and converting replace each
message by a few and join them; in such a join what follows an element is what follows
it in its own part or begins the next (`FlatIs`), so that an answer with calls stays
followed by their results alone (`SplitIs`) and, in either conversion, by the tool
messages (`JoinedAnswers`). The replay's order is right for this reason only: no split
message of results has a text. It needs that a client answers calls of the
last message only, and that providers give new identifiers.

`ChannelProofs` proves for any number of channels, deposits, payments and instants
`ChannelInvariant`: `Spec => []Inv`. None of the properties is inductive by
itself: that a claim is covered by the deposit rests on the manager's channel
having been registered with the deposit locked on the chain (`LinkInv`), on every
state of the manager lying behind its current one (`Behind`), and on the claim
being a signed state within the deposit (`ContractInv`). `DepositsAccounted`, `PaymentsWereSigned`,
`SignedStates` and, from a lemma about one step (`ClaimSteps`), `ClaimsAreHonoured`
follow. The sender may sign any other state with its own key, which the
contract takes as it takes the manager's: a claim may shrink by such a state, and by no
other, and both may settle for less than a claim that was one. It assumes
`ManagerAssumption` and `ChannelAssumption`, that the receiver's key signs only what
`Close` makes it sign, and that a client registers a channel with the deposit it locked.

`ConsensusProofs` proves for any number of validators, proposals and challenges,
any amounts, cooldown and minimum. For the staking contract alone, from
`StakingAssumption`: `TypeCorrect`, `WeiAccounted`, `RankFollowsStake`,
`RequestsCovered` and together `StakesAreSound`. The invariant is one per validator
(`ValidatorInv`); `OneStake` shows once that a call about a validator leaves the
others alone, and each call is then looked at for its own.

For both contracts together, from `ConsensusAssumption` as well:
`ConsensusInvariant`. Its parts are one per proposal (`ProposalInv`: the stake
counted, and a voter in favour) and one per challenge (`ChallengeInv`: one not
resolved is the active one of a proposal not yet slashed; one that was won has its
proposal slashed), and the stakes' own invariant, which a won challenge keeps
although it slashes any number of voters at once (`SharesInv`, with the arithmetic
of a share in `Share`). `FinalizationIsBacked`, `SlashedOnce`,
`StakesSoundUnderConsensus` and, from the invariant and one step, `OnlyYesVotersLose`
follow. `CompetitionIsExplained` has an invariant of its own (`SlotsInv`): a slot
holds the last proposal made for it until it is freed, and a proposal in time holds
its slot unless an earlier one was expired, because what can be expired is older
than what is in time. The arrays of the contract are sequences over their own range
(`Push`, `Write`), so that nothing has to be said about the entries' other fields.

The registry under them is proved to implement `AttestationChain`, by itself
(`RegistryImplementsChain`) and under the consensus contract (`ConsensusKeepsChain`).
The invariant is one of ledgers, states of the storage (`LedgerInv`: each record is
linked to the one before), so that a batch is two steps of `AttestedGrows` on ledgers,
and `GrownExtends` maps a ledger that grew to a step of the chain. Because a record's
hash holds its nonce, what is linked to it has one place (`OnePlace`); so
`FinalizedRecordedOnce` follows, and with it and `CompetitionIsExplained` all of
`SlotsSound` (`SlotsAreSound`). The proof showed that the uniqueness of records holds
within an organisation only: two organisations count their nonces separately.

What a sum over channels or validators does in a step is in `Sums`. The induction
it needs is over sets, not over an operator: a set of numbers, or of finite sets,
that holds the first and with each its next holds all. From it follow that a sum
over a finite set exists and splits off any one element (`SumSplit`, `SumAdd`,
`SumOneChanged`), and that a function defined by recursion over `0..n` exists, is
unique and grows with its sequence (`RecursionExists`, `RecursionAgrees`,
`TotalExtended`). With them `EscrowIsSound` proves that what the channel contract holds
is what its channels hold, and for the validators' stakes `StakesAreHeld` (what the
staking contract holds is what it owes, from `FiniteValidators`) and `SlashingIsSound`:
a won challenge pays a bond and half of a sum of shares, neither below zero, and
reverts when the balance does not cover it (`PurseInv`).

`SchedulerProofs` proves for any clock, any length of a second and of a day and any
number of events and transactions `EventsAttestedOnce` and `NoEventIsSkipped`,
together `EachInstantOnce`, and `RecordsStandUp`. The registry accepts a transaction
only if it names the hash of the latest record. So a record starts where the
cycle that read its predecessor let it start, however late it is mined: this link
between neighbours (`LedgerInv`) is what every transaction in the pool carries
(`PoolInv`) and what a running cycle has gathered so far (`CycleInv`). That periods
do not overlap is then a walk along the chain.

`ServicesProofs` has six components of `Services`, `FitnessLoop`, and `Billing` of `Workers`. `LocalProviderKeepsChain` is a
refinement proof: the provider with its batches implements `AttestationChain`, and
what makes it inductive is that the snapshot a batch would fall back to is a prefix
of the present store (`SnapshotInv`). `TracesAreSound` rests on the nesting of the
blocks a task opened and on one invariant per call (`CallInv`); `IdentitiesAreKept` on
ids given once, on each copy of a user carrying the role given last, and on who
logged in last being the first user with the account (`LoginsInv`).
`KnowledgeIsKept` rests on a chain of what covers what (`MatrixInv`): each measured
entry of the cache has its row in the database and, while a refresh is between its
two awaits, in the rows it has read, although operators rebuild the cache meanwhile.
`AdjustedWithin` bounds what feedback does to one quality. The proof showed that a
model outside the catalogue has no synthetic quality to stop at: `FeedbackBounded`
says so now. It assumes ranges of the catalogue (`CatalogAssumption`) and that a row
of the matrix averages at least one result (`FeedbackAssumption`), as the view's
grouping does. That measurements arrive and the worker ends is liveness
(`LoopSettles`) and stays with TLC.
`TasksAreSettledFairly` proves `TasksSettleFairly`. An address submits once, so that
the winners of a settlement are at most as many as the submissions near the agreed
score, and their equal shares at most the reward (`SharesWithin`); that every later submission
pays it once more is what the code does, and the bound says so (`TasksInv`). The medians are not computed:
all that is needed is that one lies between the bounds of what it is taken of
(`MedianBetween`), hence that the agreed score is within a tolerance of the median all
were near, and those near it are not its outliers (`OutlierApart`). Where the tolerance is more than half of
the slash tolerance, which no code prevents, one of those who agreed may be an outlier
of their agreement and lose stake: then one fewer stand against it (`Needed`).
`ReportsAreEvidence` proves `RootsAreEvidence` for trees of any size. The recursive
functions of the tree (powers of two, layers, the climb of a proof) exist because
each is the longest of its initial pieces (`PowersExist`, `LayersExist`). Counted from
the root, row `k` of a tree has a power of two of nodes, each the hash of two of the
next row (`RowIs`), and a proof climbs from a leaf through its ancestors
(`ProofVerifies`). A hash is a term, so equal pairs come from equal sets of two: equal
roots match the rows of two trees one to one, down to the leaves of the lower tree
(`PairsMatch`, `RowsMatch`), and as a leaf is never a pair the trees are of one height
(`HeightsAgree`). What matches are the leaves with their padding, from which the
contents and how often each occurs follow (`RootPins`, `RootsPinLeaves`). That hashing
a pair as a set does not confuse two trees is the point of it: it loses the order of
the leaves and nothing else. What a filed report lists are the rows in its
period that were stored when it was made, each once and by time (`PeriodRowsAre`,
`AuditInv`); rows stored behind its period do not change it.
`RequestsAreClassified` proves `ClassificationSound` for any keywords, messages and
token counts. A score is a sum of signals (`ScoreIs`). Where no task has 30,
small talk gets 35 more, so that the highest score is always enough for a label
(`ClassifyIs`). A short answer with a low token ratio gives classification 30, and the
tools of a request give 20 at most, so that beforehand small talk, and tool selection
ever, takes a keyword or calls (`TasksHaveReasons`). The counts of an evaluation are
cardinalities of what was predicted and expected so far, and the calibration's
buckets partition the examples. It assumes that keyword lists are finite and
tokens natural numbers (`ClassifierAssumption`).
`BillsAreReconciled` proves `ReconciliationSound`. However the results are sorted, there is
one for every source, an invoice line or usage no line was about (`ReconcileLists`); a
strict order numbers any finite set (`OrderNumbers`). Each result of a clean invoice
accounts for a part of what was observed; the parts have nothing in common and cover
all of it (`UsageApart`, `UsageCovers`), so that the totals are sums over disjoint parts
(`SumOfParts`). A sum is within the threshold if each of its terms is (`SumWithin`),
whatever is aggregated. The keys of a clean invoice's results are different, hence the
hash is one of the set of results, which reversing the lines leaves alone (`HashIs`,
`ReverseSame`). The proof needed costs that are not negative where lines are quiet:
the parsers accept credits, which invoices have, and a credit without usage is never
notable. The model has credits now and the property leaves them room.

`WorkersProofs` has the components of `Workers` but billing, each proved for the specification
in which they are run together. `StreamsNest`: until a second tool call is
named or text follows a call, the client's open block is the one the generator writes, and
after that the client has lost its way for good (`BridgeInv`).
`VotesAreDecisive`: a record that is no longer pending, and every finalization in
flight, had its majority at some prefix of its votes (`Carried`), which late votes
leave in place, and as long as no validator left, a stake is its deposit cut by one
share for every challenge won against it (`SharesInv`). `GraphsAreKept`: what
is known of calls and edges is exactly what is queued, in a batch, stored or
reported (`McpInv`). `BenchmarksResume`, for any fixture, models, judge's answers
and batch size: what is still to be written is not in the table yet for this run,
and at most as often as runners were used again (`TableInv`), and the counts of a run
add up at each of its phases (`JobInv`); a quality is a fraction because the weights
of every rubric add up to a hundred (`RubricsAddUp`). It assumes what the code
takes for granted, that a model is listed once (`BenchAssumption`): `run()` does not
remove duplicates, and a model listed twice would be benchmarked twice. `ContractsAreKept`
proves `ContractsKeepBooks` of the remaining contracts. A settlement is a loop of
transfers, any of which may be to the payer itself, the treasury twice, or fail; the
proof follows it payment by payment (`AfterPays`): each leaves the sum of the balances
alone and gives its receiver, unless that is the payer, what it names (`PaidFrom`),
so that the whole of it moves what the shares and fees of the call add up to
(`OwedAddsUp`). The invariant (`RevenueInv`) needs nothing of allowances. The ranking
is a recursive function too: the agents picked so far are distinct and nobody left out
is better (`Picked`), whatever the scores. Each call about one stake moves the purse by
what it moves the stake and its slashes together (`StakeMoves`). Accounts and agents
are taken to be finite, which addresses and hashes are, and participants of a
settlement to be among the holders (`RevenueAssumption`, `TrustScoresAssumption`).
`CooldownIsRespected` is the safety part of `AlertsSound`: an entry of the table of
cooldowns says how long its rule has been quiet, and a rule without one has been quiet
for a cooldown (`QuietInv`), so that pruning forgets nothing that holds a rule back.
`WorkflowsArePaid` proves `WorkflowsPaid` for any definitions, costs, split rules, fee
and deposits, with a channel manager and without. What the sort has put into levels so far grows with every level
(`BeforeGrows`) until it is the whole definition, because a set of steps none of which
is ever first would be a cycle that validation refuses (`AllLevelsEnd`); the results
of a running execution account for the levels behind it, each step once and after the
steps it depends on (`ResultsInv`), and those steps succeeded (`LevelInv`), so that a
failure or a timeout in the midst of a level starts nothing above it. The books
(`BooksInv`) follow a settlement share by share (`PaySharesSettles`): what leaves the
channels to a participant is what the share says was paid, whichever channel it was
found in, a participant named by two rules and channels opened meanwhile included; what
is not paid is owed (`OwedInv`), and an engine without a manager has no channel to pay
from (`FreeInv`).
Truncation loses less than a unit for each split and rounding half a unit for each
share because quotients of a sum's terms are bounded together (`Proportions`). It
assumes that sorting lists each step once (`StepsAssumption`), and of weights, fee and
deposits what their types require (`PaymentAssumption`); that some rule has a weight is
checked by `calculate_shares` and a guard of the model.

`AdviceIsSound` proves `AdviceHolds`, of waste and of budgets. What is advised is the
cheapest of some models each of which is cheaper than the one in use: those that
measured well enough, or those of a lower tier (`CheapestIs`, `AdviceIsCheaper`). As
the report asks for more quality than the score, its candidates are among the
score's (`OverkillIsScored`). The longest run is at least three exactly if three
calls in a row are alike, and two of them are a group of repeated calls whose savings
the report adds to the loop's (`LoopsAre`). Of a group of calls within the window any
that is not the first has one before it (`MissesWereCacheable`). That lower tiers are
cheaper is an assumption about the catalogue (`TiersAssumption`), which TLC evaluates
for the whole catalogue of `models.py`. That catalogue is what the budget half is
about: the path a caller steps down loses height with every model (`PathHeight`), and
no tier of it is followed by a dearer one. The prices of the catalogue show that each
step of it is to a cheaper model but from the two of `DearerNext`, where it is to a dearer
one (`PricesOfTools`, `PricesOfOthers`).

Only model-checked: liveness and ENABLED (out of the prover's reach: `WriterSettles`,
`LoopSettles`, `WorkersEnd`, and the half of `AlertsSound` about what must come),
and the windows of `EvidenceIsReal`. The proofs use no operator of the
library that enumerates or overrides functions with `@@`, so that models they are
about write these as functions.

## Disagreements found

Three runs end in a violation of something a comment states: a rule's fallback may
be measured below the quality floor (`BelowFloor`), a challenge won cannot be paid
from the slash (`ConsensusPayout`), and an expiring channel takes an unchallenged
claim with it (`ChannelReclaim`). `PROJECT.json` quotes the lines.

Modelling met more that the models reproduce and the properties leave room for:

- Capture: `close()` may leave an event in an ended task's queue
  (`pipeline/callback.py:87`), against "draining queued events". An upstream that
  cannot be reached leaves no event; a streamed error status is captured as a
  success; a client that leaves may take its event with it. An event that a full queue
  refused is sampled all the same, so that a benchmark may name one that is not stored.
- Routing: the policy is read before the classifier is awaited. A fallback is
  checked neither against floor nor tools; stepping down a phase may choose a
  dearer model; the plan-mode model is not looked up among the upstreams' models.
  Routing switched on at run time has no refresh task and no decision queue. A
  user's policy with version 0 is taken for the generated one. The stale mark set
  during a refresh is cleared by it, and a failing refresh of a stale matrix is
  retried without a pause.
- Streams: between two tool calls the index does not advance nor the first block
  close, and text after a tool call opens a block at the index of the tool's, still open
  (`api/routes/proxy.py:1399-1404`); a stream that ended for its length reports `end_turn`.
- Classification: with no tokens known beforehand `low_token_ratio` always counts,
  so the fallback to conversation never fires before the call; Anthropic
  `tool_use` blocks never count as tool calls; a garbled label becomes UNKNOWN
  without the rules; calibration confidences of .3, .6 and .7 land one bin low.
- Catalogue and budgets: two downgrades lead to a dearer model
  (`gpt-5.2-chat-latest`, `kimi-k2-thinking`), against "the next-cheaper model"
  (`models.py:401`); `check_budget` has no caller, and at
  full use may say nothing where 95 % alerts.
- Conversations: an answer whose call was truncated away stays; a repeated foreign
  id re-points earlier answers; replay puts a user's text before tool answers,
  routing after.
- Feedback: proxy events carry no session, so the detector never matches them; a
  retry over the boundary of two cycles is missed; a failed cycle inserts again.
- SDK: calls of one decorated function share a hash; patching twice reports twice;
  a refused report is not repeated.
- Benchmarks: an item in flight is lost at cancellation, a second cancellation
  loses the drain's rest; an unreadable judge's answer counts as 0.
- Alerts: nothing starts the checker; a failed dispatch is silent for a cooldown.
- Validators: every submission after an agreement settles the task again and pays
  its reward again, although `reward_per_task` (`validators/economics.py:33`) is one
  for the task; two
  challenges at once slash twice; `validators_agreement_tolerance` (`config.py:116`) is
  not checked against the fixed slash tolerance, and above half of it one of those who
  agreed may be slashed. Governance decides at the first read with a
  quorum, before the deadline.
- Marketplace: each router has stores of its own. `POST /interop/invoke` looks listings
  up in one that nothing fills (`api/routes/interop.py:42-47`) and always answers 404,
  so that nothing is metered or disputed; the trust registry behind listings
  (`routes/registry.py:45-54`) is not the one ratings go to (`routes/trust.py:18`).
- Payment: the engine behind `POST /revenue/settle` has no channel manager
  (`api/routes/revenue.py:28-38`), so that every share is on record as settled
  (`revenue/settlement.py:162-164`) and none is paid; with a manager some shares may be
  unsettled, against "all shares marked settled" (`revenue/settlement.py:68`).
  `settle()` is not idempotent and takes the first channel that is open;
  `challengeClose` takes the sender's signature as "proving this state was agreed"
  (`AgentProofChannel.sol:166`) and a higher nonce for the newer state, so that a sender
  that signs past its manager replaces an agreed claim by a smaller one;
  on the chain anyone may settle an execution id first. A failing step loses the
  results of its level's later siblings, a timeout the whole level.
- Attestation: the totals of a period over a day lose its first, broken day and gain
  the rest of its last (`db/queries.py:689`), which the next period may count again; expiring an old proposal again frees the slot given to a
  newer one (`AgentProofConsensus.sol:358`), against "One active proposal per
  (orgIdHash, nonce)". Billing always submits nonce 1 without a predecessor.
- Billing: an invoice that bills a model and its whole provider counts usage
  twice; a credit, a line of negative cost, is not notable unless something was
  observed (`billing/reconciler.py:166`), and may hide any discrepancy of the
  bill. Waste: advice is also given where measured fitness speaks against it, and
  calls in a loop count twice. The loop detector takes identical arguments only
  (`waste/detectors/agent_loops.py:109`), against "similar (not identical)"
  (`waste/detectors/agent_loops.py:4`) and the threshold for it.

## What is abstracted

Content of events, prompts, answers and records; hashing is injective. Keyword
texts of the classifier are the set of keywords found in them. The blocks of a
message are a set, and the tool messages it is converted to are one. `daily_summary` is
a view taken as refreshed. Gas and block structure; a replaced transaction is one
the node accepted with the same count. The Merkle proof of a challenge, deadlines
the contract stores and never reads, `registeredAt`. The t-test of the drift
detector is a free choice over two windows. The five dimensions of a trust score
are their composite.

Where the program reads or waits in smaller steps than the model:

- A benchmark result counts for the fitness matrix at once (`FitnessLoop`, `Waste`);
  `fitness_matrix` is a continuous aggregate that is refreshed daily
  (`pipeline/schema_benchmarks.sql:40-57`). The delay is one more of those the loop's
  refresh already has, and it has no bound in the properties.
- The totals of a record come from three awaited queries (`db/queries.py:707`, `718`,
  `727`); `ReadMetrics` is the first. An event that arrives between them is in the
  distribution of models and the waste score but not in the totals.
- `evaluate_rule` of `AlertChecker` returns nothing (`alerts/checker.py:63-74`): a rule
  fires in a subclass only. The model lets any rule evaluate to an alert with its
  severity or to none, so what is checked is the machinery of cooldowns and dispatch.
- The waste report runs over the calls of one organisation, one tool call to an event;
  that some of its queries take the organisation as a condition and others do not
  (`db/queries.py:539-640`), and the order of two tool calls that share a `created_at`,
  are left out.

## Not modelled

- Presentation of rows, with no state of its own: dashboard, command line, GitHub
  action, statistics, event, health and evaluation routes, reports' wording,
  severities and formats, fitness comparison and trends, cost estimates.
- Pure I/O and data: HTTP headers and credentials, parsing of usage fields and
  invoices, the encoding of signed messages, `scripts/seed_demo.py` (which inserts
  sample rows), SQL of statistics over one snapshot.
- Thin callers of operations that are modelled: the attestation routes, channel
  sessions and the channel benchmark, discovery and the protocol bridge.
- The marketplace (listings, trust scores, metering, disputes): dictionaries that no two
  routes share, so that nothing of them interacts. `decay_scores` and
  `suspend_listing` have no caller.
- Code no caller reaches: `settle_workflow`, which would pay an execution's splits
  (`workflows/payments.py:82`), the A/B test of the router (never installed), the
  context-bloat detector (its raw events are never passed), audit schedules (stored
  and never run), `update_accuracy` of validators (called by tests only).
- Float arithmetic and its truncation to wei, for which the checker has no
  numbers; sums of payments are integers here.
- `EVMProvider.batch_submit` and its set of organisations seen; slugs, plan limits
  and usage counters of tenants; benchmark targeting, a ranking over one snapshot.
- The five queries the waste analysis runs at once on one session: what happens
  then is decided by the database library.
