----------------------------- MODULE AuditTrail -----------------------------
(***************************************************************************)
(* Compliance reports (blockthrough/compliance): the events of a period    *)
(* become audit records, the records a report sealed by a Merkle root, and *)
(* a framework names the fields a report must have. Events arrive late: a  *)
(* row may be written behind the periods that were already reported.       *)
(***************************************************************************)
EXTENDS Integers, FiniteSets, SequencesExt

(* ------------------------------------------------------------------------- *)
(* The Merkle tree over the leaves of an attestation                         *)
(* (attestation/merkle.py).  A hash is the term it was made from, so that    *)
(* equal hashes come from equal contents; a pair is hashed as a set, as      *)
(* the code sorts it first.  Two lists grow side by side to be compared.     *)

CONSTANTS LeafData,   \* the contents of leaves
          MaxLeaves   \* bound on the leaves of one tree

ASSUME MerkleAssumption == MaxLeaves \in Nat

VARIABLES leaves, others  \* the contents of two trees, in order
merkleVars == <<leaves, others>>

LeafHash(data) == [data |-> <<data>>, pair |-> {}]
EmptyLeaf == [data |-> <<>>, pair |-> {}]
HashPair(a, b) == [data |-> <<>>, pair |-> {a, b}]

(* The layers: the leaf hashes padded to the next power of two, then the    *)
(* hashes of their pairs, up to the root.                                   *)
PowerOfTwo[h \in Nat] == IF h = 0 THEN 1 ELSE 2 * PowerOfTwo[h - 1]
Height(n) == CHOOSE h \in 0..n : PowerOfTwo[h] >= n /\ (h = 0 \/ PowerOfTwo[h - 1] < n)
Padded(data) ==
    [i \in 1..PowerOfTwo[Height(Len(data))] |->
        IF i <= Len(data) THEN LeafHash(data[i]) ELSE EmptyLeaf]
Above(layer) == [i \in 1..Len(layer) \div 2 |-> HashPair(layer[2 * i - 1], layer[2 * i])]
Layers(data) ==
    LET layer[h \in 0..Height(Len(data))] ==
            IF h = 0 THEN Padded(data) ELSE Above(layer[h - 1])
    IN  layer
Root(data) == Layers(data)[Height(Len(data))][1]

(* get_proof and verify_proof, indices from zero as in the code.            *)
Sibling(idx) == IF idx % 2 = 0 THEN idx + 1 ELSE idx - 1
Ancestors(leaf, height) ==
    LET idx[h \in 0..height] == IF h = 0 THEN leaf ELSE idx[h - 1] \div 2 IN idx
Proof(data, leaf) ==
    LET idx == Ancestors(leaf, Height(Len(data)))
    IN  [h \in 1..Height(Len(data)) |-> Layers(data)[h - 1][Sibling(idx[h - 1]) + 1]]
Verifies(hash, proof, root) ==
    LET up[h \in 0..Len(proof)] == IF h = 0 THEN hash ELSE HashPair(up[h - 1], proof[h])
    IN  up[Len(proof)] = root

-----------------------------------------------------------------------------
MerkleInit == leaves = <<>> /\ others = <<>>
MerkleNext ==
    \/ Len(leaves) < MaxLeaves /\ UNCHANGED others
       /\ \E d \in LeafData : leaves' = Append(leaves, d)
    \/ Len(others) < MaxLeaves /\ UNCHANGED leaves
       /\ \E d \in LeafData : others' = Append(others, d)

(* The proof made for a leaf verifies its content against the root, and no  *)
(* other content in its place.                                              *)
ProofsVerify ==
    \A i \in DOMAIN leaves : \A d \in LeafData :
        Verifies(LeafHash(d), Proof(leaves, i - 1), Root(leaves)) <=>
            d = leaves[i]

(* Two trees with one root hold the same contents, each as often: nothing   *)
(* can be added, dropped or repeated under a root that was anchored.        *)
Count(data, d) == Cardinality({i \in DOMAIN data : data[i] = d})
RootPinsLeaves ==
    (leaves # <<>> /\ others # <<>> /\ Root(leaves) = Root(others)) =>
        \A d \in LeafData : Count(leaves, d) = Count(others, d)

(* ------------------------------------------------------------------------- *)
(* Compliance reports                                                        *)

CONSTANTS
    EventKinds,  \* what events may say: [task, tools, sensitive, oversight, agent]
    AuditOrgs,
    MaxAuditEvents, MaxClock, MaxFiled \* bounds: rows, clock, reports

ASSUME AuditAssumption ==
    /\ {MaxAuditEvents, MaxClock, MaxFiled} \subseteq Nat
    /\ \A k \in EventKinds : {k.tools, k.sensitive} \subseteq BOOLEAN

VARIABLES
    stored, \* llm_events: [kind, org, at]; the index of a row is its id
    filed   \* the reports made: [org, from, to, report, seen]

auditVars == <<stored, filed>>
Anonymous == ""  \* no agent_name

(* Risk levels, in order. *)
Low == 1
Medium == 2
High == 3
Critical == 4
Levels == Low..Critical

\* The first rule that applies decides.
ClassifyRisk(task, tools, sensitive) ==
    IF task = "reasoning" /\ sensitive THEN Critical
    ELSE IF tools /\ (sensitive \/ task \in {"code_generation", "code_review"}) THEN High
    ELSE IF task \in {"classification", "extraction", "tool_selection"} THEN Medium ELSE Low

\* agent_name or trace_id: every event has a trace of its own here.
AgentId(e, id) == IF e.kind.agent # Anonymous THEN <<e.kind.agent, 0>> ELSE <<Anonymous, id>>

\* The record of row id.
BuildRecord(id) ==
    LET e == stored[id] IN
    [event_id |-> id, timestamp |-> e.at, agent_id |-> AgentId(e, id), task |-> e.kind.task,
     decision_type |-> IF e.kind.oversight THEN "human_in_loop" ELSE "autonomous",
     human_oversight_flag |-> e.kind.oversight,
     risk_level |-> ClassifyRisk(e.kind.task, e.kind.tools, e.kind.sensitive)]

\* record_hash: the record is sealed by all it says.
MutSealedContentOnly(record) == [record EXCEPT !.event_id = 0, !.timestamp = 0]
Sealed(record) == record

\* The rows of the period, by time.
Before(i, j) == stored[i].at < stored[j].at \/ (stored[i].at = stored[j].at /\ i < j)
InPeriod(id, org, from, to) == stored[id].org = org /\ stored[id].at \in from..(to - 1)
RowsBefore(rows, i) == {j \in rows : Before(j, i)}
ByTime(rows) ==
    [n \in 1..Cardinality(rows) |-> CHOOSE i \in rows : Cardinality(RowsBefore(rows, i)) = n - 1]
PeriodRows(org, from, to) == ByTime({i \in DOMAIN stored : InPeriod(i, org, from, to)})
BuildAuditRecords(org, from, to) ==
    LET ids == PeriodRows(org, from, to) IN [i \in DOMAIN ids |-> BuildRecord(ids[i])]

GenerateReport(records) ==
    [records |-> records,
     overseen |-> Cardinality({i \in DOMAIN records : records[i].human_oversight_flag}),
     risk |-> [l \in Levels |-> Cardinality({i \in DOMAIN records : records[i].risk_level = l})],
     root |-> Root([i \in DOMAIN records |-> Sealed(records[i])])]

(* What the frameworks require. The hashes of prompt and completion and the  *)
(* model are part of every row and left out here.                            *)
RequiredFields(framework) ==
    CASE framework = "eu_ai_act" -> {"risk_level", "human_oversight_flag", "decision_type", "timestamp"}
      [] framework = "soc2" -> {"timestamp", "agent_id"}
      [] framework = "hipaa" -> {"timestamp", "human_oversight_flag", "risk_level"}
      [] framework = "financial_services" ->
            {"timestamp", "agent_id", "risk_level", "decision_type", "human_oversight_flag"}
Frameworks == {"eu_ai_act", "soc2", "hipaa", "financial_services"}
Violations(report, framework) ==
    IF report.records = <<>> THEN {<<"no records">>}
    ELSE {<<"agent_id", i>> : i \in {j \in DOMAIN report.records :
                                       /\ "agent_id" \in RequiredFields(framework)
                                       /\ report.records[j].agent_id = <<Anonymous, 0>>}}
         \cup (IF framework = "eu_ai_act" /\ \A l \in Levels : report.risk[l] = 0
               THEN {<<"no risk distribution">>} ELSE {})

-----------------------------------------------------------------------------
AuditInit == stored = <<>> /\ filed = <<>>
\* A row is written, late or not: its time is that of the call.
StoreEvent(kind, org, at) ==
    /\ Len(stored) < MaxAuditEvents
    /\ stored' = Append(stored, [kind |-> kind, org |-> org, at |-> at])
    /\ UNCHANGED filed
File(org, from, to) ==
    /\ Len(filed) < MaxFiled
    /\ filed' = Append(filed, [org |-> org, from |-> from, to |-> to, seen |-> Len(stored),
                               report |-> GenerateReport(BuildAuditRecords(org, from, to))])
    /\ UNCHANGED stored
AuditNext ==
    \/ \E kind \in EventKinds, org \in AuditOrgs, at \in 0..MaxClock : StoreEvent(kind, org, at)
    \/ \E org \in AuditOrgs, from \in 0..MaxClock : \E to \in from + 1..MaxClock + 1 : File(org, from, to)

ListedIn(i) == {filed[i].report.records[j].event_id : j \in DOMAIN filed[i].report.records}

\* Consecutive periods share no event and lose none: whatever was stored when both
\* reports were made is in exactly one of them.
ConsecutiveReportsPartition ==
    \A i, j \in DOMAIN filed :
        (filed[i].org = filed[j].org /\ filed[i].to = filed[j].from) =>
            \A id \in (1..filed[i].seen) \cap (1..filed[j].seen) :
                (stored[id].org = filed[i].org /\ stored[id].at \in filed[i].from..filed[j].to - 1) =>
                    (id \in ListedIn(i)) # (id \in ListedIn(j))

\* The root commits to the trail: two reports with one attestation_hash list the
\* same events, so an event that arrived in between always changes the root.
RootsNameTheirEvents ==
    \A i, j \in DOMAIN filed :
        filed[i].report.root = filed[j].report.root => ListedIn(i) = ListedIn(j)

\* Every report that has an event at all satisfies every framework: no event, not
\* even one of an unnamed agent, makes a report that a framework refuses.
ReportsWithEventsComply ==
    \A i \in DOMAIN filed, f \in Frameworks :
        Violations(filed[i].report, f) = {} <=> ListedIn(i) # {}

\* Tools or sensitive data never make the same call a lower risk.
SignalsNeverLowerRisk ==
    \A i \in DOMAIN stored : LET k == stored[i].kind IN
        \A tools, sensitive \in BOOLEAN :
            ((k.tools => tools) /\ (k.sensitive => sensitive)) =>
                ClassifyRisk(k.task, k.tools, k.sensitive) <= ClassifyRisk(k.task, tools, sensitive)

\* A filed report is evidence: consecutive reports partition the events, the root of one
\* names the events it lists and no others, every event can be proved to be under it,
\* and its risk is none of the signals' less.
RootsAreEvidence ==
    /\ ProofsVerify /\ RootPinsLeaves
    /\ ConsecutiveReportsPartition /\ RootsNameTheirEvents
    /\ ReportsWithEventsComply /\ SignalsNeverLowerRisk
=============================================================================
