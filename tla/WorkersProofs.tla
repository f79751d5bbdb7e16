---------------------------- MODULE WorkersProofs ----------------------------
(***************************************************************************)
(* What is proved of the background workers and engines.                   *)
(***************************************************************************)
EXTENDS MCWorkers, Sums, SequenceTheorems

-----------------------------------------------------------------------------
(* Converted streams. As long as text came first and one call at most after  *)
(* it, the client's open block is the one the generator is writing.          *)
Writing == bridge.text \/ acc # {}
Kinds == {"text", "tool"}
Listeners == [blocks : SUBSET (Nat \X Kinds), open : SUBSET Nat, confused : BOOLEAN]
BridgeInv ==
  /\ IsFiniteSet(acc)
  /\ bridge \in [idx : Nat, text : BOOLEAN]
  /\ upstream = [at |-> upstream.at, deltas |-> upstream.deltas, mixed |-> upstream.mixed]
  /\ upstream.mixed \in BOOLEAN
  /\ client \in Listeners
  /\ client.confused <=> ~TextThenACall
  /\ acc = {} =>
       /\ ~upstream.mixed /\ bridge.idx = 0
       /\ client.blocks = IF bridge.text THEN {<<0, "text">>} ELSE {}
  /\ TextThenACall =>
       /\ bridge.text => acc = {}
       /\ upstream.at = "streaming" =>
            client.open = IF Writing THEN {bridge.idx} ELSE {}
       /\ upstream.at \in {"finished", "tool_use", "end_turn"} => client.open = {}

LEMMA ClientHears ==
  ASSUME NEW c \in Listeners, NEW idx \in Nat
  PROVE  /\ Hears(c, idx) \in Listeners
         /\ Hears(c, idx).blocks = c.blocks /\ Hears(c, idx).open = c.open
         /\ Hears(c, idx).confused <=> (c.confused \/ idx \notin c.open)
BY DEF Listeners, Hears

LEMMA ClientStops ==
  ASSUME NEW c \in Listeners, NEW idx \in Nat
  PROVE  /\ Stops(c, idx) \in Listeners
         /\ Stops(c, idx).blocks = c.blocks /\ Stops(c, idx).open = c.open \ {idx}
         /\ Stops(c, idx).confused <=> (c.confused \/ idx \notin c.open)
BY DEF Listeners, Stops

LEMMA ClientStarts ==
  ASSUME NEW c \in Listeners, NEW idx \in Nat, NEW kind \in Kinds
  PROVE  /\ Starts(c, idx, kind) \in Listeners
         /\ Starts(c, idx, kind).blocks = c.blocks \cup {<<idx, kind>>}
         /\ Starts(c, idx, kind).open = c.open \cup {idx}
         /\ Starts(c, idx, kind).confused <=>
              (c.confused \/ c.open # {} \/ \E b \in c.blocks : b[1] = idx)
<1>1. c.confused \in BOOLEAN /\ c.blocks \in SUBSET (Nat \X Kinds) /\ c.open \in SUBSET Nat
  BY DEF Listeners
<1>2. c.blocks \cup {<<idx, kind>>} \in SUBSET (Nat \X Kinds)
  BY <1>1
<1> QED BY <1>1, <1>2 DEF Listeners, Starts

LEMMA BridgeStarts == BridgeInit => BridgeInv
<1>1. IsFiniteSet({}) /\ Cardinality({}) = 0
  BY FS_EmptySet
<1> QED BY <1>1 DEF BridgeInit, BridgeInv, TextThenACall, Writing, Listeners, Kinds

(* What a delta leaves of the upstream's state.                              *)
LEMMA DeltaKeeps ==
  ASSUME BridgeInv, NEW m \in BOOLEAN, Delta(m)
  PROVE  /\ upstream.at = "streaming" /\ upstream'.at = "streaming" /\ upstream'.mixed = m
         /\ upstream' = [at |-> upstream'.at, deltas |-> upstream'.deltas,
                         mixed |-> upstream'.mixed]
BY DEF BridgeInv, Delta

LEMMA TextDeltaInv ==
  ASSUME BridgeInv, TextDelta
  PROVE  BridgeInv'
<1>1. /\ acc' = acc /\ client \in Listeners /\ bridge.text \in BOOLEAN /\ bridge.idx \in Nat
      /\ upstream.mixed \in BOOLEAN
  BY DEF BridgeInv, TextDelta
<1>2. /\ upstream.at = "streaming" /\ upstream'.at = "streaming"
      /\ upstream'.mixed = (upstream.mixed \/ acc # {})
      /\ upstream' = [at |-> upstream'.at, deltas |-> upstream'.deltas,
                      mixed |-> upstream'.mixed]
  BY <1>1, DeltaKeeps DEF TextDelta
<1>3. bridge' \in [idx : Nat, text : BOOLEAN] /\ bridge'.idx = bridge.idx /\ bridge'.text
  BY DEF BridgeInv, TextDelta
<1> DEFINE c == IF bridge.text THEN client ELSE Starts(client, bridge.idx, "text")
<1>4. /\ c \in Listeners
      /\ c.blocks = IF bridge.text THEN client.blocks
                    ELSE client.blocks \cup {<<bridge.idx, "text">>}
      /\ c.open = IF bridge.text THEN client.open ELSE client.open \cup {bridge.idx}
      /\ c.confused <=>
           \/ client.confused
           \/ ~bridge.text /\ (client.open # {} \/ \E b \in client.blocks : b[1] = bridge.idx)
  <2>1. "text" \in Kinds
    BY DEF Kinds
  <2>2. CASE bridge.text
    BY <1>1, <2>2
  <2>3. CASE ~bridge.text
    BY <1>1, <2>1, <2>3, ClientStarts
  <2> QED BY <2>2, <2>3
<1>5. client' = Hears(c, bridge.idx)
  BY DEF TextDelta
<1> HIDE DEF c
<1>6. /\ client' \in Listeners /\ client'.blocks = c.blocks /\ client'.open = c.open
      /\ client'.confused <=> (c.confused \/ bridge.idx \notin c.open)
  BY <1>1, <1>4, <1>5, ClientHears
<1>7. CASE acc = {}
  <2>1. /\ ~upstream.mixed /\ bridge.idx = 0 /\ TextThenACall /\ TextThenACall'
        /\ client.blocks = IF bridge.text THEN {<<0, "text">>} ELSE {}
        /\ client.open = IF bridge.text THEN {0} ELSE {}
        /\ ~client.confused
    BY <1>1, <1>2, <1>7, FS_EmptySet DEF BridgeInv, TextThenACall, Writing
  <2>2. client'.blocks = {<<0, "text">>} /\ client'.open = {0} /\ ~client'.confused
    BY <1>4, <1>6, <2>1
  <2> QED BY <1>1, <1>2, <1>3, <1>6, <1>7, <2>1, <2>2 DEF BridgeInv, Writing
<1>8. CASE acc # {}
  <2>1. ~TextThenACall'
    BY <1>2, <1>8 DEF TextThenACall
  <2>2. client'.confused
    <3>1. CASE ~TextThenACall
      BY <1>4, <1>6, <3>1 DEF BridgeInv
    <3>2. CASE TextThenACall
      <4>1. ~bridge.text /\ client.open = {bridge.idx}
        BY <1>1, <1>2, <1>8, <3>2 DEF BridgeInv, Writing
      <4> QED BY <1>4, <1>6, <4>1
    <3> QED BY <3>1, <3>2
  <2> QED BY <1>1, <1>2, <1>3, <1>6, <1>8, <2>1, <2>2 DEF BridgeInv
<1> QED BY <1>7, <1>8

LEMMA ToolNamedInv ==
  ASSUME BridgeInv, NEW i, ToolNamed(i)
  PROVE  BridgeInv'
<1>1. /\ acc' = acc \cup {i} /\ i \notin acc /\ IsFiniteSet(acc)
      /\ Cardinality(acc) \in Nat
      /\ IsFiniteSet(acc') /\ Cardinality(acc') = Cardinality(acc) + 1
      /\ acc # {} => Cardinality(acc) # 0
  BY FS_AddElement, FS_CardinalityType, FS_EmptySet DEF BridgeInv, ToolNamed
<1>2. /\ upstream.at = "streaming" /\ upstream'.at = "streaming"
      /\ upstream'.mixed = upstream.mixed /\ upstream.mixed \in BOOLEAN
      /\ upstream' = [at |-> upstream'.at, deltas |-> upstream'.deltas,
                      mixed |-> upstream'.mixed]
  BY DeltaKeeps DEF BridgeInv, ToolNamed
<1>3. /\ bridge \in [idx : Nat, text : BOOLEAN] /\ bridge' \in [idx : Nat, text : BOOLEAN]
      /\ ~bridge'.text
      /\ bridge'.idx = bridge.idx + IF bridge.text THEN 1 ELSE 0
  BY DEF BridgeInv, ToolNamed, NextBlock
<1> DEFINE c == IF bridge.text THEN Stops(client, bridge.idx) ELSE client
<1>4. /\ c \in Listeners /\ c.blocks = client.blocks
      /\ c.open = IF bridge.text THEN client.open \ {bridge.idx} ELSE client.open
      /\ c.confused <=> (client.confused \/ (bridge.text /\ bridge.idx \notin client.open))
  <2>1. client \in Listeners /\ bridge.idx \in Nat /\ bridge.text \in BOOLEAN
    BY <1>3 DEF BridgeInv
  <2>2. CASE bridge.text
    BY <2>1, <2>2, ClientStops
  <2>3. CASE ~bridge.text
    BY <2>1, <2>3
  <2> QED BY <2>2, <2>3
<1>5. client' = Starts(c, bridge'.idx, "tool")
  BY DEF ToolNamed
<1> HIDE DEF c
<1>6. /\ client' \in Listeners /\ client'.open = c.open \cup {bridge'.idx}
      /\ client'.confused <=>
           (c.confused \/ c.open # {} \/ \E b \in c.blocks : b[1] = bridge'.idx)
  <2>1. PICK k \in Nat : k = bridge'.idx
    BY <1>3
  <2>2. "tool" \in Kinds
    BY DEF Kinds
  <2>3. PICK d \in Listeners : d = c
    BY <1>4
  <2>4. /\ Starts(d, k, "tool") \in Listeners /\ Starts(d, k, "tool").open = d.open \cup {k}
        /\ Starts(d, k, "tool").confused <=>
             (d.confused \/ d.open # {} \/ \E b \in d.blocks : b[1] = k)
    BY <2>2, ClientStarts
  <2> QED BY <1>5, <2>1, <2>3, <2>4
<1>7. CASE acc = {}
  <2>1. TextThenACall /\ TextThenACall' /\ bridge.idx = 0
    BY <1>1, <1>2, <1>7, FS_EmptySet DEF BridgeInv, TextThenACall
  <2>2. /\ ~client.confused
        /\ client.blocks = IF bridge.text THEN {<<0, "text">>} ELSE {}
        /\ client.open = IF bridge.text THEN {0} ELSE {}
    BY <1>2, <1>7, <2>1 DEF BridgeInv, Writing
  <2>3. c.open = {} /\ ~c.confused /\ ~\E b \in c.blocks : b[1] = bridge'.idx
    <3>1. c.open = {} /\ ~c.confused
      BY <1>4, <2>1, <2>2
    <3>2. CASE bridge.text
      BY <1>3, <1>4, <2>1, <2>2, <3>2
    <3>3. CASE ~bridge.text
      BY <1>4, <2>2, <3>3
    <3> QED BY <3>1, <3>2, <3>3
  <2>4. client'.open = {bridge'.idx} /\ ~client'.confused
    BY <1>6, <2>3
  <2> QED BY <1>1, <1>2, <1>3, <1>6, <2>1, <2>4 DEF BridgeInv, Writing
<1>8. CASE acc # {}
  <2>1. ~TextThenACall'
    BY <1>1, <1>8 DEF TextThenACall
  <2>2. client'.confused
    <3>1. CASE ~TextThenACall
      BY <1>4, <1>6, <3>1 DEF BridgeInv
    <3>2. CASE TextThenACall
      <4>1. ~bridge.text /\ client.open = {bridge.idx}
        BY <1>2, <1>3, <1>8, <3>2 DEF BridgeInv, Writing
      <4> QED BY <1>4, <1>6, <4>1
    <3> QED BY <3>1, <3>2
  <2>3. acc' # {}
    BY <1>1
  <2> QED BY <1>1, <1>2, <1>3, <1>6, <2>1, <2>2, <2>3 DEF BridgeInv
<1> QED BY <1>7, <1>8

LEMMA OtherBridgeSteps ==
  ASSUME BridgeInv,
         \/ \E i \in ToolIndexes : ToolArguments(i)
         \/ Finish \/ Usage \/ StreamBreaks \/ UNCHANGED bridgeVars
  PROVE  BridgeInv'
<1>1. ASSUME NEW i, ToolArguments(i)  PROVE BridgeInv'
  <2>1. /\ client \in Listeners /\ bridge.idx \in Nat
        /\ client' = Hears(client, bridge.idx)
        /\ acc' = acc /\ bridge' = bridge /\ acc # {}
    BY <1>1 DEF BridgeInv, ToolArguments
  <2>2. /\ upstream.at = "streaming" /\ upstream'.at = "streaming"
        /\ upstream'.mixed = upstream.mixed
        /\ upstream' = [at |-> upstream'.at, deltas |-> upstream'.deltas,
                        mixed |-> upstream'.mixed]
    BY <1>1, DeltaKeeps DEF BridgeInv, ToolArguments
  <2>3. /\ client' \in Listeners /\ client'.open = client.open
        /\ client'.confused <=> (client.confused \/ bridge.idx \notin client.open)
    BY <2>1, ClientHears
  <2>4. TextThenACall' <=> TextThenACall
    BY <2>1, <2>2 DEF TextThenACall
  <2>5. client'.confused <=> client.confused
    BY <2>1, <2>2, <2>3 DEF BridgeInv, Writing
  <2> QED BY <2>1, <2>2, <2>3, <2>4, <2>5 DEF BridgeInv, Writing
<1>2. CASE Finish
  <2>1. /\ client \in Listeners /\ bridge.idx \in Nat
        /\ acc' = acc /\ bridge' = bridge /\ upstream.at = "streaming"
        /\ client' = IF Closes THEN Stops(client, bridge.idx) ELSE client
    BY <1>2 DEF BridgeInv, Finish
  <2>2. /\ upstream'.at = "finished" /\ upstream'.mixed = upstream.mixed
        /\ upstream' = [at |-> upstream'.at, deltas |-> upstream'.deltas,
                        mixed |-> upstream'.mixed]
    BY <1>2 DEF BridgeInv, Finish
  <2>3. Closes <=> Writing
    BY DEF Closes, Writing, BridgeInv
  <2>4. /\ client' \in Listeners /\ client'.blocks = client.blocks
        /\ Writing => /\ client'.open = client.open \ {bridge.idx}
                      /\ client'.confused <=> (client.confused \/ bridge.idx \notin client.open)
        /\ ~Writing => client' = client
    BY <2>1, <2>3, ClientStops
  <2>5. TextThenACall' <=> TextThenACall
    BY <2>1, <2>2 DEF TextThenACall
  <2>6. /\ client'.confused <=> client.confused
        /\ TextThenACall => client'.open = {}
    BY <2>1, <2>4 DEF BridgeInv
  <2> QED BY <2>1, <2>2, <2>4, <2>5, <2>6 DEF BridgeInv
<1>3. CASE Usage
  BY <1>3 DEF BridgeInv, Usage, TextThenACall, Writing
<1>4. CASE StreamBreaks
  BY <1>4 DEF BridgeInv, StreamBreaks, TextThenACall, Writing
<1>5. CASE UNCHANGED bridgeVars
  BY <1>5 DEF BridgeInv, bridgeVars, TextThenACall, Writing
<1> QED BY <1>1, <1>2, <1>3, <1>4, <1>5

(* A converted stream confuses the client exactly when it names a second     *)
(* call or has text after a call: any other nests its blocks, wherever it    *)
(* breaks off.                                                               *)
THEOREM StreamsNest == Spec => []BlocksNest
<1>1. Init => BridgeInv
  BY BridgeStarts DEF Init
<1>2. BridgeInv /\ [Next]_vars => BridgeInv'
  <2> SUFFICES ASSUME BridgeInv, [Next]_vars  PROVE BridgeInv'
    OBVIOUS
  <2>1. BridgeNext \/ UNCHANGED bridgeVars
    BY DEF Next, vars, components
  <2> QED BY <2>1, TextDeltaInv, ToolNamedInv, OtherBridgeSteps DEF BridgeNext
<1>3. BridgeInv => BlocksNest
  BY DEF BridgeInv, BlocksNest
<1> QED BY <1>1, <1>2, <1>3, PTL DEF Spec

-----------------------------------------------------------------------------
(* Governance. The weight of a choice in a list of votes, and what one more  *)
(* vote adds to it.                                                          *)
Cast == [voter : Voters, yes : BOOLEAN, weight : Nat]
Term(s, choice, n) == IF s[n].yes = choice THEN s[n].weight ELSE 0
Terms(s, choice) == [n \in 1 .. Len(s) |-> Term(s, choice, n)]
WeightEquation(s, choice, f) ==
  f = [n \in 0 .. Len(s) |-> IF n = 0 THEN 0 ELSE f[n - 1] + Term(s, choice, n)]
WeightIn(s, choice) == (CHOOSE f : WeightEquation(s, choice, f))[Len(s)]

LEMMA WeightUnfold ==
  ASSUME NEW choice
  PROVE  /\ WeightOf(choice) = WeightIn(votes, choice)
         /\ WeightOf(choice)' = WeightIn(votes', choice)
BY DEF WeightOf, WeightIn, WeightEquation, Term

LEMMA WeightExists ==
  ASSUME NEW s \in Seq(Cast), NEW choice
  PROVE  /\ Len(s) \in Nat
         /\ \A n \in 1 .. Len(s) : Terms(s, choice)[n] \in Nat
         /\ \E f : WeightIn(s, choice) = f[Len(s)] /\ IsTotal(f, Len(s), Terms(s, choice))
<1>1. Len(s) \in Nat
  OBVIOUS
<1>2. ASSUME NEW n \in 1 .. Len(s)
      PROVE  Term(s, choice, n) \in Nat /\ Terms(s, choice)[n] = Term(s, choice, n)
  <2>1. s[n] \in Cast
    OBVIOUS
  <2> QED BY <2>1 DEF Cast, Term, Terms
<1>3. PICK f : IsTotal(f, Len(s), Terms(s, choice))
  <2>1. \A n \in 1 .. Len(s) : Terms(s, choice)[n] \in Int
    BY <1>2
  <2> QED BY <1>1, <2>1, RunningTotal
<1>4. WeightEquation(s, choice, f)
  <2> DEFINE body(n) == IF n = 0 THEN 0 ELSE f[n - 1] + Term(s, choice, n)
  <2>1. \A n \in 0 .. Len(s) : f[n] = body(n)
    BY <1>2, <1>3 DEF IsTotal
  <2>2. f = [n \in 0 .. Len(s) |-> f[n]]
    BY <1>3 DEF IsTotal
  <2>3. [n \in 0 .. Len(s) |-> f[n]] = [n \in 0 .. Len(s) |-> body(n)]
    <3> HIDE DEF body
    <3> QED BY <2>1
  <2> QED BY <2>2, <2>3 DEF WeightEquation
<1>5. PICK h : h = CHOOSE g : WeightEquation(s, choice, g)
  OBVIOUS
<1>6. WeightEquation(s, choice, h)
  BY <1>4, <1>5
<1>7. \A n \in 0 .. Len(s) : h[n] = IF n = 0 THEN 0 ELSE h[n - 1] + Term(s, choice, n)
  BY <1>6 DEF WeightEquation
<1>8. h[0] = 0 /\ \A n \in 1 .. Len(s) : h[n] = h[n - 1] + Term(s, choice, n)
  BY <1>1, <1>7
<1>9. \A n \in 0 .. Len(s) : f[n] = h[n]
  <2> SUFFICES ASSUME NEW k \in 0 .. Len(s)  PROVE f[k] = h[k]
    OBVIOUS
  <2>1. \A n \in 1 .. k : f[n - 1] = h[n - 1] => f[n] = h[n]
    BY <1>2, <1>3, <1>8 DEF IsTotal
  <2>2. f[0] = h[0] /\ k \in Nat
    BY <1>3, <1>8 DEF IsTotal
  <2> QED BY <2>1, <2>2, RecursionAgrees
<1>10. WeightIn(s, choice) = f[Len(s)]
  BY <1>1, <1>5, <1>9 DEF WeightIn
<1> QED BY <1>1, <1>2, <1>3, <1>10

LEMMA WeightGrows ==
  ASSUME NEW s \in Seq(Cast), NEW b \in Cast, NEW choice
  PROVE  /\ WeightIn(s, choice) \in Nat
         /\ WeightIn(Append(s, b), choice) =
              WeightIn(s, choice) + IF b.yes = choice THEN b.weight ELSE 0
<1> DEFINE r == Append(s, b)
<1>1. /\ r \in Seq(Cast) /\ Len(s) \in Nat /\ Len(r) = Len(s) + 1 /\ r[Len(r)] = b
      /\ \A n \in 1 .. Len(s) : r[n] = s[n]
  OBVIOUS
<1> HIDE DEF r
<1>2. PICK f : WeightIn(s, choice) = f[Len(s)] /\ IsTotal(f, Len(s), Terms(s, choice))
  BY WeightExists
<1>3. PICK h : WeightIn(r, choice) = h[Len(r)] /\ IsTotal(h, Len(r), Terms(r, choice))
  BY <1>1, WeightExists
<1>4. \A n \in 1 .. Len(s) : Terms(s, choice)[n] = Terms(r, choice)[n]
  BY <1>1 DEF Terms, Term
<1>5. h[Len(r)] = f[Len(s)] + Terms(r, choice)[Len(r)]
  BY <1>1, <1>2, <1>3, <1>4, TotalExtended
<1>6. f[Len(s)] \in Nat
  BY <1>1, <1>2, WeightExists, TotalNat
<1>7. Len(r) \in 1 .. Len(r)
  BY <1>1
<1>8. Terms(r, choice)[Len(r)] = IF b.yes = choice THEN b.weight ELSE 0
  BY <1>1, <1>7 DEF Terms, Term
<1> QED BY <1>2, <1>3, <1>5, <1>6, <1>8 DEF r

LEMMA NoWeight ==
  ASSUME NEW choice
  PROVE  WeightIn(<<>>, choice) = 0
<1>1. <<>> \in Seq(Cast) /\ Len(<<>>) = 0
  OBVIOUS
<1>2. PICK f : WeightIn(<<>>, choice) = f[Len(<<>>)] /\ IsTotal(f, Len(<<>>), Terms(<<>>, choice))
  BY <1>1, WeightExists
<1> QED BY <1>1, <1>2 DEF IsTotal

(* The running tallies are the weights of the votes on record, and a verdict *)
(* was given on them: no vote is taken after it.                             *)
Statuses == {"none", "active", "passed", "rejected"}
Ballots == [status : Statuses, yes : Nat, no : Nat]
GovInv ==
  /\ quorum \in Nat /\ votes \in Seq(Cast) /\ ballot \in Ballots
  /\ ballot.yes = WeightIn(votes, TRUE) /\ ballot.no = WeightIn(votes, FALSE)
  /\ \A i, j \in 1 .. Len(votes) : votes[i].voter = votes[j].voter => i = j
  /\ ballot.status = "passed" => ballot.yes + ballot.no >= quorum /\ ballot.yes > ballot.no
  /\ ballot.status = "rejected" =>
       \/ ballot.yes + ballot.no >= quorum /\ ballot.yes <= ballot.no
       \/ ballot.yes + ballot.no < quorum /\ expired

LEMMA GovStarts == GovInit => GovInv
<1> SUFFICES ASSUME GovInit PROVE GovInv
  OBVIOUS
<1>1. <<>> \in Seq(Cast) /\ Len(<<>>) = 0
  OBVIOUS
<1>2. ballot \in Ballots /\ ballot.status = "none" /\ ballot.yes = 0 /\ ballot.no = 0
  BY DEF GovInit, Ballots, Statuses
<1>3. quorum \in Nat /\ votes = <<>>
  BY GovernanceAssumption DEF GovInit
<1>4. WeightIn(<<>>, TRUE) = 0 /\ WeightIn(<<>>, FALSE) = 0
  BY NoWeight, Zenon
<1>5. votes \in Seq(Cast) /\ 1 .. Len(votes) = {}
  BY <1>1, <1>3
<1>6. ballot.yes = WeightIn(votes, TRUE) /\ ballot.no = WeightIn(votes, FALSE)
  BY <1>2, <1>3, <1>4
<1> QED BY <1>2, <1>3, <1>5, <1>6 DEF GovInv

LEMMA CastVoteInv ==
  ASSUME GovInv, NEW v \in Voters, NEW yes \in BOOLEAN, NEW w \in Nat, CastVote(v, yes, w)
  PROVE  GovInv'
<1> DEFINE b == [voter |-> v, yes |-> yes, weight |-> w]
<1>1. b \in Cast /\ b.voter = v /\ b.yes = yes /\ b.weight = w
  BY DEF Cast
<1>2. /\ votes' = Append(votes, b) /\ quorum' = quorum /\ expired' = expired
      /\ ballot.status = "active" /\ votes \in Seq(Cast) /\ ballot \in Ballots
      /\ \A i \in DOMAIN votes : votes[i].voter # v
  BY DEF CastVote, MayVote, GovInv
<1> HIDE DEF b
<1>3. /\ votes' \in Seq(Cast) /\ Len(votes') = Len(votes) + 1 /\ Len(votes) \in Nat
      /\ votes'[Len(votes')] = b /\ \A i \in 1 .. Len(votes) : votes'[i] = votes[i]
      /\ DOMAIN votes = 1 .. Len(votes)
  BY <1>1, <1>2
<1>4. /\ WeightIn(votes', TRUE) = WeightIn(votes, TRUE) + IF yes THEN w ELSE 0
      /\ WeightIn(votes', FALSE) = WeightIn(votes, FALSE) + IF yes THEN 0 ELSE w
  BY <1>1, <1>2, WeightGrows
<1>5. /\ ballot' \in Ballots /\ ballot'.status = "active"
      /\ ballot'.yes = ballot.yes + IF yes THEN w ELSE 0
      /\ ballot'.no = ballot.no + IF yes THEN 0 ELSE w
  BY <1>2 DEF CastVote, Ballots
<1>6. ballot.yes \in Nat /\ ballot.no \in Nat
  BY <1>2 DEF Ballots
<1>7. ballot'.yes = WeightIn(votes', TRUE) /\ ballot'.no = WeightIn(votes', FALSE)
  BY <1>4, <1>5, <1>6 DEF GovInv
<1>8. \A i, j \in 1 .. Len(votes') : votes'[i].voter = votes'[j].voter => i = j
  <2> SUFFICES ASSUME NEW i \in 1 .. Len(votes'), NEW j \in 1 .. Len(votes'),
                      votes'[i].voter = votes'[j].voter
               PROVE  i = j
    OBVIOUS
  <2>1. \A k \in 1 .. Len(votes') : k \in 1 .. Len(votes) \/ k = Len(votes')
    BY <1>3
  <2>2. CASE i \in 1 .. Len(votes) /\ j \in 1 .. Len(votes)
    BY <1>3, <2>2 DEF GovInv
  <2>3. CASE i = Len(votes') /\ j \in 1 .. Len(votes)
    BY <1>1, <1>2, <1>3, <2>3
  <2>4. CASE j = Len(votes') /\ i \in 1 .. Len(votes)
    BY <1>1, <1>2, <1>3, <2>4
  <2> QED BY <2>1, <2>2, <2>3, <2>4
<1> QED BY <1>2, <1>3, <1>5, <1>7, <1>8 DEF GovInv

LEMMA TallyInv ==
  ASSUME GovInv, Tally
  PROVE  GovInv'
<1>1. /\ quorum' = quorum /\ votes' = votes /\ expired' = expired
      /\ ballot \in Ballots /\ ballot.yes \in Nat /\ ballot.no \in Nat /\ quorum \in Nat
  BY DEF Tally, GovInv, Ballots
<1>2. /\ ballot' \in Ballots /\ ballot'.yes = ballot.yes /\ ballot'.no = ballot.no
      /\ ballot'.status = "passed" \/ ballot'.status = "rejected"
      /\ ballot'.status = "passed" =>
           ballot.yes + ballot.no >= quorum /\ ballot.yes > ballot.no
      /\ ballot'.status = "rejected" =>
           \/ ballot.yes + ballot.no >= quorum /\ ballot.yes <= ballot.no
           \/ ballot.yes + ballot.no < quorum /\ expired
  BY <1>1 DEF Tally, Ballots, Statuses
<1> QED BY <1>1, <1>2 DEF GovInv

LEMMA GovStep ==
  ASSUME GovInv, GovNext \/ UNCHANGED govVars
  PROVE  GovInv'
<1>1. ASSUME NEW w \in Weights, Propose(w)
      PROVE  GovInv'
  <2>1. /\ ballot' \in Ballots /\ ballot'.status = "active"
        /\ ballot'.yes = ballot.yes /\ ballot'.no = ballot.no
    BY <1>1 DEF Propose, GovInv, Ballots, Statuses
  <2> QED BY <1>1, <2>1 DEF Propose, GovInv
<1>2. ASSUME NEW v \in Voters, NEW yes \in BOOLEAN, NEW w \in Weights, CastVote(v, yes, w)
      PROVE  GovInv'
  BY <1>2, CastVoteInv, GovernanceAssumption
<1>3. CASE GetProposalDetail
  BY <1>3, TallyInv DEF GetProposalDetail
<1>4. CASE DeadlinePasses
  BY <1>4 DEF DeadlinePasses, GovInv
<1>5. CASE UNCHANGED govVars
  BY <1>5 DEF govVars, GovInv
<1> QED BY <1>1, <1>2, <1>3, <1>4, <1>5 DEF GovNext

LEMMA GovSound == GovInv => VerdictFitsVotes /\ TalliesCountVotersOnce
<1> SUFFICES ASSUME GovInv PROVE VerdictFitsVotes /\ TalliesCountVotersOnce
  OBVIOUS
<1>1. WeightOf(TRUE) = WeightIn(votes, TRUE) /\ WeightOf(FALSE) = WeightIn(votes, FALSE)
  BY WeightUnfold, Zenon
<1>2. DOMAIN votes = 1 .. Len(votes)
  BY DEF GovInv
<1> QED BY <1>1, <1>2 DEF GovInv, VerdictFitsVotes, TalliesCountVotersOnce

-----------------------------------------------------------------------------
(* Attestations by vote. What a share taken again and again leaves of a      *)
(* deposit.                                                                  *)
Share(x) == (x * SlashPercent) \div 100
AfterEquation(a, f) ==
  f = [k \in 0 .. MaxChallenges |->
          IF k = 0 THEN Deposit[a] ELSE f[k - 1] - (f[k - 1] * SlashPercent) \div 100]
StakeAfter(a, k) == (CHOOSE f : AfterEquation(a, f))[k]

LEMMA ShareBounds ==
  ASSUME NEW x \in Nat
  PROVE  Share(x) \in Nat /\ Share(x) <= x
<1>1. SlashPercent \in 1 .. 100
  BY StakeAssumption
<1>2. PICK t \in Nat : t = x * SlashPercent
  BY <1>1
<1>3. t <= x * 100
  BY <1>1, <1>2
<1> QED BY <1>2, <1>3 DEF Share

LEMMA SlashesLeave ==
  ASSUME NEW a \in Members
  PROVE  /\ StakeAfter(a, 0) = Deposit[a]
         /\ \A k \in 1 .. MaxChallenges :
              StakeAfter(a, k) = StakeAfter(a, k - 1) - Share(StakeAfter(a, k - 1))
<1> DEFINE N == MaxChallenges
           step == [k \in 1 .. N |-> [x \in Nat |-> x - Share(x)]]
<1>1. N \in Nat /\ Deposit[a] \in Nat
  BY ProposalsAssumption, StakeAssumption
<1>2. step \in [1 .. N -> [Nat -> Nat]]
  BY ShareBounds
<1>3. \A k \in 1 .. N, x \in Nat : step[k][x] = x - Share(x)
  OBVIOUS
<1> HIDE DEF N, step
<1>4. PICK f : IsOrbit(f, N, Nat, Deposit[a], step)
  BY <1>1, <1>2, RecursionExists
<1> DEFINE body(k) == IF k = 0 THEN Deposit[a]
                      ELSE f[k - 1] - (f[k - 1] * SlashPercent) \div 100
<1>5. AfterEquation(a, f)
  <2>1. ASSUME NEW k \in 0 .. N  PROVE f[k] = body(k)
    <3>1. CASE k = 0
      BY <1>4, <3>1 DEF IsOrbit
    <3>2. CASE k # 0
      <4>1. k \in 1 .. N /\ k - 1 \in 0 .. N
        BY <1>1, <3>2
      <4>2. f[k] = step[k][f[k - 1]] /\ f[k - 1] \in Nat
        BY <1>4, <4>1 DEF IsOrbit
      <4> QED BY <1>3, <3>2, <4>1, <4>2 DEF Share
    <3> QED BY <3>1, <3>2
  <2>2. f = [k \in 0 .. N |-> f[k]]
    BY <1>4 DEF IsOrbit
  <2>3. [k \in 0 .. N |-> f[k]] = [k \in 0 .. N |-> body(k)]
    <3> HIDE DEF body
    <3> QED BY <2>1
  <2> QED BY <2>2, <2>3 DEF AfterEquation, N
<1>6. PICK h : h = CHOOSE g : AfterEquation(a, g)
  OBVIOUS
<1>7. AfterEquation(a, h)
  BY <1>5, <1>6
<1>8. \A k : StakeAfter(a, k) = h[k]
  BY <1>6 DEF StakeAfter
<1>9. \A k \in 0 .. N : h[k] = IF k = 0 THEN Deposit[a] ELSE h[k - 1] - Share(h[k - 1])
  BY <1>7 DEF AfterEquation, Share, N
<1>10. 0 \in 0 .. N /\ \A k \in 1 .. N : k \in 0 .. N /\ k # 0
  BY <1>1
<1> QED BY <1>8, <1>9, <1>10 DEF N

(* What is on record: a proposal that is no longer pending was carried by    *)
(* the votes up to some moment and has its nonce at its place; so was one    *)
(* whose finalization is under way. A finalization that wrote its nonce is   *)
(* the only one to have done so, and its proposal still pending.             *)
Entries == [stake : Nat, active : BOOLEAN, rewards : Nat, slashes : Nat, done : Nat]
Pledges == [who : Members, stake : Nat, yes : BOOLEAN]
ProposalRecords == [votes : Seq(Pledges), status : {"pending", "finalized", "slashed"}]
Filed == [nonce : Nonces, status : {"pending", "won", "lost"}]
Carried(list) == \E k \in 1 .. Len(list) : Passes(SubSeq(list, 1, k))

EntriesInv ==
  /\ DOMAIN validators \subseteq Members /\ departures \in Nat
  /\ \A a \in DOMAIN validators : validators[a] \in Entries
RecordsInv ==
  /\ inner \in Seq(Nat) /\ \A i \in 1 .. Len(inner) : inner[i] = i
  /\ \A n \in DOMAIN proposals :
       /\ proposals[n] \in ProposalRecords /\ Len(proposals[n].votes) > 0
       /\ proposals[n].status # "pending" =>
            Carried(proposals[n].votes) /\ n \in 1 .. Len(inner)
FlightsInv ==
  /\ \A f \in flights :
       /\ f = [id |-> f.id, nonce |-> f.nonce, pc |-> f.pc]
       /\ f.nonce \in DOMAIN proposals /\ Carried(proposals[f.nonce].votes)
       /\ f.pc = "written" =>
            proposals[f.nonce].status = "pending" /\ f.nonce \in 1 .. Len(inner)
  /\ \A f, g \in flights :
       f.pc = "written" /\ g.pc = "written" /\ f.nonce = g.nonce => f = g
ChallengesInv ==
  /\ challenges \in Seq(Filed) /\ Len(challenges) <= MaxChallenges
  /\ \A c \in 1 .. Len(challenges) :
       /\ challenges[c].nonce \in DOMAIN proposals
       /\ proposals[challenges[c].nonce].status # "pending"
       /\ challenges[c].status = "won" => proposals[challenges[c].nonce].status = "slashed"

(* As long as nobody left, whoever voted is registered, and its stake is     *)
(* what the challenges won against its votes have left of its deposit.       *)
Won(a) == {c \in DOMAIN challenges :
             challenges[c].status = "won" /\ a \in YesVoters(challenges[c].nonce)}
SharesInv ==
  departures = 0 =>
    /\ \A n \in DOMAIN proposals : \A i \in 1 .. Len(proposals[n].votes) :
         proposals[n].votes[i].who \in DOMAIN validators
    /\ \A a \in DOMAIN validators : validators[a].stake = StakeAfter(a, Cardinality(Won(a)))

VotingInv == EntriesInv /\ RecordsInv /\ FlightsInv /\ ChallengesInv /\ SharesInv

LEMMA WonIsFinite ==
  ASSUME ChallengesInv, NEW a
  PROVE  /\ IsFiniteSet(Won(a)) /\ Cardinality(Won(a)) \in 0 .. Len(challenges)
         /\ Won(a) \subseteq 1 .. Len(challenges) /\ Len(challenges) \in Nat
<1>1. Len(challenges) \in Nat /\ Won(a) \subseteq 1 .. Len(challenges)
  BY DEF ChallengesInv, Won
<1>2. IsFiniteSet(1 .. Len(challenges)) /\ Cardinality(1 .. Len(challenges)) = Len(challenges)
  <2>1. \A n \in Int : /\ IsFiniteSet(1 .. n)
                      /\ Cardinality(1 .. n) = IF 1 > n THEN 0 ELSE n - 1 + 1
    BY FS_Interval
  <2> QED BY <1>1, <2>1
<1> QED BY <1>1, <1>2, FS_Subset, FS_CardinalityType

LEMMA VotingStarts == ProposalsInit => VotingInv
<1> SUFFICES ASSUME ProposalsInit PROVE VotingInv
  OBVIOUS
<1>1. /\ proposals = <<>> /\ flights = {} /\ inner = <<>> /\ challenges = <<>>
      /\ departures = 0
      /\ validators = [a \in {b \in Members : Deposit[b] >= MinStake} |-> NewInfo(a)]
  BY DEF ProposalsInit, RegistryInit
<1>2. ASSUME NEW a \in DOMAIN validators
      PROVE  a \in Members /\ validators[a] \in Entries /\ validators[a].stake = Deposit[a]
  <2>1. a \in Members /\ validators[a] = NewInfo(a)
    BY <1>1
  <2> QED BY <2>1, StakeAssumption DEF NewInfo, Entries
<1>3. EntriesInv
  BY <1>1, <1>2 DEF EntriesInv
<1>4. DOMAIN proposals = {} /\ Len(inner) = 0 /\ challenges \in Seq(Filed) /\ Len(challenges) = 0
  BY <1>1
<1>5. RecordsInv
  BY <1>1, <1>4 DEF RecordsInv
<1>6. FlightsInv /\ ChallengesInv
  BY <1>1, <1>4, ProposalsAssumption DEF FlightsInv, ChallengesInv
<1>7. ASSUME NEW a  PROVE Cardinality(Won(a)) = 0
  <2>1. Won(a) = {}
    BY <1>1 DEF Won
  <2> QED BY <2>1, FS_EmptySet
<1>8. SharesInv
  BY <1>2, <1>4, <1>7, SlashesLeave DEF SharesInv
<1> QED BY <1>3, <1>5, <1>6, <1>8 DEF VotingInv

(* Records change only by growing while they are pending: what is settled    *)
(* keeps its votes.                                                          *)
Settled(n) == n \in DOMAIN proposals /\ proposals[n].status # "pending"
VotesKept ==
  /\ DOMAIN proposals \subseteq DOMAIN proposals'
  /\ \A n \in DOMAIN proposals : Settled(n) => proposals'[n].votes = proposals[n].votes

LEMMA WonStays ==
  ASSUME ChallengesInv, VotesKept, UNCHANGED challenges, NEW a
  PROVE  Won(a)' = Won(a)
<1>1. ASSUME NEW c \in 1 .. Len(challenges)
      PROVE  YesVoters(challenges[c].nonce)' = YesVoters(challenges[c].nonce)
  <2>1. proposals'[challenges[c].nonce].votes = proposals[challenges[c].nonce].votes
    BY DEF ChallengesInv, VotesKept, Settled
  <2> QED BY <2>1 DEF YesVoters
<1>2. DOMAIN challenges = 1 .. Len(challenges)
  BY DEF ChallengesInv
<1> QED BY <1>1, <1>2 DEF Won

LEMMA CarriedStays ==
  ASSUME NEW list \in Seq(Pledges), NEW p \in Pledges, Carried(list)
  PROVE  Carried(Append(list, p))
<1>1. PICK k \in 1 .. Len(list) : Passes(SubSeq(list, 1, k))
  BY DEF Carried
<1>2. SubSeq(Append(list, p), 1, k) = SubSeq(list, 1, k)
  OBVIOUS
<1>3. k \in 1 .. Len(Append(list, p))
  OBVIOUS
<1> QED BY <1>1, <1>2, <1>3 DEF Carried

LEMMA PledgeFits ==
  ASSUME VotingInv, NEW a \in Active, NEW yes \in BOOLEAN
  PROVE  /\ Ballot(a, yes) \in Pledges /\ Ballot(a, yes).who = a
         /\ a \in DOMAIN validators
<1>1. a \in DOMAIN validators
  BY DEF Active, Registered
<1>2. a \in Members /\ validators[a].stake \in Nat
  BY <1>1 DEF VotingInv, EntriesInv, Entries
<1> QED BY <1>1, <1>2 DEF Ballot, Pledges

LEMMA RegistrationInv ==
  ASSUME VotingInv, NEW a \in Members, Register(a) \/ Deregister(a),
         UNCHANGED <<proposals, flights, inner, challenges>>
  PROVE  VotingInv'
<1>1. /\ proposals' = proposals /\ flights' = flights /\ inner' = inner
      /\ challenges' = challenges
  OBVIOUS
<1>2. RecordsInv' /\ FlightsInv' /\ ChallengesInv'
  BY <1>1 DEF VotingInv, RecordsInv, FlightsInv, ChallengesInv
<1>3. CASE Register(a)
  <2>1. /\ DOMAIN validators' = DOMAIN validators \cup {a} /\ a \notin DOMAIN validators
        /\ validators'[a] = NewInfo(a) /\ departures' = departures
        /\ \A b \in DOMAIN validators : validators'[b] = validators[b]
    BY <1>3 DEF Register, Registered
  <2>2. NewInfo(a) \in Entries /\ NewInfo(a).stake = Deposit[a]
    BY StakeAssumption DEF NewInfo, Entries
  <2>3. EntriesInv'
    BY <2>1, <2>2 DEF VotingInv, EntriesInv
  <2>4. \A b : Won(b)' = Won(b)
    <3>1. VotesKept
      BY <1>1 DEF VotesKept
    <3> QED BY <1>1, <3>1, WonStays DEF VotingInv
  <2>5. ASSUME departures = 0  PROVE Cardinality(Won(a)) = 0
    <3>1. ASSUME NEW c \in Won(a)  PROVE FALSE
      <4> DEFINE n == challenges[c].nonce
      <4>1. a \in YesVoters(n) /\ n \in DOMAIN proposals
        BY <3>1, WonIsFinite DEF Won, VotingInv, ChallengesInv
      <4>2. proposals[n].votes \in Seq(Pledges)
        BY <4>1 DEF VotingInv, RecordsInv, ProposalRecords
      <4>3. \A i \in 1 .. Len(proposals[n].votes) : proposals[n].votes[i].who # a
        BY <2>1, <2>5, <4>1 DEF VotingInv, SharesInv
      <4> QED BY <4>1, <4>2, <4>3 DEF YesVoters
    <3>2. Won(a) = {}
      BY <3>1
    <3> QED BY <3>2, FS_EmptySet
  <2>6. SharesInv'
    <3> SUFFICES ASSUME departures = 0
                 PROVE  /\ \A n \in DOMAIN proposals : \A i \in 1 .. Len(proposals[n].votes) :
                             proposals[n].votes[i].who \in DOMAIN validators'
                        /\ \A b \in DOMAIN validators' :
                             validators'[b].stake = StakeAfter(b, Cardinality(Won(b)'))
      BY <1>1, <2>1 DEF SharesInv
    <3>1. \A b \in DOMAIN validators : validators[b].stake = StakeAfter(b, Cardinality(Won(b)))
      BY DEF VotingInv, SharesInv
    <3>2. validators'[a].stake = StakeAfter(a, Cardinality(Won(a)))
      BY <2>1, <2>2, <2>5, SlashesLeave
    <3> QED BY <2>1, <2>4, <3>1, <3>2 DEF VotingInv, SharesInv
  <2> QED BY <1>2, <2>3, <2>6 DEF VotingInv
<1>4. CASE Deregister(a)
  <2>1. /\ DOMAIN validators' \subseteq DOMAIN validators /\ departures' = departures + 1
        /\ \A b \in DOMAIN validators' : validators'[b] = validators[b]
    BY <1>4 DEF Deregister, Registered
  <2>2. EntriesInv' /\ departures' # 0
    BY <2>1 DEF VotingInv, EntriesInv
  <2> QED BY <1>2, <2>2 DEF VotingInv, SharesInv
<1> QED BY <1>3, <1>4

(* A step that leaves the registry, the challenges and the settled records   *)
(* alone keeps the shares, if whoever votes is registered.                   *)
LEMMA SharesStay ==
  ASSUME VotingInv, VotesKept, UNCHANGED <<registryVars, challenges>>,
         \A n \in DOMAIN proposals' : \A i \in 1 .. Len(proposals'[n].votes) :
            \/ proposals'[n].votes[i].who \in DOMAIN validators
            \/ n \in DOMAIN proposals /\ proposals'[n].votes = proposals[n].votes
  PROVE  EntriesInv' /\ SharesInv'
<1>1. validators' = validators /\ departures' = departures /\ challenges' = challenges
  BY DEF registryVars
<1>2. EntriesInv'
  BY <1>1 DEF VotingInv, EntriesInv
<1>3. \A b : Won(b)' = Won(b)
  BY <1>1, WonStays DEF VotingInv
<1>4. ASSUME departures = 0, NEW n \in DOMAIN proposals', NEW i \in 1 .. Len(proposals'[n].votes)
      PROVE  proposals'[n].votes[i].who \in DOMAIN validators
  BY <1>4 DEF VotingInv, SharesInv
<1>5. ASSUME departures = 0, NEW b \in DOMAIN validators
      PROVE  validators[b].stake = StakeAfter(b, Cardinality(Won(b)'))
  BY <1>3, <1>5 DEF VotingInv, SharesInv
<1> QED BY <1>1, <1>2, <1>4, <1>5 DEF SharesInv

LEMMA CreateProposalInv ==
  ASSUME VotingInv, NEW a, NEW n, CreateProposal(a, n)
  PROVE  VotingInv'
<1>1. /\ a \in Active /\ n \notin DOMAIN proposals
      /\ UNCHANGED <<registryVars, challenges>>
      /\ flights' = flights /\ inner' = inner /\ challenges' = challenges
      /\ DOMAIN proposals' = DOMAIN proposals \cup {n}
      /\ proposals'[n] = [votes |-> <<Ballot(a, TRUE)>>, status |-> "pending"]
      /\ \A m \in DOMAIN proposals : proposals'[m] = proposals[m]
  BY DEF CreateProposal
<1>2. Ballot(a, TRUE) \in Pledges /\ Ballot(a, TRUE).who = a /\ a \in DOMAIN validators
  <2>1. TRUE \in BOOLEAN
    OBVIOUS
  <2> QED BY <1>1, <2>1, PledgeFits, Zenon
<1>3. PICK p : p = Ballot(a, TRUE)
  OBVIOUS
<1>4. p \in Pledges /\ p.who \in DOMAIN validators
  BY <1>2, <1>3, Zenon
<1> DEFINE list == <<p>>
<1>5. proposals'[n] = [votes |-> list, status |-> "pending"]
  BY <1>1, <1>3, Zenon
<1>6. /\ proposals'[n].votes = list /\ proposals'[n].status = "pending"
      /\ proposals'[n] = [votes |-> list, status |-> "pending"]
  BY <1>5
<1>7. /\ list \in Seq(Pledges) /\ Len(list) = 1 /\ list[1] = p
  BY <1>4
<1> HIDE DEF list
<1>8. /\ proposals'[n] \in ProposalRecords /\ Len(proposals'[n].votes) > 0
      /\ \A i \in 1 .. Len(proposals'[n].votes) : proposals'[n].votes[i].who \in DOMAIN validators
  BY <1>6, <1>7, <1>4 DEF ProposalRecords
<1>9. RecordsInv'
  BY <1>1, <1>6, <1>8 DEF VotingInv, RecordsInv
<1>10. FlightsInv' /\ ChallengesInv'
  BY <1>1 DEF VotingInv, FlightsInv, ChallengesInv
<1>11. VotesKept
  BY <1>1 DEF VotesKept
<1>12. \A m \in DOMAIN proposals' : \A i \in 1 .. Len(proposals'[m].votes) :
         \/ proposals'[m].votes[i].who \in DOMAIN validators
         \/ m \in DOMAIN proposals /\ proposals'[m].votes = proposals[m].votes
  BY <1>1, <1>8
<1>13. EntriesInv' /\ SharesInv'
  BY <1>1, <1>11, <1>12, SharesStay
<1> QED BY <1>9, <1>10, <1>13 DEF VotingInv

LEMMA VoteInv ==
  ASSUME VotingInv, NEW a, NEW n, NEW yes \in BOOLEAN, Vote(a, n, yes)
  PROVE  VotingInv'
<1>1. /\ a \in Active /\ n \in DOMAIN proposals /\ proposals[n].status = "pending"
      /\ UNCHANGED <<registryVars, challenges>>
      /\ flights' = flights /\ inner' = inner /\ challenges' = challenges
      /\ proposals' = [proposals EXCEPT ![n].votes = Append(@, Ballot(a, yes))]
  BY DEF Vote
<1>2. Ballot(a, yes) \in Pledges /\ Ballot(a, yes).who = a /\ a \in DOMAIN validators
  BY <1>1, PledgeFits
<1> DEFINE list == proposals[n].votes
           grown == Append(list, Ballot(a, yes))
<1>3. proposals[n] \in ProposalRecords /\ list \in Seq(Pledges)
  BY <1>1 DEF VotingInv, RecordsInv, ProposalRecords
<1>4. /\ DOMAIN proposals' = DOMAIN proposals
      /\ proposals'[n].votes = grown /\ proposals'[n].status = "pending"
      /\ proposals'[n] = [proposals[n] EXCEPT !.votes = grown]
      /\ \A m \in DOMAIN proposals : m # n => proposals'[m] = proposals[m]
  BY <1>1, <1>3 DEF ProposalRecords
<1>5. /\ grown \in Seq(Pledges) /\ Len(grown) = Len(list) + 1 /\ Len(list) \in Nat
      /\ \A i \in 1 .. Len(grown) : (grown[i] = list[i] /\ i \in 1 .. Len(list))
                                    \/ grown[i] = Ballot(a, yes)
      /\ Carried(list) => Carried(grown)
  BY <1>2, <1>3, CarriedStays
<1> HIDE DEF grown
<1>6. proposals'[n] \in ProposalRecords
  BY <1>3, <1>4, <1>5 DEF ProposalRecords
<1>7. RecordsInv'
  BY <1>1, <1>4, <1>5, <1>6 DEF VotingInv, RecordsInv
<1>8. FlightsInv'
  BY <1>1, <1>4, <1>5 DEF VotingInv, FlightsInv
<1>9. ChallengesInv'
  BY <1>1, <1>4 DEF VotingInv, ChallengesInv
<1>10. VotesKept
  BY <1>1, <1>4 DEF VotesKept, Settled
<1>11. EntriesInv /\ SharesInv
  BY DEF VotingInv
<1>12. validators' = validators /\ departures' = departures
  BY <1>1 DEF registryVars
<1>13. EntriesInv'
  BY <1>11, <1>12 DEF EntriesInv
<1>14. \A b : Won(b)' = Won(b)
  BY <1>1, <1>10, WonStays DEF VotingInv
<1>15. ASSUME departures = 0, NEW m \in DOMAIN proposals', NEW i \in 1 .. Len(proposals'[m].votes)
       PROVE  proposals'[m].votes[i].who \in DOMAIN validators
  <2>1. \A j \in 1 .. Len(list) : list[j].who \in DOMAIN validators
    BY <1>1, <1>11, <1>15 DEF SharesInv
  <2>2. CASE m = n
    BY <1>2, <1>4, <1>5, <2>1, <2>2
  <2>3. CASE m # n
    BY <1>4, <1>11, <1>15, <2>3 DEF SharesInv
  <2> QED BY <2>2, <2>3
<1>16. SharesInv'
  BY <1>11, <1>12, <1>14, <1>15 DEF SharesInv
<1> QED BY <1>7, <1>8, <1>9, <1>13, <1>16 DEF VotingInv

LEMMA FinalizeInv ==
  ASSUME VotingInv, NEW n, Finalize(n)
  PROVE  VotingInv'
<1>1. /\ n \in DOMAIN proposals /\ Passes(proposals[n].votes)
      /\ UNCHANGED <<registryVars, challenges>>
      /\ proposals' = proposals /\ inner' = inner /\ challenges' = challenges
  BY DEF Finalize
<1>2. PICK id : flights' = flights \cup {[id |-> id, nonce |-> n, pc |-> "sent"]}
  BY DEF Finalize
<1>3. Carried(proposals[n].votes)
  <2>1. proposals[n].votes \in Seq(Pledges) /\ Len(proposals[n].votes) > 0
    BY <1>1 DEF VotingInv, RecordsInv, ProposalRecords
  <2>2. SubSeq(proposals[n].votes, 1, Len(proposals[n].votes)) = proposals[n].votes
    BY <2>1
  <2>3. Len(proposals[n].votes) \in 1 .. Len(proposals[n].votes)
    BY <2>1
  <2> QED BY <1>1, <2>2, <2>3 DEF Carried
<1>4. RecordsInv' /\ ChallengesInv'
  BY <1>1 DEF VotingInv, RecordsInv, ChallengesInv
<1>5. FlightsInv'
  BY <1>1, <1>2, <1>3 DEF VotingInv, FlightsInv
<1>6. EntriesInv' /\ SharesInv'
  <2>1. VotesKept
    BY <1>1 DEF VotesKept
  <2> QED BY <1>1, <2>1, SharesStay
<1> QED BY <1>4, <1>5, <1>6 DEF VotingInv

LEMMA FlightSteps ==
  ASSUME VotingInv, NEW f \in flights, InnerWrites(f) \/ SubmitRaises(f) \/ Finalized(f)
  PROVE  VotingInv'
<1>1. /\ UNCHANGED <<registryVars, challenges>> /\ challenges' = challenges
      /\ f = [id |-> f.id, nonce |-> f.nonce, pc |-> f.pc]
      /\ f.nonce \in DOMAIN proposals /\ Carried(proposals[f.nonce].votes)
      /\ inner \in Seq(Nat) /\ \A i \in 1 .. Len(inner) : inner[i] = i
  BY DEF InnerWrites, SubmitRaises, Finalized, VotingInv, FlightsInv, RecordsInv
<1>2. CASE InnerWrites(f)
  <2> DEFINE g == [f EXCEPT !.pc = "written"]
  <2>1. /\ f.pc = "sent" /\ f.nonce = Len(inner) + 1 /\ inner' = Append(inner, f.nonce)
        /\ flights' = (flights \ {f}) \cup {g} /\ proposals' = proposals
    BY <1>2 DEF InnerWrites, InnerAccepts
  <2>2. /\ g = [id |-> g.id, nonce |-> g.nonce, pc |-> g.pc]
        /\ g.nonce = f.nonce /\ g.pc = "written"
    BY <1>1
  <2> HIDE DEF g
  <2>3. /\ inner' \in Seq(Nat) /\ Len(inner') = Len(inner) + 1 /\ Len(inner) \in Nat
        /\ \A i \in 1 .. Len(inner') : inner'[i] = i
    BY <1>1, <2>1
  <2>4. RecordsInv'
    BY <2>1, <2>3 DEF VotingInv, RecordsInv
  <2>5. proposals[f.nonce].status = "pending"
    <3>1. ~(f.nonce \in 1 .. Len(inner))
      BY <2>1, <2>3
    <3> QED BY <1>1, <3>1 DEF VotingInv, RecordsInv
  <2>6. FlightsInv'
    <3>1. ASSUME NEW h \in flights'
          PROVE  /\ h = [id |-> h.id, nonce |-> h.nonce, pc |-> h.pc]
                 /\ h.nonce \in DOMAIN proposals /\ Carried(proposals[h.nonce].votes)
                 /\ h.pc = "written" =>
                      proposals[h.nonce].status = "pending" /\ h.nonce \in 1 .. Len(inner')
      <4>1. CASE h = g
        BY <1>1, <2>1, <2>2, <2>3, <2>5, <4>1
      <4>2. CASE h \in flights
        BY <2>3, <4>2 DEF VotingInv, FlightsInv
      <4> QED BY <2>1, <4>1, <4>2
    <3>2. ASSUME NEW h \in flights, h.pc = "written"  PROVE h.nonce # f.nonce
      BY <2>1, <2>3, <3>2 DEF VotingInv, FlightsInv
    <3>3. ASSUME NEW h \in flights', NEW k \in flights',
                 h.pc = "written" /\ k.pc = "written" /\ h.nonce = k.nonce
          PROVE  h = k
      <4>1. CASE h \in flights /\ k \in flights
        BY <3>3, <4>1 DEF VotingInv, FlightsInv
      <4>2. h \in flights \/ h = g
        BY <2>1
      <4>3. k \in flights \/ k = g
        BY <2>1
      <4> QED BY <2>2, <3>2, <3>3, <4>1, <4>2, <4>3
    <3> QED BY <2>1, <3>1, <3>3 DEF FlightsInv
  <2>7. ChallengesInv'
    BY <1>1, <2>1 DEF VotingInv, ChallengesInv
  <2>8. VotesKept
    BY <2>1 DEF VotesKept
  <2>9. EntriesInv' /\ SharesInv'
    BY <1>1, <2>1, <2>8, SharesStay
  <2> QED BY <2>4, <2>6, <2>7, <2>9 DEF VotingInv
<1>3. CASE SubmitRaises(f)
  <2>1. flights' = flights \ {f} /\ proposals' = proposals /\ inner' = inner
    BY <1>3 DEF SubmitRaises
  <2>2. RecordsInv' /\ FlightsInv' /\ ChallengesInv'
    BY <1>1, <2>1 DEF VotingInv, RecordsInv, FlightsInv, ChallengesInv
  <2>3. VotesKept
    BY <2>1 DEF VotesKept
  <2>4. EntriesInv' /\ SharesInv'
    BY <1>1, <2>1, <2>3, SharesStay
  <2> QED BY <2>2, <2>4 DEF VotingInv
<1>4. CASE Finalized(f)
  <2> DEFINE n == f.nonce
  <2>1. /\ f.pc = "written" /\ flights' = flights \ {f} /\ inner' = inner
        /\ proposals' = [proposals EXCEPT ![n].status = "finalized"]
    BY <1>4 DEF Finalized
  <2>2. /\ proposals[n] \in ProposalRecords /\ proposals[n].status = "pending"
        /\ n \in 1 .. Len(inner)
    BY <1>1, <2>1 DEF VotingInv, RecordsInv, FlightsInv
  <2>3. /\ DOMAIN proposals' = DOMAIN proposals
        /\ proposals'[n] = [proposals[n] EXCEPT !.status = "finalized"]
        /\ \A m \in DOMAIN proposals : m # n => proposals'[m] = proposals[m]
    BY <1>1, <2>1
  <2>4. /\ proposals'[n] \in ProposalRecords /\ proposals'[n].status = "finalized"
        /\ proposals'[n].votes = proposals[n].votes
    BY <2>2, <2>3 DEF ProposalRecords
  <2>5. RecordsInv'
    BY <1>1, <2>1, <2>2, <2>3, <2>4 DEF VotingInv, RecordsInv
  <2>6. \A m \in DOMAIN proposals : proposals'[m].votes = proposals[m].votes
    BY <2>3, <2>4
  <2>7. FlightsInv'
    <3>1. ASSUME NEW h \in flights'
          PROVE  /\ h \in flights /\ (h.pc = "written" => h.nonce # n)
      BY <2>1, <3>1 DEF VotingInv, FlightsInv
    <3>2. ASSUME NEW h \in flights'
          PROVE  /\ h = [id |-> h.id, nonce |-> h.nonce, pc |-> h.pc]
                 /\ h.nonce \in DOMAIN proposals' /\ Carried(proposals'[h.nonce].votes)
                 /\ h.pc = "written" =>
                      proposals'[h.nonce].status = "pending" /\ h.nonce \in 1 .. Len(inner')
      BY <2>1, <2>3, <2>6, <3>1 DEF VotingInv, FlightsInv
    <3> QED BY <3>1, <3>2 DEF VotingInv, FlightsInv
  <2>8. ChallengesInv'
    BY <1>1, <2>2, <2>3 DEF VotingInv, ChallengesInv
  <2>9. VotesKept
    BY <2>3, <2>6 DEF VotesKept
  <2>10. EntriesInv' /\ SharesInv'
    BY <1>1, <2>3, <2>6, <2>9, SharesStay
  <2> QED BY <2>5, <2>7, <2>8, <2>10 DEF VotingInv
<1> QED BY <1>2, <1>3, <1>4

LEMMA ChallengeInv ==
  ASSUME VotingInv, NEW n \in Nonces, Challenge(n)
  PROVE  VotingInv'
<1> DEFINE ch == [nonce |-> n, status |-> "pending"]
<1>1. /\ n \in DOMAIN proposals /\ proposals[n].status = "finalized"
      /\ Len(challenges) < MaxChallenges /\ challenges' = Append(challenges, ch)
      /\ validators' = validators /\ departures' = departures
      /\ proposals' = proposals /\ flights' = flights /\ inner' = inner
  BY DEF Challenge, registryVars
<1>2. ch \in Filed /\ ch.nonce = n /\ ch.status = "pending"
  BY DEF Filed
<1> HIDE DEF ch
<1>3. /\ challenges \in Seq(Filed) /\ Len(challenges) \in Nat
      /\ challenges' \in Seq(Filed) /\ Len(challenges') = Len(challenges) + 1
      /\ challenges'[Len(challenges')] = ch
      /\ \A c \in 1 .. Len(challenges) : challenges'[c] = challenges[c]
      /\ DOMAIN challenges = 1 .. Len(challenges) /\ DOMAIN challenges' = 1 .. Len(challenges')
  BY <1>1, <1>2 DEF VotingInv, ChallengesInv
<1>4. EntriesInv' /\ RecordsInv' /\ FlightsInv'
  BY <1>1 DEF VotingInv, EntriesInv, RecordsInv, FlightsInv
<1>5. ChallengesInv'
  <2>1. Len(challenges') <= MaxChallenges
    BY <1>1, <1>3, ProposalsAssumption
  <2>2. ASSUME NEW c \in 1 .. Len(challenges')
        PROVE  /\ challenges'[c].nonce \in DOMAIN proposals
               /\ proposals[challenges'[c].nonce].status # "pending"
               /\ challenges'[c].status = "won" =>
                    proposals[challenges'[c].nonce].status = "slashed"
    <3>1. CASE c = Len(challenges')
      BY <1>1, <1>2, <1>3, <3>1
    <3>2. CASE c \in 1 .. Len(challenges)
      BY <1>3, <3>2 DEF VotingInv, ChallengesInv
    <3> QED BY <1>3, <3>1, <3>2
  <2> QED BY <1>1, <1>3, <2>1, <2>2 DEF ChallengesInv
<1>6. ASSUME NEW b  PROVE Won(b)' = Won(b)
  <2>1. \A m : YesVoters(m)' = YesVoters(m)
    BY <1>1 DEF YesVoters
  <2>2. \A c \in 1 .. Len(challenges') : c = Len(challenges') \/ c \in 1 .. Len(challenges)
    BY <1>3
  <2> QED BY <1>2, <1>3, <2>1, <2>2 DEF Won
<1>7. SharesInv'
  BY <1>1, <1>6 DEF VotingInv, SharesInv
<1> QED BY <1>4, <1>5, <1>7 DEF VotingInv

LEMMA CutEffect ==
  ASSUME EntriesInv, NEW losers, NEW a \in DOMAIN validators
  PROVE  /\ DOMAIN CutAll(validators, losers) = DOMAIN validators
         /\ CutAll(validators, losers)[a] \in Entries
         /\ CutAll(validators, losers)[a].stake =
              validators[a].stake - IF a \in losers THEN Share(validators[a].stake) ELSE 0
<1>1. validators[a] \in Entries
  BY DEF EntriesInv
<1>2. PICK info : info = validators[a]
  OBVIOUS
<1>3. PICK p : p = Penalty(info)
  OBVIOUS
<1>4. /\ info \in Entries /\ info.stake \in Nat /\ info.active \in BOOLEAN
      /\ p = Share(info.stake) /\ p \in Nat /\ p <= info.stake
  BY <1>1, <1>2, <1>3, ShareBounds DEF Entries, Penalty, Share
<1>5. Cut(info, p) \in Entries /\ Cut(info, p).stake = info.stake - p
  <2>1. (IF p < info.stake THEN p ELSE info.stake) = p
    BY <1>4
  <2>2. MinStake \in Nat
    BY StakeAssumption
  <2>3. Cut(info, p) = [info EXCEPT !.stake = @ - p, !.slashes = @ + p,
                                    !.active = @ /\ info.stake - p >= MinStake]
    BY <2>1 DEF Cut
  <2>4. PICK left \in Nat : left = info.stake - p
    BY <1>4
  <2>5. info.slashes + p \in Nat
    BY <1>4 DEF Entries
  <2> QED BY <1>4, <2>2, <2>3, <2>4, <2>5 DEF Entries
<1>6. /\ DOMAIN CutAll(validators, losers) = DOMAIN validators
      /\ CutAll(validators, losers)[a] = IF a \in losers /\ p > 0 THEN Cut(info, p) ELSE info
  BY <1>2, <1>3 DEF CutAll
<1>7. CASE a \in losers /\ p > 0
  BY <1>2, <1>4, <1>5, <1>6, <1>7
<1>8. CASE ~(a \in losers /\ p > 0)
  <2>1. a \in losers => p = 0
    BY <1>4, <1>8
  <2> QED BY <1>2, <1>4, <1>6, <1>8, <2>1
<1> QED BY <1>7, <1>8

LEMMA LostChallengeInv ==
  ASSUME VotingInv, NEW c \in DOMAIN challenges, challenges[c].status = "pending",
         challenges' = [challenges EXCEPT ![c].status = "lost"],
         UNCHANGED <<registryVars, proposals, flights, inner>>
  PROVE  VotingInv'
<1>1. /\ validators' = validators /\ departures' = departures
      /\ proposals' = proposals /\ flights' = flights /\ inner' = inner
  BY DEF registryVars
<1>2. /\ challenges \in Seq(Filed) /\ DOMAIN challenges = 1 .. Len(challenges)
      /\ challenges[c] \in Filed /\ c \in 1 .. Len(challenges)
  BY DEF VotingInv, ChallengesInv
<1>3. [challenges[c] EXCEPT !.status = "lost"] \in Filed
  BY <1>2 DEF Filed
<1>4. /\ challenges' \in Seq(Filed) /\ Len(challenges') = Len(challenges)
      /\ DOMAIN challenges' = 1 .. Len(challenges)
      /\ challenges'[c].nonce = challenges[c].nonce /\ challenges'[c].status = "lost"
      /\ \A d \in 1 .. Len(challenges) : d # c => challenges'[d] = challenges[d]
  BY <1>2, <1>3 DEF Filed
<1>5. EntriesInv' /\ RecordsInv' /\ FlightsInv'
  BY <1>1 DEF VotingInv, EntriesInv, RecordsInv, FlightsInv
<1>6. ChallengesInv'
  BY <1>1, <1>4 DEF VotingInv, ChallengesInv
<1>7. ASSUME NEW b  PROVE Won(b)' = Won(b)
  <2>1. \A m : YesVoters(m)' = YesVoters(m)
    BY <1>1 DEF YesVoters
  <2> QED BY <1>2, <1>4, <2>1 DEF Won
<1>8. SharesInv'
  BY <1>1, <1>7 DEF VotingInv, SharesInv
<1> QED BY <1>5, <1>6, <1>8 DEF VotingInv

LEMMA WonChallengeInv ==
  ASSUME VotingInv, NEW c \in DOMAIN challenges, challenges[c].status = "pending",
         challenges' = [challenges EXCEPT ![c].status = "won"],
         validators' = CutAll(validators, YesVoters(challenges[c].nonce)),
         proposals' = [proposals EXCEPT ![challenges[c].nonce].status = "slashed"],
         UNCHANGED <<departures, flights, inner>>
  PROVE  VotingInv'
<1> DEFINE n == challenges[c].nonce
<1>1. /\ challenges \in Seq(Filed) /\ DOMAIN challenges = 1 .. Len(challenges)
      /\ challenges[c] \in Filed /\ c \in 1 .. Len(challenges) /\ Len(challenges) \in Nat
      /\ Len(challenges) <= MaxChallenges
      /\ n \in DOMAIN proposals /\ proposals[n].status # "pending"
      /\ proposals[n] \in ProposalRecords
      /\ departures' = departures /\ flights' = flights /\ inner' = inner
  BY DEF VotingInv, ChallengesInv, RecordsInv
<1>2. /\ DOMAIN proposals' = DOMAIN proposals
      /\ proposals'[n] = [proposals[n] EXCEPT !.status = "slashed"]
      /\ \A m \in DOMAIN proposals : m # n => proposals'[m] = proposals[m]
  BY <1>1
<1>3. /\ proposals'[n] \in ProposalRecords /\ proposals'[n].status = "slashed"
      /\ proposals'[n].votes = proposals[n].votes
  BY <1>1, <1>2 DEF ProposalRecords
<1>4. [challenges[c] EXCEPT !.status = "won"] \in Filed
  BY <1>1 DEF Filed
<1>5. /\ challenges' \in Seq(Filed) /\ Len(challenges') = Len(challenges)
      /\ DOMAIN challenges' = 1 .. Len(challenges)
      /\ challenges'[c].nonce = n /\ challenges'[c].status = "won"
      /\ \A d \in 1 .. Len(challenges) : d # c => challenges'[d] = challenges[d]
  BY <1>1, <1>4 DEF Filed
<1>6. \A m \in DOMAIN proposals :
         proposals'[m].votes = proposals[m].votes /\ YesVoters(m)' = YesVoters(m)
  <2>1. \A m \in DOMAIN proposals : proposals'[m].votes = proposals[m].votes
    BY <1>2, <1>3
  <2>2. ASSUME NEW m \in DOMAIN proposals
        PROVE  YesVoters(m)' = YesVoters(m)
    <3>1. PICK ballots : ballots = proposals[m].votes /\ ballots = proposals'[m].votes
      BY <2>1
    <3>2. YesVoters(m) = {ballots[i].who : i \in {j \in DOMAIN ballots : ballots[j].yes}}
      BY <3>1 DEF YesVoters
    <3>3. YesVoters(m)' = {ballots[i].who : i \in {j \in DOMAIN ballots : ballots[j].yes}}
      BY <3>1 DEF YesVoters
    <3> QED BY <3>2, <3>3
  <2> QED BY <2>1, <2>2
<1>7. RecordsInv'
  BY <1>1, <1>2, <1>3 DEF VotingInv, RecordsInv
<1>8. FlightsInv'
  <2>1. ASSUME NEW h \in flights
        PROVE  /\ h = [id |-> h.id, nonce |-> h.nonce, pc |-> h.pc]
               /\ h.nonce \in DOMAIN proposals' /\ Carried(proposals'[h.nonce].votes)
               /\ h.pc = "written" =>
                    proposals'[h.nonce].status = "pending" /\ h.nonce \in 1 .. Len(inner)
    BY <1>1, <1>2, <1>6, <2>1 DEF VotingInv, FlightsInv
  <2> QED BY <1>1, <2>1 DEF VotingInv, FlightsInv
<1>9. ChallengesInv'
  <2>1. ASSUME NEW d \in 1 .. Len(challenges')
        PROVE  /\ challenges'[d].nonce \in DOMAIN proposals'
               /\ proposals'[challenges'[d].nonce].status # "pending"
               /\ challenges'[d].status = "won" =>
                    proposals'[challenges'[d].nonce].status = "slashed"
    <3>1. challenges'[d].nonce = n => proposals'[challenges'[d].nonce].status = "slashed"
      BY <1>3
    <3>2. CASE d = c
      BY <1>1, <1>2, <1>3, <1>5, <3>2
    <3>3. CASE d # c
      BY <1>1, <1>2, <1>5, <3>1, <3>3 DEF VotingInv, ChallengesInv
    <3> QED BY <3>2, <3>3
  <2> QED BY <1>1, <1>5, <2>1 DEF VotingInv, ChallengesInv
<1>10. /\ DOMAIN validators' = DOMAIN validators
       /\ \A b \in DOMAIN validators :
            /\ validators'[b] \in Entries
            /\ validators'[b].stake =
                 validators[b].stake - IF b \in YesVoters(n) THEN Share(validators[b].stake) ELSE 0
  <2>1. EntriesInv
    BY DEF VotingInv
  <2>2. DOMAIN validators' = DOMAIN validators
    BY DEF CutAll
  <2> QED BY <2>1, <2>2, CutEffect
<1>11. EntriesInv'
  BY <1>1, <1>10 DEF VotingInv, EntriesInv
<1>12. ASSUME NEW b
       PROVE  Won(b)' = IF b \in YesVoters(n) THEN Won(b) \cup {c} ELSE Won(b)
  <2>1. \A d \in 1 .. Len(challenges) :
           /\ challenges'[d].nonce = challenges[d].nonce
           /\ challenges[d].nonce \in DOMAIN proposals
           /\ YesVoters(challenges[d].nonce)' = YesVoters(challenges[d].nonce)
    BY <1>1, <1>5, <1>6 DEF VotingInv, ChallengesInv
  <2>2. \A d : d \in Won(b)' <=> d \in (IF b \in YesVoters(n) THEN Won(b) \cup {c} ELSE Won(b))
    BY <1>1, <1>5, <2>1 DEF Won
  <2> QED BY <2>2
<1>13. SharesInv'
  <2> SUFFICES ASSUME departures = 0
               PROVE  /\ \A m \in DOMAIN proposals' : \A i \in 1 .. Len(proposals'[m].votes) :
                           proposals'[m].votes[i].who \in DOMAIN validators'
                      /\ \A b \in DOMAIN validators' :
                           validators'[b].stake = StakeAfter(b, Cardinality(Won(b)'))
    BY <1>1 DEF SharesInv
  <2>1. \A m \in DOMAIN proposals' : \A i \in 1 .. Len(proposals'[m].votes) :
           proposals'[m].votes[i].who \in DOMAIN validators'
    BY <1>2, <1>6, <1>10 DEF VotingInv, SharesInv
  <2>2. ASSUME NEW b \in DOMAIN validators
        PROVE  validators'[b].stake = StakeAfter(b, Cardinality(Won(b)'))
    <3>1. validators[b].stake = StakeAfter(b, Cardinality(Won(b))) /\ b \in Members
      BY DEF VotingInv, SharesInv, EntriesInv
    <3>2. validators[b].stake \in Nat
      BY DEF VotingInv, EntriesInv, Entries
    <3>3. CASE b \notin YesVoters(n)
      BY <1>10, <1>12, <3>1, <3>2, <3>3
    <3>4. CASE b \in YesVoters(n)
      <4>1. c \notin Won(b)
        BY DEF Won
      <4>2. IsFiniteSet(Won(b)) /\ Cardinality(Won(b)) \in Nat
        BY WonIsFinite, FS_CardinalityType DEF VotingInv
      <4>3. PICK k \in Nat : k = Cardinality(Won(b))
        BY <4>2
      <4>4. Cardinality(Won(b)') = k + 1
        BY <1>12, <3>4, <4>1, <4>2, <4>3, FS_AddElement
      <4>5. k + 1 <= Len(challenges)
        <5>1. Won(b) \cup {c} \subseteq 1 .. Len(challenges)
          BY <1>1, WonIsFinite DEF VotingInv
        <5>2. \A m \in Int : /\ IsFiniteSet(1 .. m)
                             /\ Cardinality(1 .. m) = IF 1 > m THEN 0 ELSE m - 1 + 1
          BY FS_Interval
        <5>3. /\ IsFiniteSet(1 .. Len(challenges))
              /\ Cardinality(1 .. Len(challenges)) = Len(challenges)
          BY <1>1, <5>2
        <5>4. Cardinality(Won(b) \cup {c}) <= Len(challenges)
          BY <5>1, <5>3, FS_Subset
        <5>5. Cardinality(Won(b) \cup {c}) = k + 1
          BY <4>1, <4>2, <4>3, FS_AddElement
        <5> QED BY <5>4, <5>5
      <4>6. k + 1 \in 1 .. MaxChallenges /\ (k + 1) - 1 = k
        BY <1>1, <4>5, ProposalsAssumption
      <4>7. StakeAfter(b, k + 1) = StakeAfter(b, k) - Share(StakeAfter(b, k))
        <5>1. \A j \in 1 .. MaxChallenges :
                 StakeAfter(b, j) = StakeAfter(b, j - 1) - Share(StakeAfter(b, j - 1))
          BY <3>1, SlashesLeave
        <5> QED BY <4>6, <5>1
      <4> QED BY <1>10, <3>1, <3>4, <4>3, <4>4, <4>7
    <3> QED BY <3>3, <3>4
  <2> QED BY <1>10, <2>1, <2>2
<1> QED BY <1>7, <1>8, <1>9, <1>11, <1>13 DEF VotingInv

LEMMA VotingStep ==
  ASSUME VotingInv, ProposalsNext \/ UNCHANGED proposalVars
  PROVE  VotingInv'
<1>1. ASSUME NEW c \in DOMAIN challenges, NEW wins \in BOOLEAN, ResolveChallenge(c, wins)
      PROVE  VotingInv'
  <2>1. CASE wins
    BY <1>1, <2>1, WonChallengeInv DEF ResolveChallenge
  <2>2. CASE ~wins
    BY <1>1, <2>2, LostChallengeInv DEF ResolveChallenge, registryVars
  <2> QED BY <2>1, <2>2
<1>2. CASE UNCHANGED proposalVars
  <2>1. /\ validators' = validators /\ departures' = departures /\ proposals' = proposals
        /\ flights' = flights /\ inner' = inner /\ challenges' = challenges
    BY <1>2 DEF proposalVars, registryVars
  <2>2. EntriesInv' /\ RecordsInv' /\ FlightsInv' /\ ChallengesInv'
    BY <2>1 DEF VotingInv, EntriesInv, RecordsInv, FlightsInv, ChallengesInv
  <2>3. \A b : Won(b)' = Won(b)
    BY <2>1 DEF Won, YesVoters
  <2>4. SharesInv'
    BY <2>1, <2>3 DEF VotingInv, SharesInv
  <2> QED BY <2>2, <2>4 DEF VotingInv
<1> QED BY <1>1, <1>2, RegistrationInv, CreateProposalInv, VoteInv, FinalizeInv, ChallengeInv,
           FlightSteps DEF ProposalsNext

LEMMA VotingSound ==
  VotingInv => /\ FinalizedHadSupermajority /\ FinalizedIsRecorded
               /\ WonMeansSlashed /\ SlashesMatchChallenges
<1> SUFFICES ASSUME VotingInv
             PROVE  /\ FinalizedHadSupermajority /\ FinalizedIsRecorded
                    /\ WonMeansSlashed /\ SlashesMatchChallenges
  OBVIOUS
<1>1. FinalizedHadSupermajority
  BY DEF VotingInv, RecordsInv, ProposalRecords, Carried, FinalizedHadSupermajority
<1>2. FinalizedIsRecorded
  BY DEF VotingInv, RecordsInv, FinalizedIsRecorded
<1>3. WonMeansSlashed
  BY DEF VotingInv, ChallengesInv, WonMeansSlashed
<1>4. SlashesMatchChallenges
  <2>1. departures = 0 => \A a \in Registered :
           validators[a].stake = StakeAfter(a, Cardinality(Won(a)))
    BY DEF VotingInv, SharesInv, Registered
  <2> QED BY <2>1 DEF SlashesMatchChallenges, StakeAfter, AfterEquation, Won
<1> QED BY <1>1, <1>2, <1>3, <1>4

(* A decision stands on the votes behind it, among validators and in         *)
(* governance, over racing finalizations, late votes and challenges.         *)
THEOREM VotesAreDecisive == Spec => []VotesDecide
<1>1. Init => VotingInv /\ GovInv
  BY VotingStarts, GovStarts DEF Init
<1>2. VotingInv /\ GovInv /\ [Next]_vars => (VotingInv /\ GovInv)'
  <2> SUFFICES ASSUME VotingInv, GovInv, [Next]_vars  PROVE VotingInv' /\ GovInv'
    OBVIOUS
  <2>1. ProposalsNext \/ UNCHANGED proposalVars
    BY DEF Next, vars, components
  <2>2. GovNext \/ UNCHANGED govVars
    BY DEF Next, vars, components
  <2> QED BY <2>1, <2>2, VotingStep, GovStep
<1>3. VotingInv /\ GovInv => VotesDecide
  BY VotingSound, GovSound DEF VotesDecide
<1> QED BY <1>1, <1>2, <1>3, PTL DEF Spec

-----------------------------------------------------------------------------
(* Tool calls. Every call and edge known so far is in a queue, in the batch  *)
(* of the writer, stored or reported, and nothing else is; the batch of      *)
(* calls is empty whenever a writer that was not stopped gathers.            *)
TracedCalls == {<<n>> : n \in 1..next - 1}
Nodes == TracedCalls \cup links
McpInv ==
  /\ next \in Nat \ {0}
  /\ callQueue \in Seq(Nodes) /\ edgeQueue \in Seq(Nodes)
  /\ callBatch \in Seq(Nodes) /\ edgeBatch \in Seq(Nodes)
  /\ stored \subseteq Nodes
  /\ writer = [pc |-> writer.pc, attempt |-> writer.attempt, stop |-> writer.stop,
               cut |-> writer.cut]
  /\ writer.stop \in BOOLEAN
  /\ writer.pc = "wait" /\ ~writer.stop => callBatch = <<>>
  /\ McpAccounted

LEMMA ItemsConcat ==
  ASSUME NEW S, NEW s \in Seq(S), NEW t \in Seq(S)
  PROVE  /\ s \o t \in Seq(S)
         /\ ToSet(s \o t) = ToSet(s) \cup ToSet(t)
<1>1. \A i \in 1..Len(s) : i \in 1..Len(s \o t) /\ (s \o t)[i] = s[i]
  OBVIOUS
<1>2. \A i \in 1..Len(t) : i + Len(s) \in 1..Len(s \o t) /\ (s \o t)[i + Len(s)] = t[i]
  OBVIOUS
<1>3. \A i \in 1..Len(s \o t) :
        \/ i \in 1..Len(s)
        \/ i - Len(s) \in 1..Len(t) /\ i = (i - Len(s)) + Len(s)
  OBVIOUS
<1>4. DOMAIN s = 1..Len(s) /\ DOMAIN t = 1..Len(t) /\ DOMAIN (s \o t) = 1..Len(s \o t)
  OBVIOUS
<1>5. ToSet(s) \cup ToSet(t) \subseteq ToSet(s \o t)
  BY <1>1, <1>2, <1>4 DEF ToSet
<1>6. ASSUME NEW x \in ToSet(s \o t)
      PROVE  x \in ToSet(s) \cup ToSet(t)
  <2>1. PICK i \in 1..Len(s \o t) : x = (s \o t)[i]
    BY <1>4, <1>6 DEF ToSet
  <2>2. CASE i \in 1..Len(s)
    BY <1>1, <1>4, <2>1, <2>2 DEF ToSet
  <2>3. CASE i - Len(s) \in 1..Len(t) /\ i = (i - Len(s)) + Len(s)
    <3>1. PICK j \in 1..Len(t) : i = j + Len(s)
      BY <2>3
    <3>2. x = t[j]
      BY <1>2, <2>1, <3>1
    <3> QED BY <1>4, <3>2 DEF ToSet
  <2> QED BY <1>3, <2>2, <2>3
<1>7. s \o t \in Seq(S)
  OBVIOUS
<1> QED BY <1>5, <1>6, <1>7

LEMMA Pair ==
  ASSUME NEW a, NEW b
  PROVE  <<a>> \o <<b>> = <<a, b>>
<1> DEFINE s == <<a>> \o <<b>>
           t == <<a, b>>
           S == {a, b}
<1>1. <<a>> \in Seq(S) /\ <<b>> \in Seq(S)
  OBVIOUS
<1>2. s \in Seq(S) /\ Len(s) = 2 /\ s[1] = a /\ s[2] = b
  BY <1>1
<1>3. t \in Seq(S) /\ Len(t) = 2 /\ t[1] = a /\ t[2] = b
  OBVIOUS
<1> HIDE DEF s, t, S
<1>4. \A i \in 1..Len(s) : s[i] = t[i]
  <2>1. \A i \in 1..2 : i = 1 \/ i = 2
    OBVIOUS
  <2> QED BY <1>2, <1>3, <2>1
<1>5. s = t
  BY <1>2, <1>3, <1>4, SeqEqual
<1> QED BY <1>5 DEF s, t

LEMMA ItemsSplit ==
  ASSUME NEW S, NEW s \in Seq(S), NEW k \in 0..Len(s)
  PROVE  /\ SubSeq(s, 1, k) \in Seq(S) /\ SubSeq(s, k + 1, Len(s)) \in Seq(S)
         /\ ToSet(s) = ToSet(SubSeq(s, 1, k)) \cup ToSet(SubSeq(s, k + 1, Len(s)))
<1> DEFINE a == SubSeq(s, 1, k)
           b == SubSeq(s, k + 1, Len(s))
<1>1. a \in Seq(S) /\ Len(a) = k /\ \A i \in 1..k : a[i] = s[i]
  OBVIOUS
<1>2. /\ b \in Seq(S) /\ Len(b) = Len(s) - k
      /\ \A i \in 1..Len(s) - k : b[i] = s[k + i]
  OBVIOUS
<1>3. DOMAIN a = 1..k /\ DOMAIN b = 1..Len(s) - k /\ DOMAIN s = 1..Len(s)
  BY <1>1, <1>2
<1>4. ASSUME NEW x \in ToSet(s)
      PROVE  x \in ToSet(a) \cup ToSet(b)
  <2>1. PICK i \in 1..Len(s) : x = s[i]
    BY <1>3, <1>4 DEF ToSet
  <2>2. CASE i \in 1..k
    BY <1>1, <1>3, <2>1, <2>2 DEF ToSet
  <2>3. CASE i > k
    <3>1. i - k \in 1..Len(s) - k /\ i = k + (i - k)
      BY <2>3
    <3>2. b[i - k] = x
      BY <1>2, <2>1, <3>1
    <3> QED BY <1>3, <3>1, <3>2 DEF ToSet
  <2> QED BY <2>2, <2>3
<1>5. ASSUME NEW x \in ToSet(a) \cup ToSet(b)
      PROVE  x \in ToSet(s)
  <2>1. CASE x \in ToSet(a)
    <3>1. PICK i \in 1..k : x = a[i]
      BY <1>3, <2>1 DEF ToSet
    <3> QED BY <1>1, <1>3, <3>1 DEF ToSet
  <2>2. CASE x \in ToSet(b)
    <3>1. PICK i \in 1..Len(s) - k : x = b[i]
      BY <1>3, <2>2 DEF ToSet
    <3>2. k + i \in 1..Len(s) /\ x = s[k + i]
      BY <1>2, <3>1
    <3> QED BY <1>3, <3>2 DEF ToSet
  <2> QED BY <1>5, <2>1, <2>2
<1> QED BY <1>1, <1>2, <1>4, <1>5

LEMMA ItemsTyped ==
  ASSUME NEW S, NEW s \in Seq(S)
  PROVE  ToSet(s) \subseteq S
BY DEF ToSet

LEMMA Widened ==
  ASSUME NEW S, NEW T, S \subseteq T, NEW s \in Seq(S)
  PROVE  s \in Seq(T)
<1>1. \A i \in 1..Len(s) : s[i] \in T
  OBVIOUS
<1> QED BY <1>1

LEMMA McpStarts == McpInit => McpInv
<1> SUFFICES ASSUME McpInit  PROVE McpInv
  OBVIOUS
<1>1. TracedCalls = {}
  BY DEF McpInit, TracedCalls
<1>2. McpAccounted
  BY <1>1 DEF McpInit, McpAccounted, TracedCalls
<1> QED BY <1>2 DEF McpInit, McpInv

(* What a queue takes of a chain of calls or edges.                          *)
LEMMA FitsTyped ==
  ASSUME NEW S, NEW q \in Seq(S), NEW items \in Seq(S),
         NEW capacity, capacity \in Nat
  PROVE  Fits(q, capacity, items) \in Seq(S)
<1> DEFINE k == IF capacity - Len(q) < Len(items) THEN capacity - Len(q) ELSE Len(items)
<1>1. Fits(q, capacity, items) = SubSeq(items, 1, k)
  BY DEF Fits
<1>2. k \in Int /\ k <= Len(items)
  OBVIOUS
<1> HIDE DEF k
<1>3. SubSeq(items, 1, k) \in Seq(S)
  BY <1>2
<1> QED BY <1>1, <1>3

LEMMA ResponseInv ==
  ASSUME McpInv, NEW n \in 1..MaxPerResponse, Response(n)
  PROVE  McpInv'
<1> DEFINE calls == [i \in 1..n |-> <<next + i - 1>>]
           edges == Chain(calls)
           added == {<<next + i - 1, next + i>> : i \in 1..n - 1}
           taken == Fits(callQueue, CallCapacity, calls)
           linked == Fits(edgeQueue, EdgeCapacity, edges)
<1>1. next \in Nat \ {0} /\ n \in Nat \ {0} /\ next' = next + n /\ next' \in Nat \ {0}
  BY DEF McpInv, Response
<1>2. links' = links \cup added
  BY DEF Response
<1>3. TracedCalls' = {<<m>> : m \in 1..next + n - 1}
  BY <1>1 DEF TracedCalls
<1>4. Nodes \subseteq Nodes'
  BY <1>1, <1>2, <1>3 DEF Nodes, TracedCalls
<1>5. calls \in Seq(Nodes') /\ Len(calls) = n /\ \A i \in 1..n : calls[i] = <<next + i - 1>>
  <2>1. \A i \in 1..n : next + i - 1 \in 1..next + n - 1
    BY <1>1
  <2>2. \A i \in 1..n : <<next + i - 1>> \in Nodes'
    BY <1>3, <2>1 DEF Nodes
  <2> QED BY <1>1, <2>2
<1>6. TracedCalls' \subseteq TracedCalls \cup ToSet(calls)
  <2>1. ASSUME NEW x \in TracedCalls', x \notin TracedCalls
        PROVE  x \in ToSet(calls)
    <3>1. PICK m \in 1..next + n - 1 : x = <<m>>
      BY <1>3, <2>1
    <3>2. ~(m \in 1..next - 1)
      BY <2>1, <3>1 DEF TracedCalls
    <3>3. m - next + 1 \in 1..n /\ m = next + (m - next + 1) - 1
      BY <1>1, <3>1, <3>2
    <3>4. calls[m - next + 1] = x
      BY <1>5, <3>1, <3>3
    <3> QED BY <1>5, <3>3, <3>4 DEF ToSet
  <2> QED BY <2>1
<1>7. /\ edges \in Seq(Nodes')
      /\ ToSet(edges) = added
  <2>1. \A i \in 1..n - 1 : calls[i] \o calls[i + 1] = <<next + i - 1, next + i>>
    <3> SUFFICES ASSUME NEW i \in 1..n - 1
                 PROVE  calls[i] \o calls[i + 1] = <<next + i - 1, next + i>>
      OBVIOUS
    <3>1. calls[i] = <<next + i - 1>> /\ calls[i + 1] = <<next + i>>
      BY <1>1, <1>5
    <3> HIDE DEF calls
    <3> QED BY <3>1, Pair
  <2>2. edges = [i \in 1..n - 1 |-> calls[i] \o calls[i + 1]]
    BY <1>5 DEF Chain
  <2> HIDE DEF calls, edges
  <2>3. n - 1 \in Nat /\ \A i \in 1..n - 1 : edges[i] = <<next + i - 1, next + i>>
    <3>1. \A i \in 1..n - 1 : edges[i] = calls[i] \o calls[i + 1]
      BY <2>2
    <3>2. n - 1 \in Nat
      BY <1>1
    <3> QED BY <2>1, <3>1, <3>2
  <2>4. added \subseteq Nodes'
    BY <1>2 DEF Nodes
  <2>5. edges \in Seq(Nodes')
    <3>1. \A i \in 1..n - 1 : <<next + i - 1, next + i>> \in Nodes'
      BY <2>4 DEF added
    <3>2. \A i \in 1..n - 1 : edges[i] \in Nodes'
      BY <2>3, <3>1
    <3>3. edges = [i \in 1..n - 1 |-> edges[i]]
      BY <2>2
    <3> QED BY <2>3, <3>2, <3>3
  <2>6. DOMAIN edges = 1..n - 1
    BY <2>2
  <2> QED BY <2>3, <2>5, <2>6 DEF ToSet
<1>8. /\ callQueue \in Seq(Nodes') /\ edgeQueue \in Seq(Nodes')
      /\ callBatch \in Seq(Nodes') /\ edgeBatch \in Seq(Nodes') /\ stored \subseteq Nodes'
  BY <1>4, Widened DEF McpInv
<1>9. /\ callQueue' = callQueue \o taken /\ edgeQueue' = edgeQueue \o linked
      /\ reportedLost' = reportedLost \cup (ToSet(calls) \ ToSet(taken))
                           \cup (ToSet(edges) \ ToSet(linked))
      /\ UNCHANGED <<callBatch, edgeBatch, writer, stored, faults>>
  BY DEF Response, batches
<1> HIDE DEF calls, edges, added
<1>10. /\ callQueue' \in Seq(Nodes') /\ edgeQueue' \in Seq(Nodes')
       /\ ToSet(callQueue') = ToSet(callQueue) \cup ToSet(taken)
       /\ ToSet(edgeQueue') = ToSet(edgeQueue) \cup ToSet(linked)
  <2>1. CallCapacity \in Nat /\ EdgeCapacity \in Nat
    BY McpAssumption
  <2>2. PICK S : S = Nodes'
    OBVIOUS
  <2>3. /\ callQueue \in Seq(S) /\ calls \in Seq(S)
        /\ edgeQueue \in Seq(S) /\ edges \in Seq(S)
    BY <1>5, <1>7, <1>8, <2>2
  <2>4. taken \in Seq(S) /\ linked \in Seq(S)
    BY <2>1, <2>3, FitsTyped
  <2> HIDE DEF taken, linked
  <2>5. /\ callQueue \o taken \in Seq(S)
        /\ ToSet(callQueue \o taken) = ToSet(callQueue) \cup ToSet(taken)
    BY <2>3, <2>4, ItemsConcat
  <2>6. /\ edgeQueue \o linked \in Seq(S)
        /\ ToSet(edgeQueue \o linked) = ToSet(edgeQueue) \cup ToSet(linked)
    BY <2>3, <2>4, ItemsConcat
  <2> QED BY <1>9, <2>2, <2>5, <2>6
<1> HIDE DEF taken, linked
<1>11. Rows' = Rows
  BY <1>9 DEF Rows
<1>12. McpAccounted'
  <2> SUFFICES ASSUME NEW x \in TracedCalls' \cup links'
               PROVE  \/ x \in ToSet(callQueue') \cup ToSet(edgeQueue') \cup Rows
                      \/ x \in stored \cup reportedLost'
    BY <1>9, <1>11 DEF McpAccounted, TracedCalls
  <2>1. CASE x \in TracedCalls \cup links
    <3>1. \/ x \in ToSet(callQueue) \cup ToSet(edgeQueue) \cup Rows
          \/ x \in stored \cup reportedLost
      BY <2>1 DEF McpInv, McpAccounted, TracedCalls
    <3> QED BY <1>9, <1>10, <3>1
  <2>2. CASE x \in ToSet(calls)
    BY <1>9, <1>10, <2>2
  <2>3. CASE x \in ToSet(edges)
    BY <1>9, <1>10, <2>3
  <2>4. x \in TracedCalls \cup links \cup ToSet(calls) \cup ToSet(edges)
    <3>1. CASE x \in TracedCalls'
      <4>1. CASE x \in TracedCalls
        BY <4>1
      <4>2. CASE x \notin TracedCalls
        BY <1>6, <3>1, <4>2
      <4> QED BY <4>1, <4>2
    <3>2. CASE x \in links'
      BY <1>2, <1>7, <3>2
    <3> QED BY <3>1, <3>2
  <2> QED BY <2>1, <2>2, <2>3, <2>4
<1> QED BY <1>1, <1>8, <1>9, <1>10, <1>12 DEF McpInv

(* The actions that only change the batch, the store and the writer keep the *)
(* invariant when every row is kept in one of them or reported.              *)
LEMMA SameNodes ==
  ASSUME UNCHANGED <<next, links>>
  PROVE  Nodes' = Nodes /\ TracedCalls' = TracedCalls
BY DEF Nodes, TracedCalls

LEMMA RowsAreNodes ==
  ASSUME McpInv
  PROVE  Rows \subseteq Nodes
<1>1. callBatch \in Seq(Nodes) /\ edgeBatch \in Seq(Nodes)
  BY DEF McpInv
<1>2. ToSet(callBatch) \subseteq Nodes /\ ToSet(edgeBatch) \subseteq Nodes
  BY <1>1, ItemsTyped
<1> QED BY <1>2 DEF Rows

LEMMA EmptyItems == <<>> \in Seq(Nodes) /\ ToSet(<<>>) = {}
BY DEF ToSet

LEMMA Kept ==
  ASSUME McpInv, UNCHANGED <<next, links>>,
         ToSet(callQueue) \cup ToSet(edgeQueue) \cup Rows \cup stored \cup reportedLost
           \subseteq ToSet(callQueue') \cup ToSet(edgeQueue') \cup Rows'
                       \cup stored' \cup reportedLost'
  PROVE  McpAccounted'
<1> SUFFICES ASSUME NEW x \in TracedCalls \cup links
             PROVE  \/ x \in ToSet(callQueue') \cup ToSet(edgeQueue') \cup Rows'
                    \/ x \in stored' \cup reportedLost'
  BY SameNodes DEF McpAccounted, TracedCalls
<1>1. \/ x \in ToSet(callQueue) \cup ToSet(edgeQueue) \cup Rows
      \/ x \in stored \cup reportedLost
  BY DEF McpInv, McpAccounted, TracedCalls
<1> QED BY <1>1

LEMMA GatherInv ==
  ASSUME McpInv, Gather
  PROVE  McpInv'
<1> DEFINE k == IF McpBatch - Len(callBatch) < Len(callQueue)
                  THEN McpBatch - Len(callBatch) ELSE Len(callQueue)
<1>1. callBatch = <<>> /\ Len(callBatch) = 0
  BY DEF McpInv, Gather
<1>2. callQueue \in Seq(Nodes) /\ edgeQueue \in Seq(Nodes) /\ edgeBatch \in Seq(Nodes)
  BY DEF McpInv
<1>3. k \in 0..Len(callQueue)
  BY <1>1, <1>2, McpAssumption
<1>4. /\ callBatch' = callBatch \o SubSeq(callQueue, 1, k)
      /\ callQueue' = SubSeq(callQueue, k + 1, Len(callQueue))
      /\ edgeBatch' = edgeBatch \o edgeQueue /\ edgeQueue' = <<>>
      /\ writer' = [writer EXCEPT !.pc = "flush", !.attempt = 1]
      /\ UNCHANGED <<next, stored, reportedLost, links, faults>>
  BY DEF Gather
<1> HIDE DEF k
<1>5. /\ SubSeq(callQueue, 1, k) \in Seq(Nodes) /\ callQueue' \in Seq(Nodes)
      /\ ToSet(callQueue) = ToSet(SubSeq(callQueue, 1, k)) \cup ToSet(callQueue')
  BY <1>2, <1>3, <1>4, ItemsSplit
<1>6. /\ callBatch' \in Seq(Nodes)
      /\ ToSet(callBatch') = ToSet(callBatch) \cup ToSet(SubSeq(callQueue, 1, k))
  BY <1>1, <1>4, <1>5, ItemsConcat, EmptyItems
<1>7. /\ edgeBatch' \in Seq(Nodes)
      /\ ToSet(edgeBatch') = ToSet(edgeBatch) \cup ToSet(edgeQueue)
  BY <1>2, <1>4, ItemsConcat
<1>8. McpAccounted'
  <2>1. UNCHANGED <<next, links, stored, reportedLost>>
    BY <1>4
  <2> QED BY <1>5, <1>6, <1>7, <2>1, Kept DEF Rows
<1>9. Nodes' = Nodes
  BY <1>4, SameNodes
<1> QED BY <1>4, <1>5, <1>6, <1>7, <1>8, <1>9, EmptyItems DEF McpInv

LEMMA DrainInv ==
  ASSUME McpInv, Drain
  PROVE  McpInv'
<1>1. /\ callQueue \in Seq(Nodes) /\ edgeQueue \in Seq(Nodes)
      /\ callBatch \in Seq(Nodes) /\ edgeBatch \in Seq(Nodes)
  BY DEF McpInv
<1>2. /\ callBatch' = callBatch \o callQueue /\ edgeBatch' = edgeBatch \o edgeQueue
      /\ callQueue' = <<>> /\ edgeQueue' = <<>>
      /\ writer' = [writer EXCEPT !.pc = "last", !.attempt = 1]
      /\ UNCHANGED <<next, stored, reportedLost, links, faults>>
  BY DEF Drain
<1>3. /\ callBatch' \in Seq(Nodes) /\ edgeBatch' \in Seq(Nodes)
      /\ ToSet(callBatch') = ToSet(callBatch) \cup ToSet(callQueue)
      /\ ToSet(edgeBatch') = ToSet(edgeBatch) \cup ToSet(edgeQueue)
  BY <1>1, <1>2, ItemsConcat
<1>4. McpAccounted'
  BY <1>2, <1>3, Kept DEF Rows
<1>5. Nodes' = Nodes
  BY <1>2, SameNodes
<1> QED BY <1>2, <1>3, <1>4, <1>5, EmptyItems DEF McpInv

(* A flush that ended, by the batch or row by row, leaves every row of the   *)
(* batch in the store or in the report.                                      *)
LEMMA FlushEndsInv ==
  ASSUME McpInv, Flushing, UNCHANGED <<next, links, callQueue, edgeQueue>>,
         stored \subseteq stored', stored' \subseteq stored \cup Rows,
         reportedLost \subseteq reportedLost', Rows \subseteq stored' \cup reportedLost',
         callBatch' = <<>>, edgeBatch' = <<>>, writer' = Done
  PROVE  McpInv'
<1>1. McpAccounted'
  BY Kept
<1>2. Nodes' = Nodes
  BY SameNodes
<1>3. stored' \subseteq Nodes'
  BY <1>2, RowsAreNodes DEF McpInv
<1>4. callBatch' \in Seq(Nodes') /\ edgeBatch' \in Seq(Nodes')
  BY <1>2, EmptyItems
<1> QED BY <1>1, <1>2, <1>3, <1>4 DEF McpInv, Done

LEMMA FlushedInv ==
  ASSUME McpInv, Flushed
  PROVE  McpInv'
BY FlushEndsInv DEF Flushed, mcpQueues

LEMMA FallBackInv ==
  ASSUME McpInv, NEW lost, FallBack(lost)
  PROVE  McpInv'
BY FlushEndsInv DEF FallBack, mcpQueues, OneByOne

(* A flush that is interrupted may have stored some of its rows, and keeps   *)
(* its batch.                                                                *)
LEMMA InterruptedInv ==
  ASSUME McpInv, UNCHANGED <<next, links, callQueue, edgeQueue, callBatch, edgeBatch>>,
         reportedLost' = reportedLost,
         stored \subseteq stored', stored' \subseteq stored \cup Rows,
         writer' = [pc |-> writer'.pc, attempt |-> writer'.attempt, stop |-> writer'.stop,
                    cut |-> writer'.cut],
         writer'.stop \in BOOLEAN,
         writer'.pc = "wait" /\ ~writer'.stop => callBatch = <<>>
  PROVE  McpInv'
<1>1. Rows' = Rows
  BY DEF Rows
<1>2. McpAccounted'
  BY <1>1, Kept
<1>3. Nodes' = Nodes
  BY SameNodes
<1> QED BY <1>2, <1>3, RowsAreNodes DEF McpInv

LEMMA FlushFailsInv ==
  ASSUME McpInv, NEW committed \in BOOLEAN, FlushFails(committed)
  PROVE  McpInv'
<1>1. /\ UNCHANGED <<next, links, callQueue, edgeQueue, callBatch, edgeBatch>>
      /\ reportedLost' = reportedLost
      /\ stored \subseteq stored' /\ stored' \subseteq stored \cup Rows
  BY DEF FlushFails, mcpQueues, batches
<1>2. /\ writer' = [writer EXCEPT !.attempt = writer.attempt + 1]
      /\ writer.pc # "wait"
  BY DEF FlushFails, Flushing
<1>3. /\ writer'.pc = writer.pc /\ writer'.stop = writer.stop
      /\ writer' = [pc |-> writer'.pc, attempt |-> writer'.attempt, stop |-> writer'.stop,
                    cut |-> writer'.cut]
  BY <1>2 DEF McpInv
<1>4. writer'.stop \in BOOLEAN /\ ~(writer'.pc = "wait")
  BY <1>2, <1>3 DEF McpInv
<1> QED BY <1>1, <1>3, <1>4, InterruptedInv

LEMMA CloseInv ==
  ASSUME McpInv, Close
  PROVE  McpInv'
<1>1. /\ UNCHANGED <<next, links, callQueue, edgeQueue, callBatch, edgeBatch>>
      /\ reportedLost' = reportedLost /\ stored' = stored
  BY DEF Close, mcpQueues, batches
<1>2. /\ writer'.stop = TRUE
      /\ writer' = [pc |-> writer'.pc, attempt |-> writer'.attempt, stop |-> writer'.stop,
                    cut |-> writer'.cut]
  BY DEF Close, McpInv
<1> QED BY <1>1, <1>2, InterruptedInv

LEMMA CutOffInv ==
  ASSUME McpInv, NEW written \in SUBSET Rows, CutOff(written)
  PROVE  McpInv'
<1>1. /\ UNCHANGED <<next, links, callQueue, edgeQueue, callBatch, edgeBatch>>
      /\ reportedLost' = reportedLost
      /\ stored \subseteq stored' /\ stored' \subseteq stored \cup Rows
  BY DEF CutOff, mcpQueues, batches
<1>2. /\ writer.stop /\ writer'.stop = writer.stop
      /\ writer' = [pc |-> writer'.pc, attempt |-> writer'.attempt, stop |-> writer'.stop,
                    cut |-> writer'.cut]
  BY DEF CutOff, McpInv
<1>3. writer'.stop \in BOOLEAN /\ writer'.stop
  BY <1>2 DEF McpInv
<1> QED BY <1>1, <1>2, <1>3, InterruptedInv

LEMMA CutOffDrainInv ==
  ASSUME McpInv, CutOffDrain
  PROVE  McpInv'
<1>1. /\ UNCHANGED <<next, links, callQueue, edgeQueue, callBatch, edgeBatch>>
      /\ reportedLost' = reportedLost /\ stored' = stored
  BY DEF CutOffDrain, mcpQueues, batches
<1>2. /\ writer.stop /\ writer'.stop = writer.stop
      /\ writer' = [pc |-> writer'.pc, attempt |-> writer'.attempt, stop |-> writer'.stop,
                    cut |-> writer'.cut]
  BY DEF CutOffDrain, McpInv
<1>3. writer'.stop \in BOOLEAN /\ writer'.stop
  BY <1>2 DEF McpInv
<1> QED BY <1>1, <1>2, <1>3, InterruptedInv

LEMMA McpStep == McpInv /\ (McpNext \/ UNCHANGED mcpVars) => McpInv'
<1> SUFFICES ASSUME McpInv, McpNext \/ UNCHANGED mcpVars  PROVE McpInv'
  OBVIOUS
<1>1. CASE UNCHANGED mcpVars
  <2>1. Nodes' = Nodes /\ Rows' = Rows /\ McpAccounted' = McpAccounted
    BY <1>1, SameNodes DEF mcpVars, Rows, McpAccounted
  <2> QED BY <1>1, <2>1 DEF mcpVars, McpInv
<1>2. CASE McpNext
  <2>1. CASE \E n \in 1..MaxPerResponse : Response(n)
    BY <2>1, ResponseInv
  <2>2. CASE WriterStep
    BY <2>2, GatherInv, DrainInv, FlushedInv, FlushFailsInv, FallBackInv DEF WriterStep
  <2>3. CASE \E written \in SUBSET Rows : CutOff(written)
    BY <2>3, CutOffInv
  <2> QED BY <1>2, <2>1, <2>2, <2>3, CloseInv, CutOffDrainInv DEF McpNext
<1> QED BY <1>1, <1>2

LEMMA McpSound == McpInv => CallGraphsKept
<1> SUFFICES ASSUME McpInv  PROVE CallGraphsKept
  OBVIOUS
<1>1. McpAccounted
  BY DEF McpInv
<1>2. ChainsAreWhole
  <2> SUFFICES ASSUME callQueue = <<>>, edgeQueue = <<>>, Rows = {}, reportedLost = {}
               PROVE  stored = TracedCalls \cup links
    BY DEF ChainsAreWhole, TracedCalls
  <2>1. ToSet(callQueue) = {} /\ ToSet(edgeQueue) = {}
    BY EmptyItems
  <2>2. TracedCalls \cup links \subseteq stored
    BY <1>1, <2>1 DEF McpAccounted, TracedCalls
  <2>3. stored \subseteq TracedCalls \cup links
    BY DEF McpInv, Nodes
  <2> QED BY <2>2, <2>3
<1> QED BY <1>1, <1>2 DEF CallGraphsKept

(* No tool call and no edge of a graph disappears silently, over full        *)
(* queues, retries, the fallback and shutdown (mcp/writer.py), and a trace   *)
(* of which nothing was dropped is whole.                                    *)
THEOREM GraphsAreKept == Spec => []CallGraphsKept
<1>1. Init => McpInv
  BY McpStarts DEF Init
<1>2. McpInv /\ [Next]_vars => McpInv'
  <2> SUFFICES ASSUME McpInv, [Next]_vars  PROVE McpInv'
    OBVIOUS
  <2>1. McpNext \/ UNCHANGED mcpVars
    BY DEF Next, vars, components
  <2> QED BY <2>1, McpStep
<1>3. McpInv => CallGraphsKept
  BY McpSound
<1> QED BY <1>1, <1>2, <1>3, PTL DEF Spec

(* Benchmark runs. The positions of a sequence that are picked in order:     *)
(* each position is picked for one number, and each number up to how many    *)
(* they are has one.                                                         *)
LEMMA UpTo ==
  ASSUME NEW N \in Nat, NEW S \in SUBSET (1 .. N)
  PROVE  /\ IsFiniteSet(S) /\ Cardinality(S) \in Nat /\ Cardinality(S) <= N
         /\ {k \in S : k <= N} = S
<1>1. IsFiniteSet(1 .. N) /\ Cardinality(1 .. N) = N
  <2>1. \A n \in Int : /\ IsFiniteSet(1 .. n)
                      /\ Cardinality(1 .. n) = IF 1 > n THEN 0 ELSE n - 1 + 1
    BY FS_Interval
  <2> QED BY <2>1
<1>2. \A k \in S : k \in Int /\ 1 <= k /\ k <= N
  OBVIOUS
<1>3. {k \in S : k <= N} = S
  BY <1>2
<1>4. IsFiniteSet(S) /\ Cardinality(S) <= N
  BY <1>1, FS_Subset
<1> QED BY <1>3, <1>4, FS_CardinalityType

LEMMA NthExists ==
  ASSUME NEW N \in Nat, NEW S \in SUBSET (1 .. N), NEW n \in 1 .. Cardinality(S)
  PROVE  Nth(S, n) \in S /\ Cardinality({k \in S : k <= Nth(S, n)}) = n
<1> DEFINE C(m) == Cardinality({k \in S : k <= m})
           F == {m \in 0 .. N : \A l \in 1 .. C(m) : \E i \in S : C(i) = l}
<1>0. \A k \in S : k \in Int /\ 1 <= k /\ k <= N
  OBVIOUS
<1>1. \A m \in 0 .. N : IsFiniteSet({k \in S : k <= m}) /\ C(m) \in Nat
  <2> TAKE m \in 0 .. N
  <2>1. {k \in S : k <= m} \subseteq S
    OBVIOUS
  <2> QED BY <2>1, UpTo, FS_Subset, FS_CardinalityType
<1>2. 0 \in F
  <2>1. {k \in S : k <= 0} = {}
    <3>1. \A k \in S : ~(k <= 0)
      BY <1>0
    <3> QED BY <3>1
  <2>2. C(0) = 0
    BY <2>1, FS_EmptySet
  <2>3. 1 .. 0 = {} /\ 0 \in 0 .. N
    OBVIOUS
  <2> QED BY <2>2, <2>3
<1>3. ASSUME NEW m \in 1 .. N, m - 1 \in F
      PROVE  m \in F
  <2>1. CASE m \notin S
    <3>1. {k \in S : k <= m} = {k \in S : k <= m - 1}
      <4>1. \A k \in S : k <= m <=> k <= m - 1
        BY <1>0, <2>1
      <4> QED BY <4>1
    <3>2. C(m) = C(m - 1)
      BY <3>1
    <3> HIDE DEF C
    <3> QED BY <1>3, <3>2
  <2>2. CASE m \in S
    <3>1. {k \in S : k <= m} = {k \in S : k <= m - 1} \cup {m}
      <4>1. \A k \in S : k <= m <=> k <= m - 1 \/ k = m
        BY <1>0, <2>2
      <4> QED BY <2>2, <4>1
    <3>2. PICK P : P = {k \in S : k <= m - 1}
      OBVIOUS
    <3>a. m - 1 \in 0 .. N /\ ~(m <= m - 1)
      OBVIOUS
    <3>b. IsFiniteSet(P) /\ Cardinality(P) \in Nat /\ m \notin P
      BY <1>1, <3>2, <3>a
    <3>c. Cardinality(P \cup {m}) = Cardinality(P) + 1
      BY <3>b, FS_AddElement
    <3>3. C(m) = C(m - 1) + 1 /\ C(m - 1) \in Nat
      BY <3>1, <3>2, <3>b, <3>c
    <3> HIDE DEF C
    <3>4. ASSUME NEW l \in 1 .. C(m)
          PROVE  \E i \in S : C(i) = l
      <4>1. l \in 1 .. C(m - 1) \/ l = C(m)
        BY <3>3
      <4> QED BY <1>3, <2>2, <4>1
    <3> QED BY <3>4
  <2> QED BY <2>1, <2>2
<1>4. N \in F
  <2>1. 0 .. N \subseteq F
    <3> HIDE DEF F
    <3> QED BY <1>2, <1>3, RangeInduction
  <2> QED BY <2>1
<1>5. C(N) = Cardinality(S)
  BY UpTo
<1>6. \E i \in S : C(i) = n
  <2> HIDE DEF C
  <2> QED BY <1>4, <1>5
<1> QED BY <1>6 DEF Nth

LEMMA AtPicks ==
  ASSUME NEW T, NEW s \in Seq(T), NEW S \in SUBSET (1 .. Len(s))
  PROVE  /\ At(s, S) \in Seq(T) /\ Len(At(s, S)) = Cardinality(S)
         /\ Cardinality(S) \in Nat /\ Cardinality(S) <= Len(s)
         /\ \A n \in 1 .. Cardinality(S) : /\ Nth(S, n) \in S
                                           /\ At(s, S)[n] = s[Nth(S, n)]
         /\ \A n, m \in 1 .. Cardinality(S) : Nth(S, n) = Nth(S, m) => n = m
<1>1. Cardinality(S) \in Nat /\ Cardinality(S) <= Len(s)
  BY UpTo
<1>2. ASSUME NEW n \in 1 .. Cardinality(S)
      PROVE  Nth(S, n) \in S /\ Cardinality({k \in S : k <= Nth(S, n)}) = n
  <2> PICK N \in Nat : N = Len(s)
    OBVIOUS
  <2> QED BY NthExists
<1> PICK c : c = Cardinality(S)
  OBVIOUS
<1>3. \A n \in 1 .. c : s[Nth(S, n)] \in T
  <2>1. \A i \in S : s[i] \in T
    OBVIOUS
  <2> QED BY <1>2, <2>1
<1>4. At(s, S) = [n \in 1 .. c |-> s[Nth(S, n)]]
  BY DEF At
<1>5. At(s, S) \in Seq(T) /\ Len(At(s, S)) = c /\ \A n \in 1 .. c : At(s, S)[n] = s[Nth(S, n)]
  BY <1>1, <1>3, <1>4
<1>6. \A n, m \in 1 .. c : Nth(S, n) = Nth(S, m) => n = m
  BY <1>2
<1> QED BY <1>1, <1>2, <1>5, <1>6

(* Qualities. The weights of every rubric add up to a hundred.               *)
LEMMA SumScaled ==
  ASSUME NEW S, IsFiniteSet(S), NEW q \in Int, NEW f, NEW g,
         \A x \in S : f[x] \in Int /\ g[x] = f[x] * q
  PROVE  /\ SumFunctionOnSet(f, S) \in Int
         /\ SumFunctionOnSet(g, S) = SumFunctionOnSet(f, S) * q
<1> DEFINE F == {T \in SUBSET S : /\ SumFunctionOnSet(f, T) \in Int
                                  /\ SumFunctionOnSet(g, T) = SumFunctionOnSet(f, T) * q}
<1>1. {} \in F
  BY SumEmpty
<1>2. ASSUME NEW T \in SUBSET S, NEW x \in S \ T, T \in F
      PROVE  T \cup {x} \in F
  <2>0. IsFiniteSet(T) /\ T \cup {x} \in SUBSET S
    BY FS_Subset
  <2>a. \A y \in T \cup {x} : f[y] \in Int /\ g[y] \in Int
    OBVIOUS
  <2>1. /\ SumFunctionOnSet(f, T) \in Int
        /\ SumFunctionOnSet(f, T \cup {x}) = f[x] + SumFunctionOnSet(f, T)
    BY <2>0, <2>a, SumAdd
  <2>2. /\ SumFunctionOnSet(g, T) \in Int
        /\ SumFunctionOnSet(g, T \cup {x}) = g[x] + SumFunctionOnSet(g, T)
    BY <2>0, <2>a, SumAdd
  <2>3. PICK a, b : a = SumFunctionOnSet(f, T) /\ b = SumFunctionOnSet(g, T)
    OBVIOUS
  <2>4. b = a * q /\ a \in Int
    BY <1>2, <2>3
  <2>5. f[x] * q + a * q = (f[x] + a) * q
    BY <2>4, <2>a
  <2> QED BY <2>0, <2>1, <2>2, <2>3, <2>4, <2>5, <2>a
<1>3. S \in F
  <2> HIDE DEF F
  <2> QED BY <1>1, <1>2, FiniteSetSetInduction
<1> QED BY <1>3

LEMMA SumBetween ==
  ASSUME NEW S, IsFiniteSet(S), NEW f, NEW g,
         \A x \in S : f[x] \in Int /\ g[x] \in Int /\ 0 <= f[x] /\ f[x] <= g[x]
  PROVE  /\ SumFunctionOnSet(f, S) \in Nat /\ SumFunctionOnSet(g, S) \in Nat
         /\ SumFunctionOnSet(f, S) <= SumFunctionOnSet(g, S)
<1> DEFINE F == {T \in SUBSET S : /\ SumFunctionOnSet(f, T) \in Nat
                                  /\ SumFunctionOnSet(g, T) \in Nat
                                  /\ SumFunctionOnSet(f, T) <= SumFunctionOnSet(g, T)}
<1>1. {} \in F
  BY SumEmpty
<1>2. ASSUME NEW T \in SUBSET S, NEW x \in S \ T, T \in F
      PROVE  T \cup {x} \in F
  <2>0. IsFiniteSet(T) /\ T \cup {x} \in SUBSET S
    BY FS_Subset
  <2>a. \A y \in T \cup {x} : f[y] \in Int /\ g[y] \in Int
    OBVIOUS
  <2>1. /\ SumFunctionOnSet(f, T \cup {x}) = f[x] + SumFunctionOnSet(f, T)
        /\ SumFunctionOnSet(g, T \cup {x}) = g[x] + SumFunctionOnSet(g, T)
    BY <2>0, <2>a, SumAdd
  <2>2. f[x] \in Nat /\ g[x] \in Nat /\ f[x] <= g[x]
    OBVIOUS
  <2> QED BY <1>2, <2>0, <2>1, <2>2
<1>3. S \in F
  <2> HIDE DEF F
  <2> QED BY <1>1, <1>2, FiniteSetSetInduction
<1> QED BY <1>3

LEMMA SumOfFew ==
  ASSUME NEW f
  PROVE  /\ f[1] \in Int => SumFunctionOnSet(f, {1}) = f[1]
         /\ f[1] \in Int /\ f[2] \in Int => SumFunctionOnSet(f, {1, 2}) = f[1] + f[2]
         /\ f[1] \in Int /\ f[2] \in Int /\ f[3] \in Int =>
              SumFunctionOnSet(f, {1, 2, 3}) = f[1] + f[2] + f[3]
<1>0. SumFunctionOnSet(f, {}) = 0 /\ IsFiniteSet({})
  BY SumEmpty, FS_EmptySet
<1>1. ASSUME f[1] \in Int
      PROVE  SumFunctionOnSet(f, {1}) = f[1]
  <2>1. {1} = {} \cup {1} /\ 1 \notin {} /\ \A y \in {} \cup {1} : f[y] \in Int
    BY <1>1
  <2>2. SumFunctionOnSet(f, {} \cup {1}) = f[1] + SumFunctionOnSet(f, {})
    BY <1>0, <2>1, SumAdd
  <2> QED BY <1>0, <1>1, <2>1, <2>2
<1>2. ASSUME f[1] \in Int, f[2] \in Int
      PROVE  SumFunctionOnSet(f, {1, 2}) = f[1] + f[2]
  <2>0. IsFiniteSet({1})
    BY FS_Singleton
  <2>1. {1, 2} = {1} \cup {2} /\ 2 \notin {1} /\ \A y \in {1} \cup {2} : f[y] \in Int
    BY <1>2
  <2>2. SumFunctionOnSet(f, {1} \cup {2}) = f[2] + SumFunctionOnSet(f, {1})
    BY <2>0, <2>1, SumAdd
  <2>3. SumFunctionOnSet(f, {1, 2}) = SumFunctionOnSet(f, {1} \cup {2})
    BY <2>1, Zenon
  <2> QED BY <1>1, <1>2, <2>2, <2>3
<1>3. ASSUME f[1] \in Int, f[2] \in Int, f[3] \in Int
      PROVE  SumFunctionOnSet(f, {1, 2, 3}) = f[1] + f[2] + f[3]
  <2>0. IsFiniteSet({1, 2})
    <3>1. IsFiniteSet({1})
      BY FS_Singleton
    <3>2. {1, 2} = {1} \cup {2}
      OBVIOUS
    <3> QED BY <3>1, <3>2, FS_AddElement
  <2>1. /\ {1, 2, 3} = {1, 2} \cup {3} /\ 3 \notin {1, 2}
        /\ \A y \in {1, 2} \cup {3} : f[y] \in Int
    BY <1>3
  <2>2. SumFunctionOnSet(f, {1, 2} \cup {3}) = f[3] + SumFunctionOnSet(f, {1, 2})
    BY <2>0, <2>1, SumAdd
  <2>3. SumFunctionOnSet(f, {1, 2, 3}) = SumFunctionOnSet(f, {1, 2} \cup {3})
    BY <2>1, Zenon
  <2>4. SumFunctionOnSet(f, {1, 2}) = f[1] + f[2]
    BY <1>2, <1>3
  <2>5. f[3] + (f[1] + f[2]) = f[1] + f[2] + f[3]
    BY <1>3
  <2> QED BY <2>2, <2>3, <2>4, <2>5, Zenon
<1> QED BY <1>1, <1>2, <1>3

IsRubric(w) == /\ \E n \in 1 .. 3 : w \in [1 .. n -> Nat]
               /\ SumFunction(w) = 100
LEMMA OneWeight == IsRubric(<<100>>)
<1> PICK w : w = <<100>>
  OBVIOUS
<1>1. w \in [1 .. 1 -> Nat] /\ DOMAIN w = {1} /\ w[1] = 100
  OBVIOUS
<1> QED BY <1>1, SumOfFew DEF IsRubric, SumFunction

LEMMA TwoWeights ==
  ASSUME NEW a \in Nat, NEW b \in Nat, a + b = 100
  PROVE  IsRubric(<<a, b>>)
<1> PICK w : w = <<a, b>>
  OBVIOUS
<1>1. w \in [1 .. 2 -> Nat] /\ DOMAIN w = {1, 2} /\ w[1] = a /\ w[2] = b
  OBVIOUS
<1> QED BY <1>1, SumOfFew DEF IsRubric, SumFunction

LEMMA ThreeWeights ==
  ASSUME NEW a \in Nat, NEW b \in Nat, NEW c \in Nat, a + b + c = 100
  PROVE  IsRubric(<<a, b, c>>)
<1> PICK w : w = <<a, b, c>>
  OBVIOUS
<1>1. w \in [1 .. 3 -> Nat] /\ DOMAIN w = {1, 2, 3} /\ w[1] = a /\ w[2] = b /\ w[3] = c
  OBVIOUS
<1> QED BY <1>1, SumOfFew DEF IsRubric, SumFunction

LEMMA RubricsAddUp ==
  ASSUME NEW t \in DOMAIN Rubrics
  PROVE  IsRubric(Rubrics[t])
<1>1. /\ IsRubric(<<40, 35, 25>>) /\ IsRubric(<<50, 30, 20>>) /\ IsRubric(<<40, 30, 30>>)
      /\ IsRubric(<<50, 50>>) /\ IsRubric(<<60, 40>>) /\ IsRubric(<<100>>)
  BY OneWeight, TwoWeights, ThreeWeights
<1>2. \A u \in DOMAIN RubricsOfWork : IsRubric(RubricsOfWork[u])
  BY <1>1 DEF RubricsOfWork
<1>3. \A u \in DOMAIN RubricsOfTalk : IsRubric(RubricsOfTalk[u])
  BY <1>1 DEF RubricsOfTalk
<1> QED BY <1>2, <1>3 DEF Rubrics

IsScaled(x, y, D, p) == \A i \in D : x[i] \in Int /\ y[i] = x[i] * p
(* A score is a fraction, and the same for every criterion is that quality.  *)
LEMMA WeightedBetween ==
  ASSUME NEW t \in DOMAIN Rubrics, NEW v \in Seq(Int)
  PROVE  Weighted(t, v) \in 0 .. 100
<1>0. \A m \in Int : IsFiniteSet(1 .. m)
  BY FS_Interval
<1>a. \A D, x, y, p : IsFiniteSet(D) /\ p \in Int /\ IsScaled(x, y, D, p)
                     => SumFunctionOnSet(y, D) = SumFunctionOnSet(x, D) * p
  BY SumScaled DEF IsScaled
<1>w. PICK w : w = Rubrics[t]
  OBVIOUS
<1>f. PICK f : f = [i \in DOMAIN w |-> IF i \in DOMAIN v THEN w[i] * Clamped(v[i]) ELSE 0]
  OBVIOUS
<1>g. PICK g : g = [i \in DOMAIN w |-> w[i] * 100]
  OBVIOUS
<1>1. PICK n \in 1 .. 3 : w \in [1 .. n -> Nat] /\ DOMAIN w = 1 .. n
  BY <1>w, RubricsAddUp DEF IsRubric
<1>s. PICK S : S = 1 .. n
  OBVIOUS
<1>2. SumFunctionOnSet(w, S) = 100 /\ IsFiniteSet(S)
  BY <1>w, <1>s, <1>0, <1>1, RubricsAddUp DEF IsRubric, SumFunction
<1>3. \A x \in Int : Clamped(x) \in 0 .. 100
  BY DEF Clamped
<1>4. \A i \in DOMAIN v : v[i] \in Int
  OBVIOUS
<1>5. ASSUME NEW i \in 1 .. n
      PROVE  f[i] \in Int /\ g[i] \in Int /\ 0 <= f[i] /\ f[i] <= g[i]
  <2>1. w[i] \in Nat /\ g[i] = w[i] * 100
    BY <1>g, <1>1
  <2>2. CASE i \in DOMAIN v
    <3>1. PICK c \in 0 .. 100 : c = Clamped(v[i])
      BY <1>3, <1>4, <2>2
    <3>2. f[i] = w[i] * c
      BY <1>f, <1>1, <2>2, <3>1
    <3>3. PICK a \in Nat : a = w[i]
      BY <2>1
    <3>4. a * c \in Nat /\ a * c <= a * 100
      <4>1. PICK d \in Nat : 100 = c + d
        <5>1. 100 - c \in Nat /\ 100 = c + (100 - c)
          OBVIOUS
        <5> QED BY <5>1
      <4>2. a * 100 = a * c + a * d /\ a * d \in Nat /\ a * c \in Nat
        BY <4>1
      <4> QED BY <4>2
    <3> QED BY <2>1, <3>2, <3>3, <3>4
  <2>3. CASE i \notin DOMAIN v
    <3>1. f[i] = 0
      BY <1>f, <1>1, <2>3
    <3> QED BY <2>1, <3>1
  <2> QED BY <2>2, <2>3
<1>6. SumFunctionOnSet(g, S) = 10000
  <2>1. \A i \in S : w[i] \in Int /\ g[i] = w[i] * 100
    BY <1>g, <1>s, <1>1
  <2>2. PICK p \in Int : p = 100
    OBVIOUS
  <2>3. IsScaled(w, g, S, p)
    BY <2>1, <2>2 DEF IsScaled
  <2>4. SumFunctionOnSet(g, S) = SumFunctionOnSet(w, S) * p
    BY <1>a, <1>2, <2>3
  <2> QED BY <1>2, <2>2, <2>4
<1>7. PICK total : total = SumFunctionOnSet(f, S)
  OBVIOUS
<1>8. total \in Nat /\ total <= 10000
  <2>1. \A i \in S : f[i] \in Int /\ g[i] \in Int /\ 0 <= f[i] /\ f[i] <= g[i]
    BY <1>s, <1>5
  <2>2. SumFunctionOnSet(f, S) \in Nat /\ SumFunctionOnSet(f, S) <= SumFunctionOnSet(g, S)
    BY <1>2, <2>1, SumBetween
  <2> QED BY <1>6, <1>7, <2>2
<1>9. Weighted(t, v) = total \div 100
  <2>1. DOMAIN f = S
    BY <1>f, <1>s, <1>1
  <2> QED BY <1>w, <1>f, <1>7, <2>1 DEF Weighted, SumFunction
<1> QED BY <1>8, <1>9

LEMMA OneScale ==
  ASSUME NEW t \in DOMAIN Rubrics, NEW q \in 0 .. 100
  PROVE  Weighted(t, [c \in DOMAIN Rubrics[t] |-> q]) = q
<1>0. \A m \in Int : IsFiniteSet(1 .. m)
  BY FS_Interval
<1>a. \A D, x, y, p : IsFiniteSet(D) /\ p \in Int /\ IsScaled(x, y, D, p)
                     => SumFunctionOnSet(y, D) = SumFunctionOnSet(x, D) * p
  BY SumScaled DEF IsScaled
<1>3. q \in Int /\ Clamped(q) = q /\ (100 * q) \div 100 = q
  BY DEF Clamped
<1>w. PICK w : w = Rubrics[t]
  OBVIOUS
<1>v. PICK v : v = [c \in DOMAIN w |-> q]
  OBVIOUS
<1>f. PICK f : f = [i \in DOMAIN w |-> IF i \in DOMAIN v THEN w[i] * Clamped(v[i]) ELSE 0]
  OBVIOUS
<1>1. PICK n \in 1 .. 3 : w \in [1 .. n -> Nat] /\ DOMAIN w = 1 .. n
  BY <1>w, RubricsAddUp DEF IsRubric
<1>s. PICK S : S = 1 .. n
  OBVIOUS
<1>2. SumFunctionOnSet(w, S) = 100 /\ IsFiniteSet(S)
  BY <1>w, <1>s, <1>0, <1>1, RubricsAddUp DEF IsRubric, SumFunction
<1>4. \A i \in S : w[i] \in Int /\ f[i] = w[i] * q
  BY <1>f, <1>v, <1>s, <1>1, <1>3
<1>5. SumFunctionOnSet(f, S) = 100 * q
  <2>1. PICK p \in Int : p = q
    BY <1>3
  <2>2. IsScaled(w, f, S, p)
    BY <1>4, <2>1 DEF IsScaled
  <2>3. SumFunctionOnSet(f, S) = SumFunctionOnSet(w, S) * p
    BY <1>a, <1>2, <2>2
  <2> QED BY <1>2, <2>1, <2>3
<1>6. Weighted(t, v) = (100 * q) \div 100
  <2>1. DOMAIN f = S
    BY <1>f, <1>s, <1>1
  <2> QED BY <1>w, <1>v, <1>f, <1>5, <2>1 DEF Weighted, SumFunction
<1> QED BY <1>w, <1>v, <1>3, <1>6

(* A prompt is in the eval set once, and a pair of a prompt and a model has *)
(* one place among the pairs.                                                *)
IsDistinct(s) == \A i, j \in DOMAIN s : s[i] = s[j] => i = j
LineSet == {Lines[i] : i \in DOMAIN Lines}
LEMMA EvalSetDistinct ==
  /\ EvalSet \in Seq(LineSet) /\ Len(EvalSet) \in Nat
  /\ \A n, m \in 1 .. Len(EvalSet) : EvalSet[n].hash = EvalSet[m].hash => n = m
<1>1. PICK S : S = {i \in DOMAIN Lines : \A j \in 1 .. i - 1 : Lines[j].hash # Lines[i].hash}
  OBVIOUS
<1>2. Len(Lines) \in Nat /\ DOMAIN Lines = 1 .. Len(Lines)
  BY BenchAssumption
<1>3. Lines \in Seq(LineSet)
  <2>1. LineSet = Range(Lines)
    BY DEF LineSet, Range
  <2> QED BY <2>1, BenchAssumption
<1>4. S \in SUBSET (1 .. Len(Lines))
  BY <1>1, <1>2
<1>5. EvalSet = At(Lines, S)
  BY <1>1 DEF EvalSet
<1>6. /\ EvalSet \in Seq(LineSet) /\ Len(EvalSet) = Cardinality(S) /\ Cardinality(S) \in Nat
      /\ \A n \in 1 .. Cardinality(S) : Nth(S, n) \in S /\ EvalSet[n] = Lines[Nth(S, n)]
      /\ \A n, m \in 1 .. Cardinality(S) : Nth(S, n) = Nth(S, m) => n = m
  BY <1>3, <1>4, <1>5, AtPicks
<1>7. \A i, j \in S : Lines[i].hash = Lines[j].hash => i = j
  <2>1. ASSUME NEW i \in S, NEW j \in S, i < j
        PROVE  Lines[i].hash # Lines[j].hash
    <3>1. i \in 1 .. j - 1
      BY <1>4, <2>1
    <3> QED BY <1>1, <3>1
  <2>2. \A i, j \in S : i \in Int /\ j \in Int
    BY <1>4
  <2> QED BY <2>1, <2>2
<1> QED BY <1>6, <1>7

LEMMA Division ==
  ASSUME NEW m, m \in Nat, m > 0, NEW x, x \in Nat
  PROVE  /\ x \div m \in Nat /\ x % m \in 0 .. m - 1
         /\ x = m * (x \div m) + (x % m)
  OBVIOUS

PairSet == {Pairs[i] : i \in DOMAIN Pairs}
LEMMA PairsDistinct ==
  /\ Len(Pairs) \in Nat /\ Pairs \in Seq(PairSet) /\ DOMAIN Pairs = 1 .. Len(Pairs)
  /\ \A i, j \in DOMAIN Pairs : Key(Pairs[i]) = Key(Pairs[j]) => i = j
<1>1. PICK e \in Nat : e = Len(EvalSet)
  BY EvalSetDistinct
<1>2. PICK m \in Nat : m = Len(BenchModels) /\ DOMAIN BenchModels = 1 .. m
  <2>1. PICK R : R = Range(BenchModels)
    OBVIOUS
  <2>2. BenchModels \in Seq(R)
    BY <2>1, BenchAssumption
  <2> QED BY <2>2
<1>3. e * m \in Nat
  BY <1>1, <1>2
<1>4. PICK N \in Nat : N = e * m
  BY <1>3
<1>5. DOMAIN Pairs = 1 .. N
  BY <1>1, <1>2, <1>4 DEF Pairs
<1>6. Pairs \in Seq(PairSet) /\ Len(Pairs) = N
  <2>1. Pairs \in [1 .. N -> PairSet]
    <3>1. Pairs = [i \in 1 .. N |-> Pairs[i]]
      BY <1>1, <1>2, <1>4 DEF Pairs
    <3>2. \A i \in 1 .. N : Pairs[i] \in PairSet
      BY <1>5 DEF PairSet
    <3> QED BY <3>1, <3>2
  <2> QED BY <2>1
<1>7. ASSUME NEW i \in 1 .. N
      PROVE  /\ (i - 1) \div m \in Nat /\ (i - 1) % m \in 0 .. m - 1
             /\ i - 1 = m * ((i - 1) \div m) + ((i - 1) % m)
             /\ (i - 1) \div m < e
  <2>1. i - 1 \in Nat /\ i - 1 < N
    OBVIOUS
  <2>2. PICK x \in Nat : x = i - 1
    BY <2>1
  <2>a. m > 0
    <3>1. m # 0
      <4>1. m = 0 => e * m = 0
        BY <1>1
      <4> QED BY <1>4, <2>1, <4>1
    <3> QED BY <3>1
  <2>3. PICK q, r : q = x \div m /\ r = x % m
    OBVIOUS
  <2>4. q \in Nat /\ r \in 0 .. m - 1 /\ x = m * q + r
    BY <2>a, <2>3, Division
  <2>5. q < e
    <3>1. SUFFICES ASSUME q >= e PROVE FALSE
      BY <1>1, <2>4
    <3>2. PICK d \in Nat : q = e + d
      <4>1. q - e \in Nat /\ q = e + (q - e)
        BY <2>4, <3>1
      <4> QED BY <4>1
    <3>3. m * q = m * e + m * d /\ m * d \in Nat /\ m * e = e * m
      BY <3>2
    <3> QED BY <1>4, <2>1, <2>2, <2>4, <3>3
  <2> QED BY <2>2, <2>3, <2>4, <2>5
<1>8. ASSUME NEW i \in 1 .. N, NEW j \in 1 .. N, Key(Pairs[i]) = Key(Pairs[j])
      PROVE  i = j
  <2>1. PICK a, b : a = (i - 1) \div m /\ b = (i - 1) % m
    OBVIOUS
  <2>2. PICK c, d : c = (j - 1) \div m /\ d = (j - 1) % m
    OBVIOUS
  <2>3. a \in Nat /\ b \in 0 .. m - 1 /\ i - 1 = m * a + b /\ a < e
    BY <1>7, <2>1
  <2>4. c \in Nat /\ d \in 0 .. m - 1 /\ j - 1 = m * c + d /\ c < e
    BY <1>7, <2>2
  <2>5. Pairs[i].hash = EvalSet[a + 1].hash /\ Pairs[i].model = BenchModels[b + 1]
    BY <1>1, <1>2, <1>4, <2>1 DEF Pairs
  <2>6. Pairs[j].hash = EvalSet[c + 1].hash /\ Pairs[j].model = BenchModels[d + 1]
    BY <1>1, <1>2, <1>4, <2>2 DEF Pairs
  <2>7. EvalSet[a + 1].hash = EvalSet[c + 1].hash /\ BenchModels[b + 1] = BenchModels[d + 1]
    BY <1>8, <2>5, <2>6 DEF Key
  <2>8. a = c
    <3>1. a + 1 \in 1 .. e /\ c + 1 \in 1 .. e
      BY <2>3, <2>4
    <3>2. a + 1 = c + 1
      BY <1>1, <2>7, <3>1, EvalSetDistinct
    <3> QED BY <2>3, <2>4, <3>2
  <2>9. b = d
    <3>1. b + 1 \in DOMAIN BenchModels /\ d + 1 \in DOMAIN BenchModels
      BY <1>2, <2>3, <2>4, BenchAssumption
    <3>2. b + 1 = d + 1
      BY <2>7, <3>1, BenchAssumption
    <3> QED BY <2>3, <2>4, <3>2
  <2> QED BY <2>3, <2>4, <2>8, <2>9
<1> QED BY <1>5, <1>6, <1>8

(* What a run is at: the shape of its parts, how its counts add up, and what *)
(* the table may already hold of the pairs that are still to be written.     *)
Made == [processes: Nat, runs: Nat, again: Nat]
Results == [pair: PairSet, quality: 0 .. 100, run: Nat]
IsJob(j) == j = [phase |-> j.phase, work |-> j.work, scores |-> j.scores,
                 done |-> j.done, failed |-> j.failed, skipped |-> j.skipped]
Above == {i \in DOMAIN job.scores : job.scores[i] >= 0}
InRun(n) == {i \in DOMAIN rows : rows[i].run = n}
RowsOf(p) == {i \in DOMAIN rows : rows[i].pair = p}
Pending == IF job.phase \in {"references", "pairs"} THEN {job.work[i] : i \in DOMAIN job.work}
           ELSE IF job.phase = "writing" THEN {job.work[i].pair : i \in DOMAIN job.work}
           ELSE {}

BenchShape ==
    /\ made \in Made /\ rows \in Seq(Results)
    /\ \A i \in DOMAIN rows : rows[i].run <= made.runs
    /\ IsJob(job) /\ job.phase \in {"idle", "references", "pairs", "writing", "ended"}
ToReplay ==
    job.phase \in {"references", "pairs"} =>
        /\ job.work \in Seq(PairSet) /\ IsDistinct(job.work)
        /\ Len(job.work) <= Len(Pairs) /\ job.skipped = Len(Pairs) - Len(job.work)
ToScore ==
    job.phase = "references" => job.done = 0 /\ job.failed = 0 /\ job.scores = <<>>
SoFar ==
    job.phase = "pairs" =>
        /\ DOMAIN job.scores \subseteq 1 .. Len(job.work)
        /\ \A i \in DOMAIN job.scores : job.scores[i] \in -1 .. 100
        /\ job.done = Cardinality(Above) /\ job.failed \in Nat
        /\ job.done + job.failed = Cardinality(DOMAIN job.scores)
ToWrite ==
    job.phase = "writing" =>
        /\ job.work \in Seq(Results)
        /\ \A i \in DOMAIN job.work : job.work[i].run = made.runs
        /\ \A i, j \in DOMAIN job.work : job.work[i].pair = job.work[j].pair => i = j
        /\ job.done \in Nat /\ job.failed \in Nat /\ job.skipped \in Nat
        /\ job.done + job.failed + job.skipped = Len(Pairs)
        /\ Len(job.work) <= job.done
        /\ job.done - Len(job.work) <= Cardinality(InRun(made.runs))
JobInv == ToReplay /\ ToScore /\ SoFar /\ ToWrite /\ StatsMatchTable

OnceInRun ==
    \A i, j \in DOMAIN rows :
        rows[j].pair = rows[i].pair /\ rows[j].run = rows[i].run => i = j
PendingFresh ==
    \A p \in Pending : /\ p \in PairSet
                       /\ \A i \in RowsOf(p) : rows[i].run # made.runs
                       /\ Cardinality(RowsOf(p)) <= made.again
OftenAtMost == \A p \in PairSet : Cardinality(RowsOf(p)) <= 1 + made.again
TableInv == OnceInRun /\ PendingFresh /\ OftenAtMost

BenchInv == BenchShape /\ JobInv /\ TableInv

LEMMA BenchStarts == BenchInit => BenchInv
<1> SUFFICES ASSUME BenchInit PROVE BenchInv
  OBVIOUS
<1>1. /\ rows = <<>> /\ made = [processes |-> 1, runs |-> 0, again |-> 0]
      /\ job.phase = "idle" /\ IsJob(job)
  BY DEF BenchInit, Idle, IsJob
<1>2. rows \in Seq(Results) /\ DOMAIN rows = {}
  BY <1>1
<1>3. made \in Made /\ made.again = 0
  BY <1>1 DEF Made
<1>4. BenchShape
  BY <1>1, <1>2, <1>3 DEF BenchShape
<1>5. JobInv
  BY <1>1 DEF JobInv, ToReplay, ToScore, SoFar, ToWrite, StatsMatchTable
<1>6. OnceInRun /\ PendingFresh
  BY <1>1, <1>2 DEF OnceInRun, PendingFresh, Pending
<1>7. ASSUME NEW p \in PairSet
      PROVE  Cardinality(RowsOf(p)) <= 1 + made.again
  <2>1. RowsOf(p) = {}
    BY <1>2 DEF RowsOf
  <2>2. Cardinality({}) = 0
    BY FS_EmptySet
  <2> QED BY <1>3, <2>1, <2>2
<1> QED BY <1>4, <1>5, <1>6, <1>7 DEF BenchInv, TableInv, OftenAtMost

(* A step that leaves the table and the runs as they are, and adds nothing   *)
(* to what is to be written, keeps what is known of the table.               *)
LEMMA TableKept ==
  ASSUME TableInv, rows' = rows, made'.runs = made.runs, made'.again = made.again,
         Pending' \subseteq Pending
  PROVE  TableInv'
<1>1. \A p : RowsOf(p)' = RowsOf(p)
  BY DEF RowsOf
<1>2. OnceInRun'
  BY DEF TableInv, OnceInRun
<1>3. PendingFresh'
  BY <1>1 DEF TableInv, PendingFresh
<1>4. OftenAtMost'
  BY <1>1 DEF TableInv, OftenAtMost
<1> QED BY <1>2, <1>3, <1>4 DEF TableInv

LEMMA BenchTyped ==
  ASSUME BenchShape
  PROVE  /\ made.processes \in Nat /\ made.runs \in Nat /\ made.again \in Nat
         /\ made = [processes |-> made.processes, runs |-> made.runs, again |-> made.again]
         /\ Len(rows) \in Nat /\ DOMAIN rows = 1 .. Len(rows)
         /\ \A i \in DOMAIN rows : /\ rows[i].run \in Nat /\ rows[i].run <= made.runs
                                  /\ rows[i].pair \in PairSet /\ rows[i].quality \in 0 .. 100
         /\ \A n : IsFiniteSet(InRun(n)) /\ Cardinality(InRun(n)) \in Nat
         /\ \A p : IsFiniteSet(RowsOf(p)) /\ Cardinality(RowsOf(p)) \in Nat
<1>1. made \in Made /\ rows \in Seq(Results)
  BY DEF BenchShape
<1>2. /\ made.processes \in Nat /\ made.runs \in Nat /\ made.again \in Nat
      /\ made = [processes |-> made.processes, runs |-> made.runs, again |-> made.again]
  BY <1>1 DEF Made
<1>3. PICK N \in Nat : N = Len(rows) /\ DOMAIN rows = 1 .. N
  BY <1>1
<1>4. \A S \in SUBSET (1 .. N) : IsFiniteSet(S) /\ Cardinality(S) \in Nat
  BY UpTo
<1>5. \A n : InRun(n) \in SUBSET (1 .. N)
  BY <1>3 DEF InRun
<1>6. \A p : RowsOf(p) \in SUBSET (1 .. N)
  BY <1>3 DEF RowsOf
<1>7. \A i \in DOMAIN rows : rows[i] \in Results /\ rows[i].run <= made.runs
  BY <1>1 DEF BenchShape
<1>8. \A r \in Results : r.run \in Nat /\ r.pair \in PairSet /\ r.quality \in 0 .. 100
  BY DEF Results
<1> QED BY <1>2, <1>3, <1>4, <1>5, <1>6, <1>7, <1>8

LEMMA BenchStarted ==
  ASSUME BenchInv, StartRun
  PROVE  BenchInv'
<1>0. BenchShape /\ JobInv /\ TableInv
  BY DEF BenchInv
<1>s. PICK S : S = {i \in DOMAIN Pairs : Key(Pairs[i]) \notin known'.pairs}
  OBVIOUS
<1>w. PICK work : work = At(Pairs, S)
  OBVIOUS
<1>1. /\ job'.phase = IF work = <<>> THEN "ended" ELSE "references"
      /\ job'.work = work /\ job'.scores = <<>> /\ job'.done = 0 /\ job'.failed = 0
      /\ job'.skipped = Len(Pairs) - Len(work) /\ IsJob(job')
      /\ rows' = rows /\ known' = Completed(known)
  BY <1>s, <1>w DEF StartRun, Idle, IsJob
<1>2. /\ made'.processes = made.processes /\ made'.runs = made.runs + 1
      /\ made'.again = made.again + IF known.read THEN 1 ELSE 0
      /\ made' = [processes |-> made'.processes, runs |-> made'.runs, again |-> made'.again]
  BY <1>0, BenchTyped DEF StartRun
<1>3. /\ made.processes \in Nat /\ made.runs \in Nat /\ made.again \in Nat
      /\ DOMAIN rows = 1 .. Len(rows)
  BY <1>0, BenchTyped
<1>4. /\ work \in Seq(PairSet) /\ Len(work) = Cardinality(S) /\ Cardinality(S) \in Nat
      /\ Cardinality(S) <= Len(Pairs) /\ Len(Pairs) \in Nat
      /\ DOMAIN work = 1 .. Cardinality(S)
      /\ \A n \in 1 .. Cardinality(S) : Nth(S, n) \in S /\ work[n] = Pairs[Nth(S, n)]
      /\ \A n, m \in 1 .. Cardinality(S) : Nth(S, n) = Nth(S, m) => n = m
  <2>1. Len(Pairs) \in Nat /\ Pairs \in Seq(PairSet) /\ DOMAIN Pairs = 1 .. Len(Pairs)
    BY PairsDistinct
  <2>2. S \in SUBSET (1 .. Len(Pairs))
    BY <1>s, <2>1
  <2>3. PICK P, T : P = Pairs /\ T = PairSet
    OBVIOUS
  <2>4. P \in Seq(T) /\ S \in SUBSET (1 .. Len(P)) /\ work = At(P, S)
    BY <1>w, <2>1, <2>2, <2>3
  <2>5. /\ work \in Seq(T) /\ Len(work) = Cardinality(S)
        /\ Cardinality(S) \in Nat /\ Cardinality(S) <= Len(P)
        /\ \A n \in 1 .. Cardinality(S) : Nth(S, n) \in S /\ work[n] = P[Nth(S, n)]
        /\ \A n, m \in 1 .. Cardinality(S) : Nth(S, n) = Nth(S, m) => n = m
    BY <2>4, AtPicks
  <2>6. DOMAIN work = 1 .. Len(work)
    BY <2>5
  <2> QED BY <2>1, <2>3, <2>5, <2>6
<1>5. IsDistinct(work)
  <2>1. \A i, j \in S : Pairs[i] = Pairs[j] => i = j
    BY <1>s, PairsDistinct DEF Key
  <2> QED BY <1>4, <2>1 DEF IsDistinct
<1>6. \A i \in DOMAIN work : work[i] \in PairSet /\ Key(work[i]) \notin known'.pairs
  BY <1>s, <1>4
<1>7. BenchShape'
  <2>1. made' \in Made
    BY <1>2, <1>3 DEF Made
  <2>2. \A i \in DOMAIN rows : rows[i].run <= made.runs /\ rows[i].run \in Nat
    BY <1>0, BenchTyped
  <2>3. \A i \in DOMAIN rows : rows[i].run <= made'.runs
    BY <1>2, <1>3, <2>2
  <2> QED BY <1>0, <1>1, <2>1, <2>3 DEF BenchShape
<1>8. JobInv'
  <2>1. ToReplay' /\ ToScore' /\ SoFar' /\ ToWrite'
    BY <1>1, <1>4, <1>5 DEF ToReplay, ToScore, SoFar, ToWrite
  <2>2. StatsMatchTable'
    <3>1. SUFFICES ASSUME work = <<>>
                   PROVE  StatsMatchTable'
      BY <1>1 DEF StatsMatchTable
    <3>2. Len(work) = 0
      BY <3>1
    <3>3. PICK L \in Nat : L = Len(Pairs)
      BY <1>4
    <3>4. job'.skipped = L
      BY <1>1, <3>2, <3>3
    <3>5. PICK c \in Nat : c = Cardinality({i \in DOMAIN rows : rows[i].run = made'.runs})
      BY <1>0, BenchTyped DEF InRun
    <3>6. 0 + 0 + L = L /\ {0, 0, L} \subseteq Nat /\ 0 <= c
      OBVIOUS
    <3>7. Cardinality({i \in DOMAIN rows : rows[i].run = made.runs})' = c
      BY <1>1, <3>5
    <3> QED BY <1>1, <3>3, <3>4, <3>6, <3>7 DEF StatsMatchTable
  <2> QED BY <2>1, <2>2 DEF JobInv
<1>9. TableInv'
  <2>1. \A p : RowsOf(p)' = RowsOf(p)
    BY <1>1 DEF RowsOf
  <2>2. OnceInRun'
    BY <1>0, <1>1 DEF TableInv, OnceInRun
  <2>3. OftenAtMost'
    <3>1. \A p \in PairSet : Cardinality(RowsOf(p)) <= 1 + made.again
                            /\ Cardinality(RowsOf(p)) \in Nat
      BY <1>0, BenchTyped DEF TableInv, OftenAtMost
    <3>2. made.again <= made'.again /\ made'.again \in Nat
      BY <1>2, <1>3
    <3> QED BY <1>3, <2>1, <3>1, <3>2 DEF OftenAtMost
  <2>4. Pending' \subseteq {work[i] : i \in DOMAIN work}
    BY <1>1 DEF Pending
  <2>5. ASSUME NEW p \in PairSet, Key(p) \notin known'.pairs
        PROVE  /\ \A i \in RowsOf(p) : rows[i].run # made'.runs
               /\ Cardinality(RowsOf(p)) <= made'.again
    <3>1. \A i \in RowsOf(p) : rows[i].run # made'.runs
      <4>1. \A i \in DOMAIN rows : rows[i].run <= made.runs /\ rows[i].run \in Nat
        BY <1>0, BenchTyped
      <4> QED BY <1>2, <1>3, <4>1 DEF RowsOf
    <3>2. CASE known.read
      <4>1. Cardinality(RowsOf(p)) <= 1 + made.again
        BY <1>0 DEF TableInv, OftenAtMost
      <4>2. made'.again = 1 + made.again
        BY <1>2, <1>3, <3>2
      <4> QED BY <3>1, <4>1, <4>2
    <3>3. CASE ~known.read
      <4>1. known'.pairs = Recorded(rows)
        BY <1>1, <3>3 DEF Completed
      <4>2. RowsOf(p) = {}
        BY <2>5, <4>1 DEF RowsOf, Recorded
      <4>3. Cardinality(RowsOf(p)) = 0
        BY <4>2, FS_EmptySet
      <4>4. made'.again \in Nat
        BY <1>2, <1>3
      <4> QED BY <3>1, <4>3, <4>4
    <3> QED BY <3>2, <3>3
  <2>6. PendingFresh'
    BY <1>1, <1>6, <2>1, <2>4, <2>5 DEF PendingFresh
  <2> QED BY <2>2, <2>3, <2>6 DEF TableInv
<1> QED BY <1>7, <1>8, <1>9 DEF BenchInv

LEMMA BenchReferred ==
  ASSUME BenchInv, Reference
  PROVE  BenchInv'
<1>0. BenchShape /\ JobInv /\ TableInv
  BY DEF BenchInv
<1>1. /\ rows' = rows /\ made' = made /\ job.phase = "references"
      /\ job'.phase \in {"references", "pairs"} /\ job'.work = job.work
      /\ job'.scores = job.scores /\ job'.done = job.done /\ job'.failed = job.failed
      /\ job'.skipped = job.skipped /\ IsJob(job')
  <2>1. IsJob(job)
    BY <1>0 DEF BenchShape
  <2> QED BY <2>1 DEF Reference, IsJob
<1>2. BenchShape'
  BY <1>0, <1>1 DEF BenchShape
<1>3. TableInv'
  <2>1. Pending' \subseteq Pending
    BY <1>1 DEF Pending
  <2> QED BY <1>0, <1>1, <2>1, TableKept
<1>4. JobInv'
  <2>1. ToReplay' /\ ToScore' /\ ToWrite' /\ StatsMatchTable'
    BY <1>0, <1>1 DEF JobInv, ToReplay, ToScore, ToWrite, StatsMatchTable
  <2>2. SoFar'
    <3>1. job.scores = <<>> /\ job.done = 0 /\ job.failed = 0
      BY <1>0, <1>1 DEF JobInv, ToScore
    <3>2. DOMAIN job'.scores = {}
      BY <1>1, <3>1
    <3>3. Above' = {}
      BY <3>2 DEF Above
    <3>4. Cardinality({}) = 0
      BY FS_EmptySet
    <3> QED BY <1>1, <3>1, <3>2, <3>3, <3>4 DEF SoFar
  <2> QED BY <2>1, <2>2 DEF JobInv
<1> QED BY <1>2, <1>3, <1>4 DEF BenchInv

LEMMA BenchStopped ==
  ASSUME BenchInv, ReferenceFails \/ Crash
  PROVE  BenchInv'
<1>0. BenchShape /\ JobInv /\ TableInv
  BY DEF BenchInv
<1>1. /\ rows' = rows /\ made'.runs = made.runs /\ made'.again = made.again
      /\ made'.processes \in {made.processes, made.processes + 1}
      /\ made' = [processes |-> made'.processes, runs |-> made.runs, again |-> made.again]
      /\ job'.phase = "idle" /\ IsJob(job')
  <2>1. made = [processes |-> made.processes, runs |-> made.runs, again |-> made.again]
    BY <1>0, BenchTyped
  <2> QED BY <2>1 DEF ReferenceFails, Crash, Idle, IsJob
<1>2. BenchShape'
  <2>1. made' \in Made
    BY <1>0, <1>1, BenchTyped DEF Made
  <2> QED BY <1>0, <1>1, <2>1 DEF BenchShape
<1>3. TableInv'
  <2>1. Pending' \subseteq Pending
    BY <1>1 DEF Pending
  <2> QED BY <1>0, <1>1, <2>1, TableKept
<1>4. JobInv'
  BY <1>1 DEF JobInv, ToReplay, ToScore, SoFar, ToWrite, StatsMatchTable
<1> QED BY <1>2, <1>3, <1>4 DEF BenchInv

LEMMA BenchEnded ==
  ASSUME BenchInv, RunEnds
  PROVE  BenchInv'
<1>0. BenchShape /\ JobInv /\ TableInv
  BY DEF BenchInv
<1>1. /\ rows' = rows /\ made' = made /\ job.phase = "writing" /\ job.work = <<>>
      /\ job'.phase = "ended" /\ job'.done = job.done /\ job'.failed = job.failed
      /\ job'.skipped = job.skipped /\ IsJob(job')
  <2>1. IsJob(job)
    BY <1>0 DEF BenchShape
  <2> QED BY <2>1 DEF RunEnds, IsJob
<1>2. BenchShape'
  BY <1>0, <1>1 DEF BenchShape
<1>3. TableInv'
  <2>1. Pending' \subseteq Pending
    BY <1>1 DEF Pending
  <2> QED BY <1>0, <1>1, <2>1, TableKept
<1>4. JobInv'
  <2>1. ToReplay' /\ ToScore' /\ SoFar' /\ ToWrite'
    BY <1>1 DEF ToReplay, ToScore, SoFar, ToWrite
  <2>2. /\ job.done \in Nat /\ job.failed \in Nat /\ job.skipped \in Nat
        /\ job.done + job.failed + job.skipped = Len(Pairs)
        /\ job.done - Len(job.work) <= Cardinality(InRun(made.runs))
    BY <1>0, <1>1 DEF JobInv, ToWrite
  <2>3. Len(job.work) = 0 /\ job.done - 0 = job.done
    BY <1>1, <2>2
  <2>4. StatsMatchTable'
    BY <1>1, <2>2, <2>3 DEF StatsMatchTable, InRun
  <2> QED BY <2>1, <2>4 DEF JobInv
<1> QED BY <1>2, <1>3, <1>4 DEF BenchInv

(* A pair that was judged, and one that failed.                              *)
LEMMA PairCounted ==
  ASSUME BenchInv, job.phase = "pairs", NEW i \in DOMAIN job.work, i \notin DOMAIN job.scores,
         NEW score \in -1 .. 100,
         rows' = rows, made' = made, IsJob(job'), job'.phase = "pairs", job'.work = job.work,
         job'.scores = Scored(i, score), job'.skipped = job.skipped,
         \/ score >= 0 /\ job'.done = job.done + 1 /\ job'.failed = job.failed
         \/ score < 0 /\ job'.done = job.done /\ job'.failed = job.failed + 1
  PROVE  BenchInv'
<1>0. BenchShape /\ JobInv /\ TableInv
  BY DEF BenchInv
<1>2. BenchShape'
  BY <1>0 DEF BenchShape
<1>3. TableInv'
  <2>1. Pending' \subseteq Pending
    BY DEF Pending
  <2> QED BY <1>0, <2>1, TableKept
<1>4. JobInv'
  <2>1. ToReplay' /\ ToScore' /\ ToWrite' /\ StatsMatchTable'
    BY <1>0 DEF JobInv, ToReplay, ToScore, ToWrite, StatsMatchTable
  <2>2. PICK n \in Nat : n = Len(job.work) /\ DOMAIN job.work = 1 .. n
    BY <1>0 DEF JobInv, ToReplay
  <2>3. /\ DOMAIN job.scores \subseteq 1 .. n
        /\ \A k \in DOMAIN job.scores : job.scores[k] \in -1 .. 100
        /\ job.done = Cardinality(Above) /\ job.failed \in Nat
        /\ job.done + job.failed = Cardinality(DOMAIN job.scores)
    BY <1>0, <2>2 DEF JobInv, SoFar
  <2>4. PICK D, A : D = DOMAIN job.scores /\ A = Above
    OBVIOUS
  <2>5. /\ D \in SUBSET (1 .. n) /\ A \in SUBSET (1 .. n) /\ i \notin D /\ i \notin A
    BY <2>3, <2>4 DEF Above
  <2>6. /\ IsFiniteSet(D) /\ Cardinality(D) \in Nat /\ IsFiniteSet(A) /\ Cardinality(A) \in Nat
    BY <2>5, UpTo
  <2>7. Cardinality(D \cup {i}) = Cardinality(D) + 1 /\ Cardinality(A \cup {i}) = Cardinality(A) + 1
    BY <2>5, <2>6, FS_AddElement
  <2>8. /\ DOMAIN job'.scores = D \cup {i}
        /\ \A k \in D \cup {i} : job'.scores[k] = IF k = i THEN score ELSE job.scores[k]
    BY <2>4 DEF Scored
  <2>9. Above' = IF score >= 0 THEN A \cup {i} ELSE A
    <3>1. Above' = {k \in D \cup {i} : job'.scores[k] >= 0}
      BY <2>8 DEF Above
    <3>2. A = {k \in D : job.scores[k] >= 0}
      BY <2>4 DEF Above
    <3>3. \A k \in D \cup {i} : job'.scores[k] >= 0 <=> (k \in A \/ (k = i /\ score >= 0))
      BY <2>5, <2>8, <3>2
    <3> QED BY <2>5, <3>1, <3>2, <3>3
  <2>10. job.done = Cardinality(A) /\ job.done + job.failed = Cardinality(D)
    BY <2>3, <2>4
  <2>11. SoFar'
    <3>1. DOMAIN job'.scores \subseteq 1 .. Len(job'.work)
      BY <2>2, <2>5, <2>8
    <3>2. \A k \in DOMAIN job'.scores : job'.scores[k] \in -1 .. 100
      BY <2>3, <2>4, <2>8
    <3>3. job'.done = Cardinality(Above')
      <4>1. CASE score >= 0
        BY <2>6, <2>7, <2>9, <2>10, <4>1
      <4>2. CASE ~(score >= 0)
        BY <2>6, <2>9, <2>10, <4>2
      <4> QED BY <4>1, <4>2
    <3>4. job'.done + job'.failed = Cardinality(DOMAIN job'.scores)
      <4>1. PICK c \in Nat, d \in Nat : c = Cardinality(A) /\ d = Cardinality(D)
        BY <2>6
      <4>2. job.done = c
        BY <2>10, <4>1
      <4>3. job'.done + job'.failed = d + 1
        BY <2>3, <2>10, <4>1, <4>2
      <4> QED BY <2>7, <2>8, <4>1, <4>3
    <3>5. job'.failed \in Nat
      BY <2>3
    <3> QED BY <3>1, <3>2, <3>3, <3>4, <3>5 DEF SoFar
  <2> QED BY <2>1, <2>11 DEF JobInv
<1> QED BY <1>2, <1>3, <1>4 DEF BenchInv

LEMMA BenchPair ==
  ASSUME BenchInv, NEW i \in DOMAIN job.work,
         PairFails(i) \/ \E v \in Verdicts : PairScored(i, v)
  PROVE  BenchInv'
<1>1. IsJob(job)
  BY DEF BenchInv, BenchShape
<1>2. CASE PairFails(i)
  <2>1. /\ job.phase = "pairs" /\ i \notin DOMAIN job.scores /\ rows' = rows /\ made' = made
        /\ IsJob(job') /\ job'.phase = "pairs" /\ job'.work = job.work
        /\ job'.scores = Scored(i, -1) /\ job'.skipped = job.skipped
        /\ job'.done = job.done /\ job'.failed = job.failed + 1
    BY <1>1, <1>2 DEF PairFails, IsJob
  <2>2. -1 \in -1 .. 100 /\ -1 < 0
    OBVIOUS
  <2> QED BY <2>1, <2>2, PairCounted
<1>3. CASE \E v \in Verdicts : PairScored(i, v)
  <2>1. PICK v \in Verdicts : PairScored(i, v)
    BY <1>3
  <2>2. PICK score : score = Weighted(job.work[i].task, v)
    OBVIOUS
  <2>3. /\ job.phase = "pairs" /\ i \notin DOMAIN job.scores /\ rows' = rows /\ made' = made
        /\ IsJob(job') /\ job'.phase = "pairs" /\ job'.work = job.work
        /\ job'.scores = Scored(i, score) /\ job'.skipped = job.skipped
        /\ job'.done = job.done + 1 /\ job'.failed = job.failed
    BY <1>1, <2>1, <2>2 DEF PairScored, IsJob
  <2>4. job.work[i].task \in DOMAIN Rubrics /\ v \in Seq(Int)
    BY <2>1, BenchAssumption DEF PairScored
  <2>5. score \in 0 .. 100
    BY <2>2, <2>4, WeightedBetween
  <2>6. score \in -1 .. 100 /\ score >= 0
    BY <2>5
  <2> QED BY <2>3, <2>6, PairCounted
<1> QED BY <1>2, <1>3

LEMMA BenchGathered ==
  ASSUME BenchInv, Gathered
  PROVE  BenchInv'
<1>0. BenchShape /\ JobInv /\ TableInv
  BY DEF BenchInv
<1>o. PICK ok : ok = {i \in DOMAIN job.work : job.scores[i] >= 0}
  OBVIOUS
<1>s. PICK s : s = [i \in DOMAIN job.work |->
                      [pair |-> job.work[i], quality |-> job.scores[i], run |-> made.runs]]
  OBVIOUS
<1>w. PICK W : W = At(s, ok)
  OBVIOUS
<1>1. /\ rows' = rows /\ made' = made /\ job.phase = "pairs" /\ DOMAIN job.scores = DOMAIN job.work
      /\ job'.phase = "writing" /\ job'.work = W /\ job'.done = job.done
      /\ job'.failed = job.failed /\ job'.skipped = job.skipped /\ IsJob(job')
  <2>1. IsJob(job)
    BY <1>0 DEF BenchShape
  <2> QED BY <2>1, <1>o, <1>s, <1>w DEF Gathered, IsJob
<1>2. BenchShape'
  BY <1>0, <1>1 DEF BenchShape
<1>3. PICK n \in Nat : /\ n = Len(job.work) /\ DOMAIN job.work = 1 .. n
                       /\ \A i \in 1 .. n : job.work[i] \in PairSet
                       /\ IsDistinct(job.work)
                       /\ n <= Len(Pairs) /\ job.skipped = Len(Pairs) - n
  BY <1>0, <1>1 DEF JobInv, ToReplay
<1>4. /\ \A i \in 1 .. n : job.scores[i] \in -1 .. 100
      /\ job.done = Cardinality(ok) /\ job.failed \in Nat /\ job.done + job.failed = n
  <2>1. /\ \A k \in DOMAIN job.scores : job.scores[k] \in -1 .. 100
        /\ job.done = Cardinality(Above) /\ job.failed \in Nat
        /\ job.done + job.failed = Cardinality(DOMAIN job.scores)
    BY <1>0, <1>1 DEF JobInv, SoFar
  <2>2. Above = ok
    BY <1>o, <1>1 DEF Above
  <2>3. \A m \in Nat : Cardinality(1 .. m) = m
    BY FS_Interval
  <2> QED BY <1>1, <1>3, <2>1, <2>2, <2>3
<1>5. PICK T : T = [pair: PairSet, quality: -1 .. 100, run: Nat]
  OBVIOUS
<1>6. s \in Seq(T) /\ Len(s) = n /\ ok \in SUBSET (1 .. n)
  <2>1. \A i \in 1 .. n :
          [pair |-> job.work[i], quality |-> job.scores[i], run |-> made.runs] \in T
    BY <1>0, <1>3, <1>4, <1>5, BenchTyped
  <2>2. s \in [1 .. n -> T]
    BY <1>s, <1>3, <2>1
  <2>3. ok \in SUBSET (1 .. n)
    BY <1>o, <1>3
  <2> QED BY <2>2, <2>3
<1>7. /\ W \in Seq(T) /\ Len(W) = Cardinality(ok) /\ Cardinality(ok) \in Nat
      /\ \A k \in 1 .. Cardinality(ok) : Nth(ok, k) \in ok /\ W[k] = s[Nth(ok, k)]
      /\ \A k, m \in 1 .. Cardinality(ok) : Nth(ok, k) = Nth(ok, m) => k = m
  BY <1>w, <1>6, AtPicks
<1>8. PICK c \in Nat : c = Cardinality(ok)
  BY <1>7
<1>9. DOMAIN W = 1 .. c
  BY <1>7, <1>8
<1>10. ASSUME NEW k \in 1 .. c
       PROVE  /\ Nth(ok, k) \in 1 .. n
              /\ W[k].pair = job.work[Nth(ok, k)] /\ W[k].run = made.runs
              /\ W[k] \in Results
  <2>1. PICK i \in ok : i = Nth(ok, k)
    BY <1>7, <1>8
  <2>2. i \in 1 .. n /\ job.scores[i] >= 0 /\ job.scores[i] \in -1 .. 100
    BY <1>o, <1>3, <1>4
  <2>3. job.scores[i] \in 0 .. 100
    BY <2>2
  <2>4. W[k] = [pair |-> job.work[i], quality |-> job.scores[i], run |-> made.runs]
    BY <1>s, <1>3, <1>7, <1>8, <2>1, <2>2
  <2>5. made.runs \in Nat
    BY <1>0, BenchTyped
  <2> QED BY <1>3, <2>1, <2>2, <2>3, <2>4, <2>5 DEF Results
<1>11. JobInv'
  <2>1. ToReplay' /\ ToScore' /\ SoFar' /\ StatsMatchTable'
    BY <1>1 DEF ToReplay, ToScore, SoFar, StatsMatchTable
  <2>2. W \in Seq(Results)
    <3>1. W = [k \in 1 .. c |-> W[k]]
      BY <1>7, <1>9
    <3>2. W \in [1 .. c -> Results]
      BY <1>10, <3>1
    <3> QED BY <3>2
  <2>3. \A k, m \in DOMAIN W : W[k].pair = W[m].pair => k = m
    <3>1. SUFFICES ASSUME NEW k \in 1 .. c, NEW m \in 1 .. c, W[k].pair = W[m].pair
                   PROVE  k = m
      BY <1>9
    <3>2. PICK i \in 1 .. n, j \in 1 .. n : i = Nth(ok, k) /\ j = Nth(ok, m)
      BY <1>10
    <3>3. job.work[i] = job.work[j]
      BY <1>10, <3>1, <3>2
    <3>4. i = j
      BY <1>3, <3>3 DEF IsDistinct
    <3> QED BY <1>7, <1>8, <3>2, <3>4
  <2>4. \A k \in DOMAIN W : W[k].run = made.runs
    BY <1>9, <1>10
  <2>5. PICK L \in Nat : L = Len(Pairs)
    BY PairsDistinct
  <2>6. job.skipped \in Nat /\ job.done + job.failed + job.skipped = L
    BY <1>3, <1>4, <1>8, <2>5
  <2>7. Len(W) <= job.done /\ job.done - Len(W) = 0 /\ job.done \in Nat
    BY <1>4, <1>7, <1>8
  <2>8. Cardinality(InRun(made.runs)) \in Nat
    BY <1>0, BenchTyped
  <2>9. InRun(made.runs)' = InRun(made.runs)
    BY <1>1 DEF InRun
  <2>10. job.done - Len(W) <= Cardinality(InRun(made.runs)')
    BY <2>7, <2>8, <2>9
  <2>11. ToWrite'
    BY <1>1, <1>4, <2>2, <2>3, <2>4, <2>5, <2>6, <2>7, <2>10 DEF ToWrite
  <2> QED BY <2>1, <2>11 DEF JobInv
<1>12. TableInv'
  <2>1. Pending' = {W[k].pair : k \in 1 .. c}
    BY <1>1, <1>9 DEF Pending
  <2>2. Pending = {job.work[i] : i \in 1 .. n}
    BY <1>1, <1>3 DEF Pending
  <2>3. Pending' \subseteq Pending
    BY <1>10, <2>1, <2>2
  <2> QED BY <1>0, <1>1, <2>3, TableKept
<1> QED BY <1>2, <1>11, <1>12 DEF BenchInv

(* A batch that is written: what of the work goes into the table.            *)
LEMMA BatchAndLeft ==
  ASSUME job.work \in Seq(Results), job.work # <<>>
  PROVE  \E n \in Nat, b \in Nat :
           /\ n = Len(job.work) /\ b \in 1 .. n /\ DOMAIN job.work = 1 .. n
           /\ Batch \in Seq(Results) /\ Len(Batch) = b
           /\ \A k \in 1 .. b : Batch[k] = job.work[k]
           /\ Left \in Seq(Results) /\ Len(Left) = n - b /\ DOMAIN Left = 1 .. n - b
           /\ \A k \in 1 .. n - b : Left[k] = job.work[b + k]
<1>1. PICK W, R : W = job.work /\ R = Results
  OBVIOUS
<1>2. PICK n \in Nat : n = Len(W) /\ W \in Seq(R) /\ n > 0 /\ DOMAIN W = 1 .. n
  BY <1>1
<1>3. PICK b \in 1 .. n : b = IF n < BatchSize THEN n ELSE BatchSize
  <2>1. BatchSize \in Nat \ {0}
    BY BenchAssumption
  <2> QED BY <1>2, <2>1
<1>4. Batch = SubSeq(W, 1, b)
  BY <1>1, <1>2, <1>3 DEF Batch
<1>5. Batch \in Seq(R) /\ Len(Batch) = b /\ \A k \in 1 .. b : Batch[k] = W[k]
  <2>1. SubSeq(W, 1, b) = [k \in 1 .. b |-> W[k]]
    BY <1>2
  <2>2. \A k \in 1 .. b : W[k] \in R
    BY <1>2
  <2> QED BY <1>4, <2>1, <2>2
<1>6. Left = SubSeq(W, b + 1, n)
  BY <1>1, <1>2, <1>5 DEF Left
<1>7. /\ Left \in Seq(R) /\ Len(Left) = n - b /\ DOMAIN Left = 1 .. n - b
      /\ \A k \in 1 .. n - b : Left[k] = W[b + k]
  <2>0. PICK d \in Nat : d = n - b
    OBVIOUS
  <2>1. SubSeq(W, b + 1, n) = [k \in 1 .. d |-> W[b + k]]
    <3>1. SubSeq(W, b + 1, n) = [k \in 1 .. n - (b + 1) + 1 |-> W[(b + 1) + k - 1]]
      BY <1>2
    <3>2. n - (b + 1) + 1 = d
      BY <2>0
    <3>3. \A k \in 1 .. d : (b + 1) + k - 1 = b + k
      OBVIOUS
    <3> QED BY <3>1, <3>2, <3>3
  <2>2. \A k \in 1 .. d : W[b + k] \in R
    BY <1>2, <2>0
  <2>3. Left = [k \in 1 .. d |-> W[b + k]]
    BY <1>6, <2>1
  <2>4. Left \in Seq(R) /\ Len(Left) = d /\ DOMAIN Left = 1 .. d
    BY <2>2, <2>3
  <2>5. \A k \in 1 .. d : Left[k] = W[b + k]
    BY <2>3
  <2> QED BY <2>0, <2>4, <2>5
<1>8. /\ n = Len(job.work) /\ b \in 1 .. n /\ DOMAIN job.work = 1 .. n
      /\ Batch \in Seq(Results) /\ Len(Batch) = b
      /\ \A k \in 1 .. b : Batch[k] = job.work[k]
      /\ Left \in Seq(Results) /\ Len(Left) = n - b /\ DOMAIN Left = 1 .. n - b
      /\ \A k \in 1 .. n - b : Left[k] = job.work[b + k]
  BY <1>1, <1>2, <1>3, <1>5, <1>7
<1>9. n \in Nat /\ b \in Nat
  OBVIOUS
<1>10. PICK c \in Nat : c = b
  BY <1>9
<1> WITNESS n \in Nat, c \in Nat
<1> QED BY <1>8, <1>10

LEMMA BenchUnwritten ==
  ASSUME BenchInv, NEW answered \in BOOLEAN, NEW lands \in BOOLEAN,
         WriteBatch(answered, lands)
  PROVE  /\ BenchShape /\ JobInv /\ TableInv
         /\ job.phase = "writing" /\ job.work \in Seq(Results) /\ job.work # <<>>
         /\ (answered => lands) /\ made' = made /\ IsJob(job') /\ job'.phase = "writing"
         /\ rows' = (IF lands THEN rows \o Batch ELSE rows)
         /\ job'.work = Left /\ job'.skipped = job.skipped
         /\ job'.done = job.done - (IF answered THEN 0 ELSE Len(Batch))
         /\ job'.failed = job.failed + (IF answered THEN 0 ELSE Len(Batch))
<1>1. BenchShape /\ JobInv /\ TableInv /\ IsJob(job)
  BY DEF BenchInv, BenchShape
<1>2. job.phase = "writing" /\ job.work # <<>>
  BY DEF WriteBatch
<1>3. job.work \in Seq(Results)
  BY <1>1, <1>2 DEF JobInv, ToWrite
<1>4. /\ (answered => lands) /\ made' = made /\ IsJob(job') /\ job'.phase = "writing"
      /\ rows' = (IF lands THEN rows \o Batch ELSE rows)
      /\ job'.work = Left /\ job'.skipped = job.skipped
      /\ job'.done = job.done - (IF answered THEN 0 ELSE Len(Batch))
      /\ job'.failed = job.failed + (IF answered THEN 0 ELSE Len(Batch))
  BY <1>1 DEF WriteBatch, IsJob
<1> QED BY <1>1, <1>2, <1>3, <1>4

LEMMA RowsWritten ==
  ASSUME BenchShape, job.work \in Seq(Results), job.work # <<>>, rows' = rows \o Batch
  PROVE  /\ rows' \in Seq(Results) /\ Len(rows') = Len(rows) + Len(Batch)
         /\ DOMAIN rows' = 1 .. Len(rows) + Len(Batch)
         /\ \A i \in 1 .. Len(rows) : rows'[i] = rows[i]
         /\ \A k \in 1 .. Len(Batch) : rows'[Len(rows) + k] = job.work[k]
<1>1. Batch \in Seq(Results) /\ \A k \in 1 .. Len(Batch) : Batch[k] = job.work[k]
  BY BatchAndLeft
<1>2. PICK R, B, r : R = Results /\ B = Batch /\ r = rows
  OBVIOUS
<1>3. r \in Seq(R) /\ B \in Seq(R) /\ rows' = r \o B
  BY <1>1, <1>2 DEF BenchShape
<1>4. /\ rows' \in Seq(R) /\ Len(rows') = Len(r) + Len(B) /\ DOMAIN rows' = 1 .. Len(rows')
      /\ \A i \in 1 .. Len(r) : rows'[i] = r[i]
      /\ \A k \in 1 .. Len(B) : rows'[Len(r) + k] = B[k]
  BY <1>3, ConcatProperties
<1> QED BY <1>1, <1>2, <1>4

LEMMA BenchWroteCounts ==
  ASSUME BenchInv, NEW answered \in BOOLEAN, NEW lands \in BOOLEAN,
         WriteBatch(answered, lands)
  PROVE  BenchShape' /\ JobInv'
<1>0. /\ BenchShape /\ JobInv /\ TableInv
      /\ job.phase = "writing" /\ job.work \in Seq(Results) /\ job.work # <<>>
      /\ (answered => lands) /\ made' = made /\ IsJob(job') /\ job'.phase = "writing"
      /\ rows' = (IF lands THEN rows \o Batch ELSE rows)
      /\ job'.work = Left /\ job'.skipped = job.skipped
      /\ job'.done = job.done - (IF answered THEN 0 ELSE Len(Batch))
      /\ job'.failed = job.failed + (IF answered THEN 0 ELSE Len(Batch))
  BY BenchUnwritten
<1>1. PICK n \in Nat, b \in Nat :
        /\ n = Len(job.work) /\ b \in 1 .. n /\ DOMAIN job.work = 1 .. n
        /\ Batch \in Seq(Results) /\ Len(Batch) = b
        /\ \A k \in 1 .. b : Batch[k] = job.work[k]
        /\ Left \in Seq(Results) /\ Len(Left) = n - b /\ DOMAIN Left = 1 .. n - b
        /\ \A k \in 1 .. n - b : Left[k] = job.work[b + k]
  BY <1>0, BatchAndLeft
<1>2. /\ \A i \in 1 .. n : job.work[i].run = made.runs
      /\ \A i, j \in 1 .. n : job.work[i].pair = job.work[j].pair => i = j
      /\ job.done \in Nat /\ job.failed \in Nat /\ job.skipped \in Nat
      /\ job.done + job.failed + job.skipped = Len(Pairs)
      /\ n <= job.done /\ job.done - n <= Cardinality(InRun(made.runs))
  BY <1>0, <1>1 DEF JobInv, ToWrite
<1>3. PICK N \in Nat : N = Len(rows) /\ DOMAIN rows = 1 .. N
  BY <1>0, BenchTyped
<1>4. ASSUME lands
      PROVE  /\ rows' \in Seq(Results) /\ Len(rows') = N + b /\ DOMAIN rows' = 1 .. N + b
             /\ \A i \in 1 .. N : rows'[i] = rows[i]
             /\ \A i \in N + 1 .. N + b : rows'[i] = job.work[i - N]
  <2>1. /\ rows' \in Seq(Results) /\ Len(rows') = Len(rows) + Len(Batch)
        /\ DOMAIN rows' = 1 .. Len(rows) + Len(Batch)
        /\ \A i \in 1 .. Len(rows) : rows'[i] = rows[i]
        /\ \A k \in 1 .. Len(Batch) : rows'[Len(rows) + k] = job.work[k]
    BY <1>0, <1>4, RowsWritten
  <2>2. ASSUME NEW i \in N + 1 .. N + b
        PROVE  rows'[i] = job.work[i - N]
    <3>1. PICK k \in 1 .. b : k = i - N /\ i = N + k
      <4>1. i - N \in 1 .. b /\ i = N + (i - N)
        OBVIOUS
      <4> QED BY <4>1
    <3> QED BY <1>1, <1>3, <2>1, <3>1
  <2> QED BY <1>1, <1>3, <2>1, <2>2
<1>5. BenchShape'
  <2>1. CASE lands
    <3>1. \A i \in 1 .. N : rows[i].run <= made.runs
      BY <1>0, <1>3 DEF BenchShape
    <3>3. ASSUME NEW i \in N + 1 .. N + b
          PROVE  rows'[i].run = made.runs
      <4>1. PICK k \in 1 .. n : k = i - N
        BY <1>1
      <4> QED BY <1>2, <1>4, <2>1, <4>1
    <3>4. made.runs \in Nat /\ \A i \in 1 .. N + b : i \in 1 .. N \/ i \in N + 1 .. N + b
      BY <1>0, BenchTyped
    <3>5. \A i \in DOMAIN rows' : rows'[i].run <= made.runs
      BY <1>4, <2>1, <3>1, <3>3, <3>4
    <3> QED BY <1>0, <1>4, <2>1, <3>5 DEF BenchShape
  <2>2. CASE ~lands
    BY <1>0, <2>2 DEF BenchShape
  <2> QED BY <2>1, <2>2
<1>6. PICK c \in Nat : c = Cardinality(InRun(made.runs)) /\ IsFiniteSet(InRun(made.runs))
  BY <1>0, BenchTyped
<1>7. Cardinality(InRun(made.runs)') = IF lands THEN c + b ELSE c
  <2>1. CASE lands
    <3>1. PICK S, T : S = InRun(made.runs) /\ T = N + 1 .. N + b
      OBVIOUS
    <3>2. \A i \in 1 .. N : i \in S <=> rows[i].run = made.runs
      BY <1>3, <3>1 DEF InRun
    <3>3. ASSUME NEW i \in N + 1 .. N + b
          PROVE  rows'[i].run = made.runs
      <4>1. PICK k \in 1 .. n : k = i - N
        BY <1>1
      <4> QED BY <1>2, <1>4, <2>1, <4>1
    <3>4. InRun(made.runs)' = {i \in 1 .. N + b : rows'[i].run = made.runs}
      BY <1>0, <1>4, <2>1 DEF InRun
    <3>5. S \subseteq 1 .. N
      BY <1>3, <3>1 DEF InRun
    <3>6. \A i \in 1 .. N + b : rows'[i].run = made.runs <=> i \in S \cup T
      <4>1. ASSUME NEW i \in 1 .. N
            PROVE  rows'[i].run = made.runs <=> i \in S \cup T
        <5>1. i \notin T
          BY <3>1
        <5> QED BY <1>4, <2>1, <3>2, <5>1
      <4>2. ASSUME NEW i \in N + 1 .. N + b
            PROVE  rows'[i].run = made.runs <=> i \in S \cup T
        BY <3>1, <3>3
      <4>3. \A i \in 1 .. N + b : i \in 1 .. N \/ i \in N + 1 .. N + b
        OBVIOUS
      <4> QED BY <4>1, <4>2, <4>3
    <3>7. S \cup T \subseteq 1 .. N + b /\ S \cap T = {}
      BY <3>1, <3>5
    <3>8. InRun(made.runs)' = S \cup T
      BY <3>4, <3>6, <3>7
    <3>9. IsFiniteSet(T) /\ Cardinality(T) = b
      <4>1. \A k, m \in Int : /\ IsFiniteSet(k .. m)
                             /\ Cardinality(k .. m) = IF k > m THEN 0 ELSE m - k + 1
        BY FS_Interval
      <4>2. N + 1 \in Int /\ N + b \in Int /\ ~(N + 1 > N + b) /\ (N + b) - (N + 1) + 1 = b
        BY <1>1
      <4>3. IsFiniteSet(N + 1 .. N + b) /\ Cardinality(N + 1 .. N + b) = b
        BY <4>1, <4>2
      <4> QED BY <3>1, <4>3, Zenon
    <3>10. Cardinality(S \cup T) = c + b
      <4>1. Cardinality(S \cup T) = Cardinality(S) + Cardinality(T) - Cardinality(S \cap T)
        BY <1>6, <3>1, <3>9, FS_Union
      <4>2. Cardinality(S \cap T) = 0
        BY <3>7, FS_EmptySet
      <4>3. Cardinality(S) = c
        BY <1>6, <3>1
      <4> QED BY <3>9, <4>1, <4>2, <4>3
    <3> QED BY <2>1, <3>8, <3>10
  <2>2. CASE ~lands
    <3>1. InRun(made.runs)' = InRun(made.runs)
      BY <1>0, <2>2 DEF InRun
    <3> QED BY <1>6, <2>2, <3>1
  <2> QED BY <2>1, <2>2
<1>8. PICK x, y : x = (IF answered THEN 0 ELSE b) /\ y = (IF lands THEN c + b ELSE c)
  OBVIOUS
<1>9. /\ job.done - x \in Nat /\ job.failed + x \in Nat
      /\ (job.done - x) + (job.failed + x) + job.skipped = Len(Pairs)
      /\ n - b <= job.done - x /\ (job.done - x) - (n - b) <= y
  <2>1. PICK d, f, s, L : d = job.done /\ f = job.failed /\ s = job.skipped /\ L = Len(Pairs)
    OBVIOUS
  <2>2. d \in Nat /\ f \in Nat /\ s \in Nat /\ d + f + s = L /\ n <= d /\ d - n <= c
    BY <1>2, <1>6, <2>1
  <2>3. /\ d - x \in Nat /\ f + x \in Nat /\ (d - x) + (f + x) + s = L
        /\ n - b <= d - x /\ (d - x) - (n - b) <= y
    <3>1. x = (IF answered THEN 0 ELSE b) /\ y = (IF lands THEN c + b ELSE c)
      BY <1>8
    <3>2. (answered => lands) /\ b \in 1 .. n
      BY <1>0, <1>1
    <3>3. CASE answered
      BY <2>2, <3>1, <3>2, <3>3
    <3>4. CASE ~answered
      BY <2>2, <3>1, <3>2, <3>4
    <3> QED BY <3>3, <3>4
  <2> QED BY <2>1, <2>3
<1>10. JobInv'
  <2>1. ToReplay' /\ ToScore' /\ SoFar' /\ StatsMatchTable'
    BY <1>0 DEF ToReplay, ToScore, SoFar, StatsMatchTable
  <2>2. job'.done = job.done - x /\ job'.failed = job.failed + x
    BY <1>0, <1>1, <1>8
  <2>3. Len(job'.work) = n - b /\ DOMAIN job'.work = 1 .. n - b
    BY <1>0, <1>1
  <2>4. \A k \in 1 .. n - b : b + k \in 1 .. n /\ job'.work[k] = job.work[b + k]
    BY <1>0, <1>1
  <2>5. ASSUME NEW k \in 1 .. n - b
        PROVE  job'.work[k].run = made.runs
    <3>1. PICK i \in 1 .. n : i = b + k /\ job'.work[k] = job.work[i]
      BY <2>4
    <3> QED BY <1>2, <3>1
  <2>6. ASSUME NEW i \in 1 .. n - b, NEW j \in 1 .. n - b, job'.work[i].pair = job'.work[j].pair
        PROVE  i = j
    <3>1. PICK k \in 1 .. n : k = b + i /\ job'.work[i] = job.work[k]
      BY <2>4
    <3>2. PICK m \in 1 .. n : m = b + j /\ job'.work[j] = job.work[m]
      BY <2>4
    <3>3. k = m
      BY <1>2, <2>6, <3>1, <3>2
    <3> QED BY <3>1, <3>2, <3>3
  <2>8. job'.work \in Seq(Results)
    BY <1>0, <1>1
  <2>9. Len(job'.work) <= job'.done /\ job'.done - Len(job'.work) <= Cardinality(InRun(made.runs)')
    <3>1. Cardinality(InRun(made.runs)') = y
      BY <1>7, <1>8
    <3> QED BY <1>9, <2>2, <2>3, <3>1
  <2>10. ToWrite'
    BY <1>0, <1>2, <1>9, <2>2, <2>3, <2>5, <2>6, <2>8, <2>9 DEF ToWrite
  <2> QED BY <2>1, <2>10 DEF JobInv
<1> QED BY <1>5, <1>10

LEMMA BenchWroteRows ==
  ASSUME BenchInv, NEW answered \in BOOLEAN, WriteBatch(answered, TRUE)
  PROVE  TableInv'
<1>0. /\ BenchShape /\ JobInv /\ TableInv
      /\ job.phase = "writing" /\ job.work \in Seq(Results) /\ job.work # <<>>
      /\ made' = made /\ job'.phase = "writing" /\ rows' = rows \o Batch /\ job'.work = Left
  <2>1. PICK lands \in BOOLEAN : lands = TRUE
    OBVIOUS
  <2>2. WriteBatch(answered, lands)
    BY <2>1
  <2> QED BY <2>1, <2>2, BenchUnwritten
<1>1. PICK n \in Nat, b \in Nat :
        /\ n = Len(job.work) /\ b \in 1 .. n /\ DOMAIN job.work = 1 .. n
        /\ Batch \in Seq(Results) /\ Len(Batch) = b
        /\ \A k \in 1 .. b : Batch[k] = job.work[k]
        /\ Left \in Seq(Results) /\ Len(Left) = n - b /\ DOMAIN Left = 1 .. n - b
        /\ \A k \in 1 .. n - b : Left[k] = job.work[b + k]
  BY <1>0, BatchAndLeft
<1>2. /\ \A i \in 1 .. n : job.work[i].run = made.runs
      /\ \A i, j \in 1 .. n : job.work[i].pair = job.work[j].pair => i = j
  BY <1>0, <1>1 DEF JobInv, ToWrite
<1>3. PICK N \in Nat : N = Len(rows) /\ DOMAIN rows = 1 .. N
  BY <1>0, BenchTyped
<1>4. /\ DOMAIN rows' = 1 .. N + b
      /\ \A i \in 1 .. N : rows'[i] = rows[i]
      /\ \A k \in 1 .. b : rows'[N + k] = job.work[k]
  BY <1>0, <1>1, <1>3, RowsWritten
<1>5. \A i \in 1 .. N + b : i \in 1 .. N \/ \E k \in 1 .. b : i = N + k
  <2>1. \A i \in 1 .. N + b : i \in 1 .. N \/ (i - N \in 1 .. b /\ i = N + (i - N))
    OBVIOUS
  <2> QED BY <2>1
<1>6. \A k \in 1 .. n : job.work[k].pair \in Pending
  BY <1>0, <1>1 DEF Pending
<1>7. \A p \in Pending : /\ p \in PairSet
                         /\ \A i \in RowsOf(p) : rows[i].run # made.runs
                         /\ Cardinality(RowsOf(p)) <= made.again
  BY <1>0 DEF TableInv, PendingFresh
<1>8. \A i \in 1 .. N, k \in 1 .. b :
        ~(rows[i].pair = job.work[k].pair /\ rows[i].run = job.work[k].run)
  <2>1. SUFFICES ASSUME NEW i \in 1 .. N, NEW k \in 1 .. b, rows[i].pair = job.work[k].pair
                 PROVE  rows[i].run # job.work[k].run
    OBVIOUS
  <2>2. k \in 1 .. n
    BY <1>1
  <2>3. i \in RowsOf(job.work[k].pair)
    BY <1>3, <2>1 DEF RowsOf
  <2> QED BY <1>2, <1>6, <1>7, <2>2, <2>3
<1>9. OnceInRun'
  <2>1. SUFFICES ASSUME NEW i \in 1 .. N + b, NEW j \in 1 .. N + b,
                        rows'[j].pair = rows'[i].pair, rows'[j].run = rows'[i].run
                 PROVE  i = j
    BY <1>4 DEF OnceInRun
  <2>2. CASE i \in 1 .. N /\ j \in 1 .. N
    <3>1. rows[j].pair = rows[i].pair /\ rows[j].run = rows[i].run
      BY <1>4, <2>1, <2>2
    <3> QED BY <1>0, <1>3, <2>2, <3>1 DEF TableInv, OnceInRun
  <2>3. CASE i \in 1 .. N /\ \E k \in 1 .. b : j = N + k
    <3>1. PICK k \in 1 .. b : j = N + k
      BY <2>3
    <3>2. rows'[j] = job.work[k] /\ rows'[i] = rows[i]
      BY <1>4, <2>3, <3>1
    <3> QED BY <1>8, <2>1, <2>3, <3>2
  <2>4. CASE j \in 1 .. N /\ \E k \in 1 .. b : i = N + k
    <3>1. PICK k \in 1 .. b : i = N + k
      BY <2>4
    <3>2. rows'[i] = job.work[k] /\ rows'[j] = rows[j]
      BY <1>4, <2>4, <3>1
    <3> QED BY <1>8, <2>1, <2>4, <3>2
  <2>5. CASE (\E k \in 1 .. b : i = N + k) /\ (\E k \in 1 .. b : j = N + k)
    <3>1. PICK k \in 1 .. b, m \in 1 .. b : i = N + k /\ j = N + m
      BY <2>5
    <3>2. rows'[i] = job.work[k] /\ rows'[j] = job.work[m]
      BY <1>4, <3>1
    <3>3. job.work[k].pair = job.work[m].pair /\ k \in 1 .. n /\ m \in 1 .. n
      BY <1>1, <2>1, <3>2
    <3>4. k = m
      BY <1>2, <3>3
    <3> QED BY <3>1, <3>4
  <2> QED BY <1>5, <2>2, <2>3, <2>4, <2>5
<1>10. ASSUME NEW p
       PROVE  \A i \in 1 .. N + b :
                i \in RowsOf(p)' <=> \/ i \in RowsOf(p)
                                     \/ \E k \in 1 .. b : i = N + k /\ job.work[k].pair = p
  <2>1. \A i \in 1 .. N + b : i \in RowsOf(p)' <=> rows'[i].pair = p
    BY <1>4 DEF RowsOf
  <2>2. \A i \in 1 .. N : i \in RowsOf(p) <=> rows'[i].pair = p
    BY <1>3, <1>4 DEF RowsOf
  <2>3. \A k \in 1 .. b : rows'[N + k].pair = job.work[k].pair
    BY <1>4
  <2>4. \A i \in 1 .. N, k \in 1 .. b : i # N + k
    OBVIOUS
  <2>5. \A k \in 1 .. b : N + k \notin RowsOf(p)
    BY <1>3 DEF RowsOf
  <2> QED BY <1>5, <2>1, <2>2, <2>3, <2>4, <2>5
<1>11. \A p : RowsOf(p)' \subseteq 1 .. N + b /\ RowsOf(p) \subseteq 1 .. N
  BY <1>3, <1>4 DEF RowsOf
<1>12. ASSUME NEW p, \A k \in 1 .. b : job.work[k].pair # p
       PROVE  RowsOf(p)' = RowsOf(p)
  <2>1. \A i \in 1 .. N : i \in 1 .. N + b
    OBVIOUS
  <2>2. \A i \in 1 .. N + b : i \in RowsOf(p)' <=> i \in RowsOf(p)
    BY <1>10, <1>12
  <2> QED BY <1>11, <2>1, <2>2
<1>13. ASSUME NEW p, NEW k \in 1 .. b, job.work[k].pair = p
       PROVE  Cardinality(RowsOf(p)') = Cardinality(RowsOf(p)) + 1
  <2>1. ASSUME NEW m \in 1 .. b, job.work[m].pair = p
        PROVE  m = k
    <3>1. m \in 1 .. n /\ k \in 1 .. n
      BY <1>1
    <3> QED BY <1>2, <1>13, <2>1, <3>1
  <2>2. \A i \in 1 .. N + b : i \in RowsOf(p)' <=> i \in RowsOf(p) \/ i = N + k
    BY <1>10, <1>13, <2>1
  <2>3. PICK S, x : S = RowsOf(p) /\ x = N + k
    OBVIOUS
  <2>4. S \subseteq 1 .. N /\ x \in 1 .. N + b /\ x \notin S
    BY <1>11, <2>3
  <2>5. \A i \in 1 .. N : i \in 1 .. N + b
    OBVIOUS
  <2>6. RowsOf(p)' = S \cup {x}
    BY <1>11, <2>2, <2>3, <2>4, <2>5
  <2>7. IsFiniteSet(S)
    BY <1>0, <2>3, BenchTyped
  <2> QED BY <2>3, <2>4, <2>6, <2>7, FS_AddElement
<1>14. OftenAtMost'
  <2>1. ASSUME NEW p \in PairSet
        PROVE  Cardinality(RowsOf(p)') <= 1 + made.again
    <3>1. CASE \A k \in 1 .. b : job.work[k].pair # p
      BY <1>0, <1>12, <3>1 DEF TableInv, OftenAtMost
    <3>2. CASE \E k \in 1 .. b : job.work[k].pair = p
      <4>1. PICK k \in 1 .. b : job.work[k].pair = p
        BY <3>2
      <4>2. p \in Pending
        <5>1. k \in 1 .. n
          BY <1>1
        <5> QED BY <1>6, <4>1, <5>1
      <4>3. Cardinality(RowsOf(p)) <= made.again
        BY <1>7, <4>2
      <4>4. Cardinality(RowsOf(p)) \in Nat /\ made.again \in Nat
        BY <1>0, BenchTyped
      <4> QED BY <1>13, <4>1, <4>3, <4>4
    <3> QED BY <3>1, <3>2
  <2> QED BY <1>0, <2>1 DEF OftenAtMost
<1>15. PendingFresh'
  <2>1. Pending' = {job'.work[m] .pair : m \in 1 .. n - b}
    BY <1>0, <1>1 DEF Pending
  <2>2. ASSUME NEW p \in Pending'
        PROVE  /\ p \in PairSet
               /\ \A i \in RowsOf(p)' : rows'[i].run # made.runs
               /\ Cardinality(RowsOf(p)') <= made.again
    <3>1. PICK m \in 1 .. n - b : p = job'.work[m].pair
      BY <2>1
    <3>2. PICK h \in 1 .. n : h = b + m
      BY <1>1
    <3>3. p = job.work[h].pair
      BY <1>0, <1>1, <3>1, <3>2
    <3>4. \A k \in 1 .. b : job.work[k].pair # p
      <4>1. \A k \in 1 .. b : k \in 1 .. n /\ k # h
        BY <1>1, <3>2
      <4> QED BY <1>2, <3>3, <4>1
    <3>5. RowsOf(p)' = RowsOf(p)
      BY <1>12, <3>4
    <3>6. p \in Pending
      BY <1>6, <3>3
    <3>7. \A i \in RowsOf(p) : rows'[i] = rows[i]
      BY <1>4, <1>11
    <3> QED BY <1>7, <3>5, <3>6, <3>7
  <2> QED BY <1>0, <2>2 DEF PendingFresh
<1> QED BY <1>9, <1>14, <1>15 DEF TableInv

LEMMA BenchWrote ==
  ASSUME BenchInv, NEW answered \in BOOLEAN, NEW lands \in BOOLEAN, WriteBatch(answered, lands)
  PROVE  BenchInv'
<1>1. BenchShape' /\ JobInv'
  BY BenchWroteCounts
<1>2. CASE lands
  <2>1. WriteBatch(answered, TRUE)
    BY <1>2
  <2>2. TableInv'
    BY <2>1, BenchWroteRows
  <2> QED BY <1>1, <2>2 DEF BenchInv
<1>3. CASE ~lands
  <2>1. /\ TableInv /\ job.phase = "writing" /\ job.work \in Seq(Results) /\ job.work # <<>>
        /\ made' = made /\ rows' = rows /\ job'.phase = "writing" /\ job'.work = Left
    BY <1>3, BenchUnwritten
  <2>2. PICK n \in Nat, b \in Nat :
          /\ DOMAIN job.work = 1 .. n /\ b \in 1 .. n /\ DOMAIN Left = 1 .. n - b
          /\ \A k \in 1 .. n - b : Left[k] = job.work[b + k]
    BY <2>1, BatchAndLeft
  <2>3. \A k \in 1 .. n - b : b + k \in 1 .. n
    BY <2>2
  <2>4. Pending' \subseteq Pending
    <3>1. Pending' = {Left[k].pair : k \in 1 .. n - b}
      BY <2>1, <2>2 DEF Pending
    <3>2. Pending = {job.work[k].pair : k \in 1 .. n}
      BY <2>1, <2>2 DEF Pending
    <3> QED BY <2>2, <2>3, <3>1, <3>2
  <2>5. TableInv'
    BY <2>1, <2>4, TableKept
  <2> QED BY <1>1, <2>5 DEF BenchInv
<1> QED BY <1>2, <1>3

LEMMA BenchNextInv == BenchInv /\ (BenchNext \/ UNCHANGED benchVars) => BenchInv'
<1> SUFFICES ASSUME BenchInv, BenchNext \/ UNCHANGED benchVars PROVE BenchInv'
  OBVIOUS
<1>1. CASE UNCHANGED benchVars
  <2>0. BenchShape /\ JobInv /\ TableInv
    BY DEF BenchInv
  <2>1. rows' = rows /\ job' = job /\ made' = made
    BY <1>1 DEF benchVars
  <2>2. BenchShape'
    BY <2>0, <2>1 DEF BenchShape
  <2>3. Above' = Above /\ InRun(made.runs)' = InRun(made.runs) /\ Pending' = Pending
    BY <2>1 DEF Above, InRun, Pending
  <2>4. ToReplay' /\ ToScore' /\ SoFar'
    BY <2>0, <2>1, <2>3 DEF JobInv, ToReplay, ToScore, SoFar
  <2>5. ToWrite' /\ StatsMatchTable'
    BY <2>0, <2>1, <2>3 DEF JobInv, ToWrite, StatsMatchTable
  <2>6. TableInv'
    BY <2>0, <2>1, <2>3, TableKept
  <2> QED BY <2>2, <2>4, <2>5, <2>6 DEF BenchInv, JobInv
<1>2. CASE StartRun
  BY <1>2, BenchStarted
<1>3. CASE Reference
  BY <1>3, BenchReferred
<1>4. CASE ReferenceFails \/ Crash
  BY <1>4, BenchStopped
<1>5. CASE Gathered
  BY <1>5, BenchGathered
<1>6. CASE RunEnds
  BY <1>6, BenchEnded
<1>7. CASE \E i \in DOMAIN job.work : PairFails(i) \/ \E v \in Verdicts : PairScored(i, v)
  BY <1>7, BenchPair
<1>8. CASE \E answered, lands \in BOOLEAN : WriteBatch(answered, lands)
  BY <1>8, BenchWrote
<1> QED BY <1>1, <1>2, <1>3, <1>4, <1>5, <1>6, <1>7, <1>8 DEF BenchNext

LEMMA BenchMeans == BenchInv => RunsResume
<1> SUFFICES ASSUME BenchInv PROVE RunsResume
  OBVIOUS
<1>0. BenchShape /\ JobInv /\ TableInv
  BY DEF BenchInv
<1>1. StatsMatchTable
  BY <1>0 DEF JobInv
<1>2. \A i \in DOMAIN rows : rows[i].pair \in PairSet /\ rows[i].quality \in 0 .. 100
  BY <1>0, BenchTyped
<1>3. ResumeSkipsDone
  BY <1>0, <1>2 DEF TableInv, OftenAtMost, RowsOf, ResumeSkipsDone
<1>4. RowsAreScores
  BY <1>0, <1>2 DEF TableInv, OnceInRun, RowsAreScores
<1>5. QualitiesShareAScale
  BY <1>2, OneScale DEF QualitiesShareAScale
<1> QED BY <1>1, <1>3, <1>4, <1>5 DEF RunsResume

(***************************************************************************)
(* A benchmark that is resumed does what is left: its statistics account   *)
(* for every pair and claim no result the table does not hold, a pair is   *)
(* in the table once and once more for each time a runner was used again,  *)
(* whatever crashes and whichever writes are lost or not confirmed, and    *)
(* every quality is a fraction on one scale (benchmarking/runner.py,       *)
(* eval_set.py, judge.py).                                                  *)
(***************************************************************************)
THEOREM BenchmarksResume == Spec => []RunsResume
<1>1. Init => BenchInv
  BY BenchStarts DEF Init
<1>2. BenchInv /\ [Next]_vars => BenchInv'
  <2>1. [Next]_vars => BenchNext \/ UNCHANGED benchVars
    BY DEF Next, vars, components
  <2> QED BY <2>1, BenchNextInv
<1>3. BenchInv => RunsResume
  BY BenchMeans
<1> QED BY <1>1, <1>2, <1>3, PTL DEF Spec

-----------------------------------------------------------------------------
(* The token. A ledger, what it holds altogether, and what a transfer leaves. *)
Ledgers ==
  [balance : [Accounts -> Int], allowance : [Holders -> [Spenders -> Int]], supply : Int]
Held(l) == SumFunctionOnSet(l.balance, Accounts)

LEMMA AccountsFinite == IsFiniteSet(Accounts)
<1>1. IsFiniteSet({Dead}) /\ IsFiniteSet({Contract}) /\ IsFiniteSet({FirstTreasury})
  BY FS_Singleton
<1>2. Accounts = Holders \cup ({Dead} \cup ({Contract} \cup {FirstTreasury}))
  BY DEF Accounts
<1> QED BY <1>1, <1>2, RevenueAssumption, FS_Union

LEMMA HoldersAct == Holders \subseteq Accounts /\ Dead \in Accounts
  BY DEF Accounts

LEMMA HeldIsSummed ==
  ASSUME NEW l \in Ledgers
  PROVE  SumFunction(l.balance) = Held(l)
<1>1. DOMAIN l.balance = Accounts
  BY DEF Ledgers
<1> QED BY <1>1 DEF Held, SumFunction

(* The balances after a transfer: the same sum, and one receiver.            *)
Balances == [Accounts -> Int]
PaidFrom(g, b, from, to, v) ==
  /\ g \in Balances
  /\ SumFunctionOnSet(g, Accounts) = SumFunctionOnSet(b, Accounts)
  /\ \A a \in Accounts : a # from => g[a] = b[a] + IF a = to THEN v ELSE 0

LEMMA TransferKeeps ==
  ASSUME NEW b \in Balances, NEW from \in Accounts, NEW to \in Accounts, NEW v \in Int
  PROVE  PaidFrom(Moved(b, from, to, v), b, from, to, v)
<1>1. PICK m : m = [b EXCEPT ![from] = @ - v]
  OBVIOUS
<1>2. PICK g : g = [m EXCEPT ![to] = @ + v]
  OBVIOUS
<1>3. Moved(b, from, to, v) = g
  BY <1>1, <1>2 DEF Moved
<1>4. /\ m \in [Accounts -> Int] /\ m[from] = b[from] - v
      /\ \A a \in Accounts \ {from} : b[a] = m[a]
  BY <1>1 DEF Balances
<1>5. /\ g \in [Accounts -> Int] /\ g[to] = m[to] + v
      /\ \A a \in Accounts \ {to} : m[a] = g[a]
  BY <1>2, <1>4
<1>6. /\ SumFunctionOnSet(b, Accounts) \in Int
      /\ SumFunctionOnSet(m, Accounts) = SumFunctionOnSet(b, Accounts) + (m[from] - b[from])
  BY <1>4, AccountsFinite, SumOneChanged DEF Balances
<1>7. SumFunctionOnSet(g, Accounts) = SumFunctionOnSet(m, Accounts) + (g[to] - m[to])
  BY <1>4, <1>5, AccountsFinite, SumOneChanged
<1>8. b[from] \in Int /\ m[to] \in Int
  BY <1>4 DEF Balances
<1>9. SumFunctionOnSet(g, Accounts) = SumFunctionOnSet(b, Accounts)
  <2> HIDE <1>1, <1>2
  <2> QED BY <1>4, <1>5, <1>6, <1>7, <1>8
<1>10. \A a \in Accounts : a # from => g[a] = b[a] + IF a = to THEN v ELSE 0
  BY <1>4, <1>5
<1> QED BY <1>3, <1>5, <1>9, <1>10 DEF PaidFrom, Balances

IsPull(p, l, from, to, v) ==
  /\ Held(p) = Held(l) /\ p.supply = l.supply
  /\ \A a \in Accounts : a # from => p.balance[a] = l.balance[a] + IF a = to THEN v ELSE 0

LEMMA PullKeeps ==
  ASSUME NEW l \in Ledgers, NEW by \in Spenders, NEW from \in Holders, NEW to \in Accounts,
         NEW v \in Int
  PROVE  /\ Pulled(l, by, from, to, v) \in Ledgers
         /\ IsPull(Pulled(l, by, from, to, v), l, from, to, v)
<1>c. PICK c : c = l.balance
  OBVIOUS
<1>1. PICK b : b = Moved(c, from, to, v)
  OBVIOUS
<1>2. PICK w : w = [l.allowance EXCEPT ![from][by] = @ - v]
  OBVIOUS
<1>3. /\ l.balance \in [Accounts -> Int] /\ l.allowance \in [Holders -> [Spenders -> Int]]
      /\ l.supply \in Int /\ from \in Accounts
  BY HoldersAct DEF Ledgers
<1>m. PaidFrom(b, c, from, to, v)
  BY <1>1, <1>c, <1>3, TransferKeeps DEF Balances
<1>4. w \in [Holders -> [Spenders -> Int]]
  BY <1>2, <1>3
<1>5. /\ b \in [Accounts -> Int]
      /\ SumFunctionOnSet(b, Accounts) = SumFunctionOnSet(l.balance, Accounts)
      /\ \A a \in Accounts : a # from => b[a] = l.balance[a] + IF a = to THEN v ELSE 0
  BY <1>c, <1>m DEF PaidFrom, Balances
<1>6. PICK p : p = Pulled(l, by, from, to, v)
  OBVIOUS
<1>7. p = [l EXCEPT !.balance = b, !.allowance = w]
  BY <1>1, <1>2, <1>6, <1>c DEF Pulled
<1>8. p \in Ledgers /\ p.balance = b /\ p.supply = l.supply
  BY <1>3, <1>4, <1>5, <1>7 DEF Ledgers
<1> QED BY <1>5, <1>6, <1>8 DEF Held, IsPull

-----------------------------------------------------------------------------
(* What a list of payments adds up to for one account.                       *)
Payment == Accounts \X Nat
PartTo(s, a, n) == IF s[n][1] = a THEN s[n][2] ELSE 0
Parts(s, a) == [n \in 1 .. Len(s) |-> PartTo(s, a, n)]
PartEquation(s, a, f) ==
  f = [n \in 0 .. Len(s) |-> IF n = 0 THEN 0 ELSE f[n - 1] + PartTo(s, a, n)]

LEMMA ShareUnfold ==
  ASSUME NEW s, NEW a
  PROVE  ShareOf(s, a) = (CHOOSE f : PartEquation(s, a, f))[Len(s)]
BY DEF ShareOf, PartEquation, PartTo

LEMMA PartsTyped ==
  ASSUME NEW s \in Seq(Payment), NEW a
  PROVE  /\ Len(s) \in Nat
         /\ \A n \in 1 .. Len(s) : PartTo(s, a, n) \in Nat /\ Parts(s, a)[n] = PartTo(s, a, n)
<1>1. Len(s) \in Nat
  OBVIOUS
<1>2. ASSUME NEW n \in 1 .. Len(s)
      PROVE  PartTo(s, a, n) \in Nat /\ Parts(s, a)[n] = PartTo(s, a, n)
  <2>1. s[n] \in Payment
    OBVIOUS
  <2>2. s[n][2] \in Nat
    BY <2>1 DEF Payment
  <2> QED BY <2>2 DEF PartTo, Parts
<1> QED BY <1>1, <1>2

LEMMA PartsTotal ==
  ASSUME NEW s \in Seq(Payment), NEW a
  PROVE  \E f : IsTotal(f, Len(s), Parts(s, a))
<1>1. \A n \in 1 .. Len(s) : Parts(s, a)[n] \in Int
  BY PartsTyped
<1> QED BY <1>1, PartsTyped, RunningTotal

LEMMA ShareIsTotal ==
  ASSUME NEW s \in Seq(Payment), NEW a
  PROVE  \E f : ShareOf(s, a) = f[Len(s)] /\ IsTotal(f, Len(s), Parts(s, a))
<1>1. PICK f : IsTotal(f, Len(s), Parts(s, a))
  BY PartsTotal
<1>2. /\ Len(s) \in Nat
      /\ \A n \in 1 .. Len(s) : PartTo(s, a, n) \in Nat /\ Parts(s, a)[n] = PartTo(s, a, n)
  BY PartsTyped
<1>3. PartEquation(s, a, f)
  <2> DEFINE body(n) == IF n = 0 THEN 0 ELSE f[n - 1] + PartTo(s, a, n)
  <2>1. \A n \in 0 .. Len(s) : f[n] = body(n)
    BY <1>1, <1>2 DEF IsTotal
  <2>2. f = [n \in 0 .. Len(s) |-> f[n]]
    BY <1>1 DEF IsTotal
  <2>3. [n \in 0 .. Len(s) |-> f[n]] = [n \in 0 .. Len(s) |-> body(n)]
    <3> HIDE DEF body
    <3> QED BY <2>1
  <2> QED BY <2>2, <2>3 DEF PartEquation
<1>4. PICK h : h = CHOOSE g : PartEquation(s, a, g)
  OBVIOUS
<1>5. PartEquation(s, a, h)
  BY <1>3, <1>4
<1>6. \A n \in 0 .. Len(s) : h[n] = IF n = 0 THEN 0 ELSE h[n - 1] + PartTo(s, a, n)
  BY <1>5 DEF PartEquation
<1>7. h[0] = 0 /\ \A n \in 1 .. Len(s) : h[n] = h[n - 1] + PartTo(s, a, n)
  BY <1>2, <1>6
<1>8. f[Len(s)] = h[Len(s)]
  <2>1. \A n \in 1 .. Len(s) : f[n - 1] = h[n - 1] => f[n] = h[n]
    BY <1>1, <1>2, <1>7 DEF IsTotal
  <2>2. f[0] = h[0]
    BY <1>1, <1>7 DEF IsTotal
  <2> QED BY <1>2, <2>1, <2>2, RecursionAgrees
<1>9. ShareOf(s, a) = f[Len(s)]
  BY <1>4, <1>8, ShareUnfold
<1> QED BY <1>1, <1>9

LEMMA ShareNat ==
  ASSUME NEW s \in Seq(Payment), NEW a
  PROVE  ShareOf(s, a) \in Nat
<1>1. PICK f : ShareOf(s, a) = f[Len(s)] /\ IsTotal(f, Len(s), Parts(s, a))
  BY ShareIsTotal
<1>2. \A n \in 1 .. Len(s) : Parts(s, a)[n] \in Nat
  BY PartsTyped
<1> QED BY <1>1, <1>2, PartsTyped, TotalNat

(* Who is not in the list gets nothing.                                      *)
LEMMA NoShare ==
  ASSUME NEW s \in Seq(Payment), NEW a, \A n \in 1 .. Len(s) : s[n][1] # a
  PROVE  ShareOf(s, a) = 0
<1>1. PICK f : ShareOf(s, a) = f[Len(s)] /\ IsTotal(f, Len(s), Parts(s, a))
  BY ShareIsTotal
<1>2. \A n \in 1 .. Len(s) : Parts(s, a)[n] = 0
  BY PartsTyped DEF PartTo
<1> DEFINE F == {n \in 0 .. Len(s) : f[n] = 0}
<1>3. 0 \in F /\ Len(s) \in Nat
  BY <1>1, PartsTyped DEF IsTotal
<1>4. \A n \in 1 .. Len(s) : n - 1 \in F => n \in F
  BY <1>1, <1>2, <1>3 DEF IsTotal
<1>5. 0 .. Len(s) \subseteq F
  <2> HIDE DEF F
  <2> QED BY <1>3, <1>4, RangeInduction
<1> QED BY <1>1, <1>3, <1>5

(* The list of a settlement: the participants, the treasury, the dead address.*)
LEMMA OwedTyped ==
  ASSUME NEW p \in Seq(Holders \X Nat), NEW fee \in Nat \X Nat, fee[2] <= fee[1],
         revenue.treasury \in Holders
  PROVE  Owed(p, fee) \in Seq(Payment)
<1>1. Holders \X Nat \subseteq Payment
  BY HoldersAct DEF Payment
<1>2. p \in Seq(Payment)
  BY <1>1
<1>3. PICK x : x = <<revenue.treasury, fee[1] - fee[2]>>
  OBVIOUS
<1>4. PICK y : y = <<Dead, fee[2]>>
  OBVIOUS
<1>5. x \in Payment /\ y \in Payment
  BY <1>3, <1>4, HoldersAct DEF Payment
<1>6. Owed(p, fee) = p \o <<x, y>>
  BY <1>3, <1>4 DEF Owed
<1> HIDE <1>3, <1>4
<1>7. <<x, y>> \in Seq(Payment)
  BY <1>5
<1> QED BY <1>2, <1>6, <1>7

Collected(p, fee, a) ==
  ShareOf(p, a) + (IF a = revenue.treasury THEN fee[1] - fee[2] ELSE 0)
                + (IF a = Dead THEN fee[2] ELSE 0)

LEMMA OwedAddsUp ==
  ASSUME NEW p \in Seq(Holders \X Nat), NEW fee \in Nat \X Nat, fee[2] <= fee[1],
         revenue.treasury \in Holders, NEW a, NEW g,
         IsTotal(g, Len(Owed(p, fee)), Parts(Owed(p, fee), a))
  PROVE  g[Len(Owed(p, fee))] = Collected(p, fee, a)
<1>1. PICK s : s = Owed(p, fee)
  OBVIOUS
<1>2. PICK N : N = Len(p)
  OBVIOUS
<1>3. PICK x : x = <<revenue.treasury, fee[1] - fee[2]>>
  OBVIOUS
<1>4. PICK y : y = <<Dead, fee[2]>>
  OBVIOUS
<1>5. /\ x \in Payment /\ x[1] = revenue.treasury /\ x[2] = fee[1] - fee[2]
      /\ y \in Payment /\ y[1] = Dead /\ y[2] = fee[2]
  BY <1>3, <1>4, HoldersAct DEF Payment
<1>6. p \in Seq(Payment) /\ N \in Nat
  <2>1. Holders \X Nat \subseteq Payment
    BY HoldersAct DEF Payment
  <2> QED BY <1>2, <2>1
<1>7. s = p \o <<x, y>>
  BY <1>1, <1>3, <1>4 DEF Owed
<1>8. /\ s \in Seq(Payment) /\ Len(s) = N + 2 /\ s[N + 1] = x /\ s[N + 2] = y
      /\ \A n \in 1 .. N : s[n] = p[n]
  <2> HIDE <1>3, <1>4
  <2>1. <<x, y>> \in Seq(Payment) /\ Len(<<x, y>>) = 2
    BY <1>5
  <2> QED BY <1>2, <1>5, <1>6, <1>7, <2>1
<1>9. PICK f : ShareOf(p, a) = f[N] /\ IsTotal(f, N, Parts(p, a))
  BY <1>2, <1>6, ShareIsTotal
<1>10. IsTotal(g, N + 2, Parts(s, a))
  BY <1>1, <1>8
<1>11. \A n \in 1 .. N + 2 : g[n] = g[n - 1] + PartTo(s, a, n) /\ g[n - 1] \in Int
  <2>1. ASSUME NEW n \in 1 .. N + 2
        PROVE  g[n] = g[n - 1] + PartTo(s, a, n) /\ g[n - 1] \in Int
    <3>1. n \in 1 .. Len(s) /\ n - 1 \in 0 .. N + 2
      BY <1>6, <1>8
    <3>2. Parts(s, a)[n] = PartTo(s, a, n)
      BY <1>8, <3>1, PartsTyped
    <3> QED BY <1>10, <3>1, <3>2 DEF IsTotal
  <2> QED BY <2>1
<1>12. f[N] = g[N]
  <2>1. ASSUME NEW n \in 1 .. N, f[n - 1] = g[n - 1]
        PROVE  f[n] = g[n]
    <3>1. f[n] = f[n - 1] + PartTo(p, a, n)
      BY <1>2, <1>6, <1>9, PartsTyped DEF IsTotal
    <3>2. PartTo(p, a, n) = PartTo(s, a, n) /\ n \in 1 .. N + 2
      BY <1>6, <1>8 DEF PartTo
    <3> QED BY <1>11, <2>1, <3>1, <3>2
  <2>2. f[0] = g[0]
    BY <1>9, <1>10 DEF IsTotal
  <2> QED BY <1>6, <2>1, <2>2, RecursionAgrees
<1>13. g[N + 1] = g[N] + PartTo(s, a, N + 1) /\ g[N + 2] = g[N + 1] + PartTo(s, a, N + 2)
  <2>1. /\ N + 1 \in 1 .. N + 2 /\ (N + 1) - 1 = N
        /\ N + 2 \in 1 .. N + 2 /\ (N + 2) - 1 = N + 1
    BY <1>6
  <2>2. /\ g[N + 1] = g[(N + 1) - 1] + PartTo(s, a, N + 1)
        /\ g[N + 2] = g[(N + 2) - 1] + PartTo(s, a, N + 2)
    BY <1>11, <2>1
  <2> QED BY <2>1, <2>2
<1>14. /\ PartTo(s, a, N + 1) = IF a = revenue.treasury THEN fee[1] - fee[2] ELSE 0
       /\ PartTo(s, a, N + 2) = IF a = Dead THEN fee[2] ELSE 0
  BY <1>5, <1>8 DEF PartTo
<1>15. g[N] \in Int
  BY <1>6, <1>10 DEF IsTotal
<1>16. g[N + 2] = ShareOf(p, a) + PartTo(s, a, N + 1) + PartTo(s, a, N + 2)
  BY <1>9, <1>12, <1>13
<1> QED BY <1>1, <1>5, <1>8, <1>14, <1>16 DEF Collected

(* What the payments of a settlement leave, one after the other.             *)
Outcomes == [ok : BOOLEAN, ledger : Ledgers]
Paid1(o, payer, payment) ==
  IF o.ok /\ MayPull(o.ledger, Contract, payer, payment[2])
  THEN [ok |-> TRUE, ledger |-> Pulled(o.ledger, Contract, payer, payment[1], payment[2])]
  ELSE [ok |-> FALSE, ledger |-> ledger]
RunEquation(payer, s, l) ==
  l = [n \in 0 .. Len(s) |->
         IF n = 0 THEN [ok |-> TRUE, ledger |-> ledger] ELSE Paid1(l[n - 1], payer, s[n])]

LEMMA AfterUnfold ==
  ASSUME NEW payer, NEW s
  PROVE  After(payer, s) = (CHOOSE l : RunEquation(payer, s, l))[Len(s)]
BY DEF After, RunEquation, Paid1

IsPaid(r, o, payer, payment) ==
  r.ok => /\ o.ok
          /\ Held(r.ledger) = Held(o.ledger) /\ r.ledger.supply = o.ledger.supply
          /\ \A a \in Accounts : a # payer =>
               r.ledger.balance[a] = o.ledger.balance[a]
                                       + IF a = payment[1] THEN payment[2] ELSE 0

LEMMA OnePaid ==
  ASSUME ledger \in Ledgers, NEW payer \in Holders, NEW o \in Outcomes, NEW payment \in Payment
  PROVE  /\ Paid1(o, payer, payment) \in Outcomes
         /\ IsPaid(Paid1(o, payer, payment), o, payer, payment)
<1>1. PICK l : l = o.ledger
  OBVIOUS
<1>2. PICK t : t = payment[1]
  OBVIOUS
<1>3. PICK v : v = payment[2]
  OBVIOUS
<1>4. l \in Ledgers /\ t \in Accounts /\ v \in Int /\ Contract \in Spenders
  BY <1>1, <1>2, <1>3, RevenueAssumption DEF Outcomes, Payment
<1>5. PICK q : q = Pulled(l, Contract, payer, t, v)
  OBVIOUS
<1>6. /\ q \in Ledgers /\ Held(q) = Held(l) /\ q.supply = l.supply
      /\ \A a \in Accounts : a # payer => q.balance[a] = l.balance[a] + IF a = t THEN v ELSE 0
  BY <1>4, <1>5, PullKeeps DEF IsPull
<1>7. PICK r : r = Paid1(o, payer, payment)
  OBVIOUS
<1>8. \/ o.ok /\ r = [ok |-> TRUE, ledger |-> q]
      \/ r = [ok |-> FALSE, ledger |-> ledger]
  BY <1>1, <1>2, <1>3, <1>5, <1>7 DEF Paid1
<1>9. r \in Outcomes /\ (r.ok => o.ok /\ r.ledger = q)
  <2>1. CASE o.ok /\ r = [ok |-> TRUE, ledger |-> q]
    BY <1>6, <2>1 DEF Outcomes
  <2>2. CASE r = [ok |-> FALSE, ledger |-> ledger]
    <3>1. r.ok = FALSE /\ r \in Outcomes
      BY <2>2 DEF Outcomes
    <3> QED BY <3>1
  <2> QED BY <1>8, <2>1, <2>2
<1> QED BY <1>1, <1>2, <1>3, <1>6, <1>7, <1>9 DEF IsPaid

LEMMA AfterExists ==
  ASSUME ledger \in Ledgers, NEW payer \in Holders, NEW s \in Seq(Payment)
  PROVE  \E l : /\ After(payer, s) = l[Len(s)]
                /\ l \in [0 .. Len(s) -> Outcomes]
                /\ l[0] = [ok |-> TRUE, ledger |-> ledger]
                /\ \A n \in 1 .. Len(s) : l[n] = Paid1(l[n - 1], payer, s[n])
<1>1. PICK N : N = Len(s)
  OBVIOUS
<1>2. PICK first : first = [ok |-> TRUE, ledger |-> ledger]
  OBVIOUS
<1>3. N \in Nat /\ first \in Outcomes
  BY <1>1, <1>2 DEF Outcomes
<1>4. PICK step : step = [n \in 1 .. N |-> [o \in Outcomes |-> Paid1(o, payer, s[n])]]
  OBVIOUS
<1>5. \A n \in 1 .. N : s[n] \in Payment
  BY <1>1
<1>6. /\ step \in [1 .. N -> [Outcomes -> Outcomes]]
      /\ \A n \in 1 .. N, o \in Outcomes : step[n][o] = Paid1(o, payer, s[n])
  <2>1. ASSUME NEW n \in 1 .. N PROVE step[n] \in [Outcomes -> Outcomes]
    <3>1. \A o \in Outcomes : Paid1(o, payer, s[n]) \in Outcomes
      BY <1>5, OnePaid
    <3> QED BY <1>4, <3>1
  <2> QED BY <1>4, <2>1
<1>7. PICK l : IsOrbit(l, N, Outcomes, first, step)
  <2> HIDE <1>4
  <2> QED BY <1>3, <1>6, RecursionExists
<1>8. /\ l \in [0 .. N -> Outcomes] /\ l[0] = first
      /\ \A n \in 1 .. N : l[n] = Paid1(l[n - 1], payer, s[n])
  <2> HIDE <1>4
  <2>1. /\ l \in [0 .. N -> Outcomes] /\ l[0] = first
        /\ \A n \in 1 .. N : l[n] = step[n][l[n - 1]]
    BY <1>7 DEF IsOrbit
  <2>2. \A n \in 1 .. N : n - 1 \in 0 .. N /\ l[n - 1] \in Outcomes
    BY <1>3, <2>1
  <2> QED BY <1>6, <2>1, <2>2
<1>9. RunEquation(payer, s, l)
  <2> DEFINE body(n) == IF n = 0 THEN [ok |-> TRUE, ledger |-> ledger]
                        ELSE Paid1(l[n - 1], payer, s[n])
  <2>1. \A n \in 0 .. N : l[n] = body(n)
    BY <1>2, <1>3, <1>8
  <2>2. l = [n \in 0 .. N |-> l[n]]
    BY <1>8
  <2>3. [n \in 0 .. N |-> l[n]] = [n \in 0 .. N |-> body(n)]
    <3> HIDE DEF body
    <3> QED BY <2>1
  <2> QED BY <1>1, <2>2, <2>3 DEF RunEquation
<1>10. PICK h : h = CHOOSE g : RunEquation(payer, s, g)
  OBVIOUS
<1>11. RunEquation(payer, s, h)
  BY <1>9, <1>10
<1>12. /\ h[0] = [ok |-> TRUE, ledger |-> ledger]
       /\ \A n \in 1 .. N : h[n] = Paid1(h[n - 1], payer, s[n])
  <2>1. \A n \in 0 .. N :
          h[n] = IF n = 0 THEN [ok |-> TRUE, ledger |-> ledger] ELSE Paid1(h[n - 1], payer, s[n])
    BY <1>1, <1>11 DEF RunEquation
  <2>2. 0 \in 0 .. N /\ \A n \in 1 .. N : n \in 0 .. N /\ n # 0
    BY <1>3
  <2> QED BY <2>1, <2>2
<1>13. h[N] = l[N]
  <2>1. \A n \in 1 .. N : h[n - 1] = l[n - 1] => h[n] = l[n]
    BY <1>8, <1>12
  <2>2. h[0] = l[0]
    BY <1>2, <1>8, <1>12
  <2> QED BY <1>3, <2>1, <2>2, RecursionAgrees
<1>14. After(payer, s) = l[N]
  BY <1>1, <1>10, <1>13, AfterUnfold
<1> QED BY <1>1, <1>2, <1>8, <1>14

(* If all were made, everybody but the payer has what the list says.         *)
LEMMA AfterPays ==
  ASSUME ledger \in Ledgers, NEW payer \in Holders, NEW s \in Seq(Payment), After(payer, s).ok
  PROVE  /\ After(payer, s).ledger \in Ledgers
         /\ Held(After(payer, s).ledger) = Held(ledger)
         /\ After(payer, s).ledger.supply = ledger.supply
         /\ \A a \in Accounts : a # payer =>
              \A g : IsTotal(g, Len(s), Parts(s, a)) =>
                After(payer, s).ledger.balance[a] = ledger.balance[a] + g[Len(s)]
<1>1. PICK l : /\ After(payer, s) = l[Len(s)]
               /\ l \in [0 .. Len(s) -> Outcomes]
               /\ l[0] = [ok |-> TRUE, ledger |-> ledger]
               /\ \A n \in 1 .. Len(s) : l[n] = Paid1(l[n - 1], payer, s[n])
  BY AfterExists
<1>2. PICK N : N = Len(s)
  OBVIOUS
<1>3. N \in Nat /\ \A n \in 1 .. N : s[n] \in Payment /\ n - 1 \in 0 .. N
  BY <1>2
<1>4. ASSUME NEW n \in 1 .. N, l[n].ok
      PROVE  /\ l[n - 1].ok
             /\ Held(l[n].ledger) = Held(l[n - 1].ledger)
             /\ l[n].ledger.supply = l[n - 1].ledger.supply
             /\ \A a \in Accounts : a # payer =>
                  l[n].ledger.balance[a] = l[n - 1].ledger.balance[a] + PartTo(s, a, n)
  <2>1. PICK o : o = l[n - 1]
    OBVIOUS
  <2>2. PICK q : q = s[n]
    OBVIOUS
  <2>3. o \in Outcomes /\ q \in Payment /\ l[n] = Paid1(o, payer, q)
    BY <1>1, <1>2, <1>3, <2>1, <2>2
  <2>4. \A a : PartTo(s, a, n) = IF a = q[1] THEN q[2] ELSE 0
    BY <2>2 DEF PartTo
  <2>5. IsPaid(l[n], o, payer, q)
    BY <2>3, OnePaid
  <2> QED BY <1>4, <2>1, <2>4, <2>5 DEF IsPaid
<1>5. \A n \in 0 .. N : l[n].ledger \in Ledgers
  BY <1>1, <1>2 DEF Outcomes
<1> DEFINE F == {n \in 0 .. N : l[n].ok => Held(l[n].ledger) = Held(ledger)
                                          /\ l[n].ledger.supply = ledger.supply}
<1>6. N \in F
  <2>1. 0 \in F
    BY <1>1, <1>3
  <2>2. \A n \in 1 .. N : n - 1 \in F => n \in F
    BY <1>4
  <2>3. 0 .. N \subseteq F
    <3> HIDE DEF F
    <3> QED BY <1>3, <2>1, <2>2, RangeInduction
  <2> QED BY <1>3, <2>3
<1>7. ASSUME NEW a \in Accounts, NEW g, a # payer, IsTotal(g, N, Parts(s, a))
      PROVE  l[N].ledger.balance[a] = ledger.balance[a] + g[N]
  <2> DEFINE G == {n \in 0 .. N : l[n].ok => l[n].ledger.balance[a] = ledger.balance[a] + g[n]}
  <2>1. /\ g[0] = 0 /\ \A n \in 0 .. N : g[n] \in Int
        /\ \A n \in 1 .. N : g[n] = g[n - 1] + PartTo(s, a, n)
    BY <1>2, <1>7, PartsTyped DEF IsTotal
  <2>2. \A n \in 0 .. N : l[n].ledger.balance[a] \in Int
    BY <1>5 DEF Ledgers
  <2>3. 0 \in G
    <3>1. l[0].ledger = ledger
      BY <1>1
    <3> QED BY <1>3, <2>1, <2>2, <3>1
  <2>4. ASSUME NEW n \in 1 .. N, n - 1 \in G PROVE n \in G
    <3>1. SUFFICES ASSUME l[n].ok
                   PROVE  l[n].ledger.balance[a] = ledger.balance[a] + g[n]
      OBVIOUS
    <3>2. /\ l[n - 1].ledger.balance[a] = ledger.balance[a] + g[n - 1]
          /\ l[n].ledger.balance[a] = l[n - 1].ledger.balance[a] + PartTo(s, a, n)
      BY <1>4, <1>7, <2>4, <3>1
    <3>3. /\ ledger.balance[a] \in Int /\ g[n - 1] \in Int /\ PartTo(s, a, n) \in Int
          /\ g[n] = g[n - 1] + PartTo(s, a, n)
      <4>1. PartTo(s, a, n) \in Int
        <5>1. n \in 1 .. Len(s)
          BY <1>2
        <5>2. PartTo(s, a, n) \in Nat
          BY <5>1, PartsTyped
        <5> QED BY <5>2
      <4>2. ledger.balance[a] \in Int
        BY DEF Ledgers
      <4> QED BY <1>3, <2>1, <4>1, <4>2
    <3> QED BY <3>2, <3>3
  <2>5. 0 .. N \subseteq G
    <3> HIDE DEF G
    <3> QED BY <1>3, <2>3, <2>4, RangeInduction
  <2> QED BY <1>1, <1>2, <1>3, <2>5
<1>8. l[N].ok
  BY <1>1, <1>2
<1> QED BY <1>1, <1>2, <1>3, <1>5, <1>6, <1>7, <1>8

-----------------------------------------------------------------------------
(* The contract that shares revenue. What it reports burnt is at the dead    *)
(* address: a holder pays, the dead address never does.                      *)
Books == [settled : SUBSET ExecutionIds, earnings : [Holders -> Int], protocol : Nat,
          burned : Nat, settlements : Nat, treasury : Holders, owner : Holders]
RevenueInv ==
  /\ ledger \in Ledgers /\ Held(ledger) = ledger.supply
  /\ revenue \in Books
  /\ IsFiniteSet(revenue.settled) /\ revenue.settlements = Cardinality(revenue.settled)
  /\ BurnedIsDead

(* What a step may do: book nothing, or settle once what the ledger shows.   *)
Settles ==
  \/ revenue'.settlements = revenue.settlements
  \/ /\ revenue'.settlements = Cardinality(revenue'.settled)
     /\ \E payer \in Holders : \A a \in Accounts \ {payer} :
          ledger'.balance[a] - ledger.balance[a] =
              (IF a \in Holders THEN revenue'.earnings[a] - revenue.earnings[a] ELSE 0)
            + (IF a = revenue.treasury
               THEN (revenue'.protocol - revenue'.burned) - (revenue.protocol - revenue.burned)
               ELSE 0)
            + (IF a = Dead THEN revenue'.burned - revenue.burned ELSE 0)

LEMMA RevenueStarts == RevenueInit => RevenueInv
<1> SUFFICES ASSUME RevenueInit PROVE RevenueInv
  OBVIOUS
<1>1. PICK b : b = [a \in Accounts |-> IF a = FirstOwner THEN InitialSupply ELSE 0]
  OBVIOUS
<1>2. PICK w : w = [a \in Holders |-> [s \in Spenders |-> 0]]
  OBVIOUS
<1>3. ledger = [balance |-> b, allowance |-> w, supply |-> InitialSupply]
  BY <1>1, <1>2 DEF RevenueInit
<1>4. b \in [Accounts -> Int] /\ w \in [Holders -> [Spenders -> Int]] /\ FirstOwner \in Accounts
  BY <1>1, <1>2, RevenueAssumption, HoldersAct
<1>5. ledger \in Ledgers /\ ledger.balance = b /\ ledger.supply = InitialSupply
  BY <1>3, <1>4, RevenueAssumption DEF Ledgers
<1>6. SumFunctionOnSet(b, Accounts) = InitialSupply
  <2>1. PICK z : z = [a \in Accounts |-> 0]
    OBVIOUS
  <2>2. z \in [Accounts -> Int] /\ \A a \in Accounts \ {FirstOwner} : z[a] = b[a]
    BY <1>1, <2>1
  <2>3. SumFunctionOnSet(z, Accounts) = 0
    BY <2>1, AccountsFinite, SumZero
  <2>4. SumFunctionOnSet(b, Accounts)
          = SumFunctionOnSet(z, Accounts) + (b[FirstOwner] - z[FirstOwner])
    BY <1>4, <2>2, AccountsFinite, SumOneChanged
  <2>5. b[FirstOwner] = InitialSupply /\ z[FirstOwner] = 0
    BY <1>1, <1>4, <2>1
  <2> QED BY <2>3, <2>4, <2>5, RevenueAssumption
<1>7. /\ revenue \in Books /\ revenue.settled = {} /\ revenue.settlements = 0
      /\ revenue.burned = 0 /\ revenue.protocol = 0
  BY RevenueAssumption DEF RevenueInit, Books
<1>8. Cardinality({}) = 0 /\ IsFiniteSet({})
  BY FS_EmptySet
<1>9. b[Dead] >= 0
  BY <1>1, HoldersAct, RevenueAssumption
<1> QED BY <1>5, <1>6, <1>7, <1>8, <1>9 DEF RevenueInv, Held, BurnedIsDead

(* A call to the token alone.                                                *)
LEMMA TokenKeeps ==
  ASSUME RevenueInv, ledger' \in Ledgers, Held(ledger)' = ledger'.supply, revenue' = revenue,
         ledger'.balance[Dead] >= ledger.balance[Dead]
  PROVE  RevenueInv' /\ Settles
<1>1. revenue.burned \in Nat /\ ledger.balance[Dead] \in Int /\ ledger'.balance[Dead] \in Int
  BY HoldersAct DEF RevenueInv, Books, Ledgers
<1>2. revenue.burned <= ledger'.balance[Dead]
  BY <1>1 DEF RevenueInv, BurnedIsDead
<1> QED BY <1>2 DEF RevenueInv, BurnedIsDead, Settles

LEMMA OneBalance ==
  ASSUME NEW b \in Balances, NEW a \in Accounts, NEW v \in Int, NEW g \in Balances,
         g[a] = b[a] + v, \A c \in Accounts \ {a} : b[c] = g[c]
  PROVE  /\ SumFunctionOnSet(b, Accounts) \in Int
         /\ SumFunctionOnSet(g, Accounts) = SumFunctionOnSet(b, Accounts) + v
<1>1. g \in [Accounts -> Int] /\ g[a] - b[a] = v
  BY DEF Balances
<1>2. b \in [Accounts -> Int]
  BY DEF Balances
<1>3. /\ SumFunctionOnSet(b, Accounts) \in Int
      /\ SumFunctionOnSet(g, Accounts) = SumFunctionOnSet(b, Accounts) + (g[a] - b[a])
  BY <1>1, <1>2, AccountsFinite, SumOneChanged
<1> QED BY <1>1, <1>3 DEF Balances

LEMMA TokenStep ==
  ASSUME RevenueInv,
         \/ \E a \in Holders, b \in Accounts, v \in 1..MaxSupply : Transfer(a, b, v)
         \/ \E a \in Holders, s \in Spenders, v \in 0..MaxSupply : Approve(a, s, v)
         \/ \E s \in Spenders \cap Holders, a \in Holders, b \in Accounts, v \in 1..MaxSupply :
              TransferFrom(s, a, b, v)
         \/ \E a \in Holders, b \in Accounts, v \in 1..MaxSupply : Mint(a, b, v)
         \/ \E a \in Holders, v \in 1..MaxSupply : BurnTokens(a, v)
  PROVE  RevenueInv' /\ Settles
<1>0. /\ ledger \in Ledgers /\ ledger.balance \in Balances /\ ledger.supply \in Int
      /\ ledger.allowance \in [Holders -> [Spenders -> Int]]
      /\ Held(ledger) = ledger.supply /\ MaxSupply \in Nat /\ Dead \in Accounts \ Holders
  BY RevenueAssumption, HoldersAct DEF RevenueInv, Ledgers, Balances
<1>d. ledger.balance[Dead] \in Int
  BY <1>0 DEF Balances
<1>1. ASSUME NEW a \in Holders, NEW b \in Accounts, NEW v \in 1..MaxSupply, Transfer(a, b, v)
      PROVE  RevenueInv' /\ Settles
  <2>1. PICK c : c = ledger.balance
    OBVIOUS
  <2>2. PICK g : g = Moved(c, a, b, v)
    OBVIOUS
  <2>3. PaidFrom(g, c, a, b, v) /\ v \in Nat
    BY <1>0, <2>1, <2>2, HoldersAct, TransferKeeps
  <2>4. ledger' = [ledger EXCEPT !.balance = g] /\ revenue' = revenue
    BY <1>1, <2>1, <2>2 DEF Transfer
  <2>5. /\ ledger' \in Ledgers /\ ledger'.balance = g /\ ledger'.supply = ledger.supply
    BY <1>0, <2>3, <2>4 DEF PaidFrom, Balances, Ledgers
  <2>6. g[Dead] >= c[Dead]
    BY <1>0, <1>d, <2>1, <2>3 DEF PaidFrom
  <2>7. Held(ledger)' = ledger'.supply
    BY <1>0, <2>1, <2>3, <2>5 DEF Held, PaidFrom
  <2> QED BY <2>1, <2>4, <2>5, <2>6, <2>7, TokenKeeps
<1>2. ASSUME NEW a \in Holders, NEW s \in Spenders, NEW v \in 0..MaxSupply, Approve(a, s, v)
      PROVE  RevenueInv' /\ Settles
  <2>1. PICK w : w = [ledger.allowance EXCEPT ![a][s] = v]
    OBVIOUS
  <2>2. w \in [Holders -> [Spenders -> Int]]
    BY <1>0, <2>1
  <2>3. ledger' = [ledger EXCEPT !.allowance = w] /\ revenue' = revenue
    BY <1>2, <2>1 DEF Approve
  <2>4. /\ ledger' \in Ledgers /\ ledger'.balance = ledger.balance
        /\ ledger'.supply = ledger.supply
    BY <1>0, <2>2, <2>3 DEF Ledgers
  <2>5. Held(ledger)' = ledger'.supply
    BY <1>0, <2>4 DEF Held
  <2> QED BY <1>d, <2>3, <2>4, <2>5, TokenKeeps
<1>3. ASSUME NEW s \in Spenders \cap Holders, NEW a \in Holders, NEW b \in Accounts,
             NEW v \in 1..MaxSupply, TransferFrom(s, a, b, v)
      PROVE  RevenueInv' /\ Settles
  <2>1. PICK l : l = ledger
    OBVIOUS
  <2>2. ledger' = Pulled(l, s, a, b, v) /\ revenue' = revenue /\ l \in Ledgers /\ v \in Nat
    BY <1>0, <1>3, <2>1 DEF TransferFrom
  <2>3. /\ Pulled(l, s, a, b, v) \in Ledgers
        /\ IsPull(Pulled(l, s, a, b, v), l, a, b, v)
    BY <2>2, PullKeeps
  <2>4. ledger' \in Ledgers /\ ledger'.supply = ledger.supply
    BY <2>1, <2>2, <2>3 DEF IsPull
  <2>5. ledger'.balance[Dead] >= ledger.balance[Dead]
    BY <1>0, <1>d, <2>1, <2>2, <2>3 DEF IsPull
  <2>6. Held(ledger)' = ledger'.supply
    BY <1>0, <2>1, <2>2, <2>3 DEF IsPull
  <2> QED BY <2>2, <2>4, <2>5, <2>6, TokenKeeps
<1>4. ASSUME NEW a \in Holders, NEW b \in Accounts, NEW v \in 1..MaxSupply, Mint(a, b, v)
      PROVE  RevenueInv' /\ Settles
  <2>1. PICK c : c = ledger.balance
    OBVIOUS
  <2>2. PICK g : g = [c EXCEPT ![b] = @ + v]
    OBVIOUS
  <2>3. ledger' = [ledger EXCEPT !.supply = @ + v, !.balance = g] /\ revenue' = revenue
    BY <1>4, <2>1, <2>2 DEF Mint
  <2>4. /\ g \in Balances
        /\ SumFunctionOnSet(g, Accounts) = SumFunctionOnSet(c, Accounts) + v
    <3>1. g \in Balances /\ g[b] = c[b] + v /\ \A x \in Accounts \ {b} : c[x] = g[x]
      BY <1>0, <2>1, <2>2 DEF Balances
    <3> HIDE <2>2
    <3> QED BY <1>0, <2>1, <3>1, OneBalance
  <2>5. /\ ledger' \in Ledgers /\ ledger'.balance = g /\ ledger'.supply = ledger.supply + v
    <3>1. PICK w : w = ledger.supply + v
      OBVIOUS
    <3>2. w \in Int
      BY <1>0, <3>1
    <3>3. ledger' = [ledger EXCEPT !.supply = w, !.balance = g]
      BY <2>3, <3>1
    <3> QED BY <1>0, <2>4, <3>1, <3>2, <3>3 DEF Balances, Ledgers
  <2>6. g[Dead] >= c[Dead]
    BY <1>0, <1>d, <2>1, <2>2 DEF Balances
  <2>7. Held(ledger)' = ledger'.supply
    BY <1>0, <2>1, <2>4, <2>5 DEF Held
  <2> QED BY <2>1, <2>3, <2>5, <2>6, <2>7, TokenKeeps
<1>5. ASSUME NEW a \in Holders, NEW v \in 1..MaxSupply, BurnTokens(a, v)
      PROVE  RevenueInv' /\ Settles
  <2>1. PICK c : c = ledger.balance
    OBVIOUS
  <2>2. PICK g : g = [c EXCEPT ![a] = @ - v]
    OBVIOUS
  <2>3. ledger' = [ledger EXCEPT !.supply = @ - v, !.balance = g] /\ revenue' = revenue
    BY <1>5, <2>1, <2>2 DEF BurnTokens
  <2>4. /\ g \in Balances /\ SumFunctionOnSet(c, Accounts) \in Int
        /\ SumFunctionOnSet(g, Accounts) = SumFunctionOnSet(c, Accounts) - v
    <3>1. a \in Accounts /\ c[a] \in Int /\ c[a] - v = c[a] + (0 - v) /\ 0 - v \in Int
      BY <1>0, <2>1, HoldersAct DEF Balances
    <3>2. g \in Balances /\ g[a] = c[a] + (0 - v) /\ \A x \in Accounts \ {a} : c[x] = g[x]
      BY <1>0, <2>1, <2>2, <3>1 DEF Balances
    <3>3. /\ g \in Balances /\ SumFunctionOnSet(c, Accounts) \in Int
          /\ SumFunctionOnSet(g, Accounts) = SumFunctionOnSet(c, Accounts) + (0 - v)
      BY <1>0, <2>1, <3>1, <3>2, OneBalance
    <3> QED BY <3>3
  <2>5. /\ ledger' \in Ledgers /\ ledger'.balance = g /\ ledger'.supply = ledger.supply - v
    <3>1. PICK w : w = ledger.supply - v
      OBVIOUS
    <3>2. w \in Int
      BY <1>0, <3>1
    <3>3. ledger' = [ledger EXCEPT !.supply = w, !.balance = g]
      BY <2>3, <3>1
    <3> QED BY <1>0, <2>4, <3>1, <3>2, <3>3 DEF Balances, Ledgers
  <2>6. g[Dead] = c[Dead]
    BY <1>0, <2>1, <2>2 DEF Balances
  <2>7. Held(ledger)' = ledger'.supply
    BY <1>0, <2>1, <2>4, <2>5 DEF Held
  <2> QED BY <1>d, <2>1, <2>3, <2>5, <2>6, <2>7, TokenKeeps
<1> QED BY <1>1, <1>2, <1>3, <1>4, <1>5

LEMMA SettlementPays ==
  ASSUME RevenueInv, NEW payer \in Holders, NEW e \in ExecutionIds, NEW p \in Payouts,
         NEW fee \in Fees, SettleExecution(payer, e, p, fee)
  PROVE  /\ ledger' \in Ledgers /\ Held(ledger)' = ledger'.supply
         /\ fee[1] \in Nat /\ fee[2] \in Nat /\ fee[2] <= fee[1]
         /\ \A a \in Accounts : a # payer =>
              /\ ShareOf(p, a) \in Nat
              /\ ledger'.balance[a] = ledger.balance[a] + ShareOf(p, a)
                   + (IF a = revenue.treasury THEN fee[1] - fee[2] ELSE 0)
                   + (IF a = Dead THEN fee[2] ELSE 0)
              /\ a \notin Holders => ShareOf(p, a) = 0
<1>1. /\ p \in Seq(Holders \X Nat) /\ fee \in Nat \X Nat /\ fee[2] <= fee[1]
      /\ revenue.treasury \in Holders /\ ledger \in Ledgers
  BY RevenueAssumption DEF SettleExecution, RevenueInv, Books
<1>2. PICK s : s = Owed(p, fee)
  OBVIOUS
<1>3. After(payer, s).ok /\ ledger' = After(payer, s).ledger
  BY <1>2 DEF SettleExecution
<1>4. s \in Seq(Payment)
  BY <1>1, <1>2, OwedTyped
<1>5. /\ ledger' \in Ledgers /\ Held(ledger') = Held(ledger) /\ ledger'.supply = ledger.supply
      /\ \A a \in Accounts : a # payer => \A g : IsTotal(g, Len(s), Parts(s, a)) =>
           ledger'.balance[a] = ledger.balance[a] + g[Len(s)]
  BY <1>1, <1>3, <1>4, AfterPays
<1>6. Held(ledger)' = ledger'.supply
  BY <1>5 DEF RevenueInv, Held
<1>7. p \in Seq(Payment)
  <2>1. Holders \X Nat \subseteq Payment
    BY HoldersAct DEF Payment
  <2> QED BY <1>1, <2>1
<1>8. ASSUME NEW a \in Accounts, a # payer
      PROVE  /\ ShareOf(p, a) \in Nat
             /\ ledger'.balance[a] = ledger.balance[a] + ShareOf(p, a)
                  + (IF a = revenue.treasury THEN fee[1] - fee[2] ELSE 0)
                  + (IF a = Dead THEN fee[2] ELSE 0)
             /\ a \notin Holders => ShareOf(p, a) = 0
  <2>1. PICK g : IsTotal(g, Len(s), Parts(s, a))
    BY <1>4, PartsTotal
  <2>2. /\ ledger'.balance[a] = ledger.balance[a] + g[Len(s)]
        /\ g[Len(s)] = Collected(p, fee, a)
    <3>1. IsTotal(g, Len(Owed(p, fee)), Parts(Owed(p, fee), a))
      BY <1>2, <2>1, Zenon
    <3>2. g[Len(Owed(p, fee))] = Collected(p, fee, a)
      BY <1>1, <3>1, OwedAddsUp
    <3>3. g[Len(s)] = Collected(p, fee, a)
      BY <1>2, <3>2, Zenon
    <3>4. ledger'.balance[a] = ledger.balance[a] + g[Len(s)]
      BY <1>5, <1>8, <2>1, Zenon
    <3> QED BY <3>3, <3>4
  <2>3. ShareOf(p, a) \in Nat
    BY <1>7, ShareNat
  <2>4. ASSUME a \notin Holders PROVE ShareOf(p, a) = 0
    <3>1. \A n \in 1 .. Len(p) : p[n][1] # a
      BY <1>1, <2>4
    <3> QED BY <1>7, <3>1, NoShare
  <2>5. ledger.balance[a] \in Int /\ fee[1] - fee[2] \in Int /\ fee[2] \in Int
    BY <1>1 DEF Ledgers
  <2> QED BY <2>2, <2>3, <2>4, <2>5 DEF Collected
<1> QED BY <1>1, <1>5, <1>6, <1>8

LEMMA SettlementKeeps ==
  ASSUME RevenueInv, NEW payer \in Holders, NEW e \in ExecutionIds, NEW p \in Payouts,
         NEW fee \in Fees, SettleExecution(payer, e, p, fee)
  PROVE  RevenueInv' /\ Settles
<1>1. PICK m : m = fee[1]
  OBVIOUS
<1>2. PICK n : n = fee[2]
  OBVIOUS
<1>3. /\ ledger' \in Ledgers /\ Held(ledger)' = ledger'.supply
      /\ m \in Nat /\ n \in Nat /\ n <= m
      /\ \A a \in Accounts : a # payer =>
           /\ ShareOf(p, a) \in Nat
           /\ ledger'.balance[a] = ledger.balance[a] + ShareOf(p, a)
                + (IF a = revenue.treasury THEN m - n ELSE 0)
                + (IF a = Dead THEN n ELSE 0)
           /\ a \notin Holders => ShareOf(p, a) = 0
  BY <1>1, <1>2, SettlementPays
<1>4. PICK earned : earned = [a \in Holders |-> revenue.earnings[a] + ShareOf(p, a)]
  OBVIOUS
<1>5. /\ revenue \in Books /\ e \notin revenue.settled
      /\ IsFiniteSet(revenue.settled) /\ revenue.settlements = Cardinality(revenue.settled)
      /\ revenue.burned <= ledger.balance[Dead] /\ revenue.burned <= revenue.protocol
      /\ revenue' = [revenue EXCEPT !.settled = @ \cup {e}, !.settlements = @ + 1,
                                    !.protocol = @ + m, !.burned = @ + n,
                                    !.earnings = earned]
  BY <1>1, <1>2, <1>4 DEF SettleExecution, Unsettled, RevenueInv, BurnedIsDead
<1>6. /\ p \in Seq(Payment) /\ \A a \in Holders : ShareOf(p, a) \in Nat
  <2>1. Holders \X Nat \subseteq Payment /\ p \in Seq(Holders \X Nat)
    BY HoldersAct, RevenueAssumption DEF Payment
  <2>2. p \in Seq(Payment)
    BY <2>1
  <2> QED BY <2>2, ShareNat
<1>7. earned \in [Holders -> Int]
  BY <1>4, <1>5, <1>6 DEF Books
<1>8. /\ revenue'.settled = revenue.settled \cup {e}
      /\ revenue'.settlements = revenue.settlements + 1
      /\ revenue'.protocol = revenue.protocol + m /\ revenue'.burned = revenue.burned + n
      /\ revenue'.earnings = earned /\ revenue'.treasury = revenue.treasury
      /\ revenue'.owner = revenue.owner
      /\ DOMAIN revenue' = DOMAIN revenue
  <2> HIDE <1>4
  <2> QED BY <1>5 DEF Books
<1>9. /\ revenue.protocol \in Nat /\ revenue.burned \in Nat /\ revenue.settlements \in Nat
      /\ revenue.treasury \in Holders /\ revenue.owner \in Holders
      /\ revenue.settled \subseteq ExecutionIds
  BY <1>5 DEF Books
<1>10. revenue' \in Books
  <2> HIDE <1>4
  <2>1. /\ revenue.protocol + m \in Nat /\ revenue.burned + n \in Nat
        /\ revenue.settlements + 1 \in Nat
    BY <1>3, <1>9
  <2>2. revenue.settled \cup {e} \subseteq ExecutionIds
    BY <1>9
  <2> QED BY <1>5, <1>7, <2>1, <2>2 DEF Books
<1>11. IsFiniteSet(revenue'.settled) /\ revenue'.settlements = Cardinality(revenue'.settled)
  <2>1. PICK S : S = revenue.settled
    OBVIOUS
  <2>2. IsFiniteSet(S \cup {e}) /\ Cardinality(S \cup {e}) = Cardinality(S) + 1
    BY <1>5, <2>1, FS_AddElement
  <2> HIDE <1>4
  <2> QED BY <1>5, <1>8, <2>1, <2>2
<1>12. BurnedIsDead'
  <2>1. Dead \in Accounts /\ Dead # payer /\ Dead \notin Holders
    BY HoldersAct, RevenueAssumption
  <2>2. ledger'.balance[Dead] = ledger.balance[Dead] + n
    <3>1. ledger.balance[Dead] \in Int
      BY <2>1 DEF RevenueInv, Ledgers
    <3> QED BY <1>3, <1>9, <2>1, <3>1
  <2>3. ledger.balance[Dead] \in Int
    BY <2>1 DEF RevenueInv, Ledgers
  <2> QED BY <1>3, <1>5, <1>8, <1>9, <2>2, <2>3 DEF BurnedIsDead
<1>13. ASSUME NEW a \in Accounts \ {payer}
       PROVE  ledger'.balance[a] - ledger.balance[a] =
                  (IF a \in Holders THEN revenue'.earnings[a] - revenue.earnings[a] ELSE 0)
                + (IF a = revenue.treasury
                   THEN (revenue'.protocol - revenue'.burned) - (revenue.protocol - revenue.burned)
                   ELSE 0)
                + (IF a = Dead THEN revenue'.burned - revenue.burned ELSE 0)
  <2>1. /\ ledger'.balance[a] = ledger.balance[a] + ShareOf(p, a)
             + (IF a = revenue.treasury THEN m - n ELSE 0)
             + (IF a = Dead THEN n ELSE 0)
        /\ ShareOf(p, a) \in Nat /\ (a \notin Holders => ShareOf(p, a) = 0)
    BY <1>3
  <2>2. ledger.balance[a] \in Int
    BY DEF RevenueInv, Ledgers
  <2>3. (IF a \in Holders THEN revenue'.earnings[a] - revenue.earnings[a] ELSE 0) = ShareOf(p, a)
    <3>1. CASE a \in Holders
      <4>1. revenue.earnings[a] \in Int
        BY <1>5, <3>1 DEF Books
      <4>2. revenue'.earnings[a] = revenue.earnings[a] + ShareOf(p, a)
        BY <1>4, <1>8, <3>1
      <4> QED BY <2>1, <3>1, <4>1, <4>2
    <3>2. CASE a \notin Holders
      BY <2>1, <3>2
    <3> QED BY <3>1, <3>2
  <2>4. /\ (revenue'.protocol - revenue'.burned) - (revenue.protocol - revenue.burned) = m - n
        /\ revenue'.burned - revenue.burned = n
    BY <1>3, <1>8, <1>9
  <2> HIDE <1>4
  <2> QED BY <1>3, <2>1, <2>2, <2>3, <2>4
<1> QED BY <1>3, <1>10, <1>11, <1>12, <1>13 DEF RevenueInv, Settles

LEMMA RevenueStep ==
  ASSUME RevenueInv, RevenueNext \/ UNCHANGED revenueVars
  PROVE  RevenueInv' /\ Settles
<1>1. ASSUME NEW a \in Holders, NEW b \in Holders,
             SetTreasury(a, b) \/ TransferRevenueOwnership(a, b)
      PROVE  RevenueInv' /\ Settles
  <2>1. /\ ledger' = ledger
        /\ revenue' = [revenue EXCEPT !.treasury = b] \/ revenue' = [revenue EXCEPT !.owner = b]
    BY <1>1 DEF SetTreasury, TransferRevenueOwnership
  <2>2. /\ revenue' \in Books /\ revenue'.settled = revenue.settled
        /\ revenue'.settlements = revenue.settlements
        /\ revenue'.burned = revenue.burned /\ revenue'.protocol = revenue.protocol
    BY <2>1 DEF RevenueInv, Books
  <2> QED BY <2>1, <2>2 DEF RevenueInv, Held, BurnedIsDead, Settles
<1>2. ASSUME NEW a \in Holders, NEW e \in ExecutionIds, NEW p \in Payouts, NEW f \in Fees,
             SettleExecution(a, e, p, f)
      PROVE  RevenueInv' /\ Settles
  BY <1>2, SettlementKeeps
<1>3. CASE (\E a, b \in Holders : TransferTokenOwnership(a, b)) \/ UNCHANGED revenueVars
  BY <1>3 DEF TransferTokenOwnership, revenueVars, RevenueInv, Held, BurnedIsDead, Settles
<1> QED BY <1>1, <1>2, <1>3, TokenStep DEF RevenueNext

LEMMA RevenueSound == RevenueInv => SupplyIsHeld /\ BurnedIsDead
  BY HeldIsSummed DEF RevenueInv, SupplyIsHeld

-----------------------------------------------------------------------------
(* The trust scores. Agents are registered once, and a ranking picks of those *)
(* it has not picked yet the best.                                           *)
Distinct(s) == \A i, j \in 1 .. Len(s) : s[i] = s[j] => i = j
TrustInv ==
  /\ agentIds \in Seq(AgentHashes) /\ Distinct(agentIds)
  /\ scores \in [AgentHashes -> 0 .. MaxScore]

ScoreAt(i) == scores[agentIds[i]]
Count == Len(agentIds)

LEMMA DistinctCount ==
  ASSUME NEW S, NEW s \in Seq(S), Distinct(s)
  PROVE  IsFiniteSet(ToSet(s)) /\ Cardinality(ToSet(s)) = Len(s)
<1>1. Len(s) \in Nat /\ DOMAIN s = 1 .. Len(s)
  OBVIOUS
<1>2. s \in [1 .. Len(s) -> ToSet(s)]
  <2>1. \A i \in 1 .. Len(s) : s[i] \in ToSet(s)
    BY <1>1 DEF ToSet
  <2>2. s = [i \in 1 .. Len(s) |-> s[i]]
    OBVIOUS
  <2> QED BY <2>1, <2>2
<1>3. s \in Bijection(1 .. Len(s), ToSet(s))
  <2>1. \A t \in ToSet(s) : \E i \in 1 .. Len(s) : s[i] = t
    BY <1>1 DEF ToSet
  <2> QED BY <1>2, <2>1 DEF Distinct, Bijection, Injection, Surjection, IsInjective
<1>4. ExistsBijection(1 .. Len(s), ToSet(s))
  BY <1>3 DEF ExistsBijection
<1> QED BY <1>1, <1>4, FS_CountingElements, FS_NatBijection

LEMMA ScoreTyped ==
  ASSUME TrustInv
  PROVE  /\ Count \in Nat /\ DOMAIN agentIds = 1 .. Count
         /\ \A i \in 1 .. Count : ScoreAt(i) \in 0 .. MaxScore
<1>1. \A i \in 1 .. Count : agentIds[i] \in AgentHashes
  BY DEF TrustInv, Count
<1> QED BY <1>1 DEF TrustInv, Count, ScoreAt

(* The first of the best of any agents.                                      *)
IsBest(i, left) ==
  i \in left /\ \A j \in left : \/ ScoreAt(j) < ScoreAt(i)
                                \/ ScoreAt(j) = ScoreAt(i) /\ i <= j

LEMMA BestExists ==
  ASSUME TrustInv, NEW left \in SUBSET (1 .. Count), left # {}
  PROVE  \E i : IsBest(i, left)
<1>1. \A i \in left : i \in Nat /\ ScoreAt(i) \in Nat /\ ScoreAt(i) <= MaxScore
  BY ScoreTyped, TrustScoresAssumption
<1> DEFINE V == {m \in Nat : \E i \in left : m = MaxScore - ScoreAt(i)}
<1>2. V \in SUBSET Nat /\ V # {}
  <2>1. \A i \in left : MaxScore - ScoreAt(i) \in V
    BY <1>1, TrustScoresAssumption
  <2> QED BY <2>1
<1>3. PICK m \in V : \A k \in V : m <= k
  <2> HIDE DEF V
  <2> QED BY <1>2, LeastNumber
<1>4. \A j \in left : m <= MaxScore - ScoreAt(j)
  BY <1>1, <1>3, TrustScoresAssumption
<1> DEFINE W == {i \in left : m = MaxScore - ScoreAt(i)}
<1>5. W \in SUBSET Nat /\ W # {}
  BY <1>1, <1>3
<1>6. PICK i \in W : \A j \in W : i <= j
  <2> HIDE DEF W
  <2> QED BY <1>5, LeastNumber
<1>7. ASSUME NEW j \in left
      PROVE  \/ ScoreAt(j) < ScoreAt(i)
             \/ ScoreAt(j) = ScoreAt(i) /\ i <= j
  <2>1. CASE j \in W
    BY <1>1, <1>6, <2>1, TrustScoresAssumption
  <2>2. CASE j \notin W
    BY <1>1, <1>4, <1>6, <2>2, TrustScoresAssumption
  <2> QED BY <2>1, <2>2
<1> QED BY <1>6, <1>7 DEF IsBest

LEMMA BestIsBest ==
  ASSUME TrustInv, NEW picked, (1 .. Count) \ picked # {}
  PROVE  IsBest(Best(picked), (1 .. Count) \ picked)
<1>1. PICK left : left = (1 .. Count) \ picked
  OBVIOUS
<1>2. Best(picked) = CHOOSE i : IsBest(i, left)
  <2>1. left = DOMAIN agentIds \ picked
    BY <1>1, ScoreTyped
  <2>2. Best(picked) = CHOOSE i \in left : \A j \in left :
                         \/ scores[agentIds[j]] < scores[agentIds[i]]
                         \/ scores[agentIds[j]] = scores[agentIds[i]] /\ i <= j
    BY <2>1 DEF Best
  <2> QED BY <2>2 DEF IsBest, ScoreAt
<1>3. \E i : IsBest(i, left)
  BY <1>1, BestExists
<1> QED BY <1>1, <1>2, <1>3

(* The picks of a ranking: none twice, and none worse than one left out.     *)
Picked(s, k) ==
  /\ s \in Seq(1 .. Count) /\ Len(s) = k /\ Distinct(s)
  /\ \A m \in 1 .. k : \A j \in 1 .. Count :
       (\A q \in 1 .. m : s[q] # j) => ScoreAt(j) <= ScoreAt(s[m])

LEMMA OnePicked ==
  ASSUME TrustInv, NEW k \in Nat, k < Count, NEW s, Picked(s, k)
  PROVE  /\ Best(ToSet(s)) \in 1 .. Count
         /\ Picked(Append(s, Best(ToSet(s))), k + 1)
<1>0. /\ s \in Seq(1 .. Count) /\ Len(s) = k /\ Distinct(s) /\ Count \in Nat
      /\ ToSet(s) \subseteq 1 .. Count /\ DOMAIN s = 1 .. k
  BY ScoreTyped DEF Picked, ToSet
<1>1. (1 .. Count) \ ToSet(s) # {}
  <2>1. IsFiniteSet(1 .. Count) /\ Cardinality(1 .. Count) = Count
    BY <1>0, FS_Interval
  <2>2. Cardinality(ToSet(s)) = k
    BY <1>0, DistinctCount
  <2>3. ToSet(s) # 1 .. Count
    BY <1>0, <2>1, <2>2
  <2> QED BY <1>0, <2>3
<1>2. PICK b : b = Best(ToSet(s))
  OBVIOUS
<1>3. IsBest(b, (1 .. Count) \ ToSet(s))
  BY <1>1, <1>2, BestIsBest
<1>4. /\ b \in 1 .. Count /\ b \notin ToSet(s)
      /\ \A j \in 1 .. Count : j \notin ToSet(s) => ScoreAt(j) <= ScoreAt(b)
  <2>1. \A j \in 1 .. Count : ScoreAt(j) \in Nat
    BY ScoreTyped
  <2> QED BY <1>3, <2>1 DEF IsBest
<1>5. PICK t : t = Append(s, b)
  OBVIOUS
<1>6. /\ t \in Seq(1 .. Count) /\ Len(t) = k + 1 /\ t[k + 1] = b
      /\ \A i \in 1 .. k : t[i] = s[i]
  BY <1>0, <1>4, <1>5
<1>7. \A i \in 1 .. k : s[i] \in ToSet(s) /\ s[i] # b
  BY <1>0, <1>4 DEF ToSet
<1>8. Distinct(t)
  <2> SUFFICES ASSUME NEW i \in 1 .. k + 1, NEW j \in 1 .. k + 1, t[i] = t[j]
               PROVE  i = j
    BY <1>6 DEF Distinct
  <2>1. (i \in 1 .. k \/ i = k + 1) /\ (j \in 1 .. k \/ j = k + 1)
    OBVIOUS
  <2> QED BY <1>0, <1>6, <1>7, <2>1 DEF Distinct
<1>9. ASSUME NEW m \in 1 .. k + 1, NEW j \in 1 .. Count, \A q \in 1 .. m : t[q] # j
      PROVE  ScoreAt(j) <= ScoreAt(t[m])
  <2>1. CASE m \in 1 .. k
    <3>1. \A q \in 1 .. m : q \in 1 .. k /\ s[q] # j
      BY <1>6, <1>9, <2>1
    <3>2. ScoreAt(j) <= ScoreAt(s[m])
      BY <2>1, <3>1 DEF Picked
    <3> QED BY <1>6, <2>1, <3>2
  <2>2. CASE m = k + 1
    <3>1. j \notin ToSet(s)
      <4>1. \A q \in 1 .. k : s[q] # j
        BY <1>6, <1>9, <2>2
      <4> QED BY <1>0, <4>1 DEF ToSet
    <3> QED BY <1>4, <1>6, <2>2, <3>1
  <2> QED BY <2>1, <2>2
<1> QED BY <1>2, <1>4, <1>5, <1>6, <1>8, <1>9 DEF Picked

PickEquation(n, g) ==
  g = [k \in 0 .. n |-> IF k = 0 THEN <<>> ELSE Append(g[k - 1], Best(ToSet(g[k - 1])))]

LEMMA NonePicked == TrustInv => Picked(<<>>, 0)
<1> SUFFICES ASSUME TrustInv PROVE Picked(<<>>, 0)
  OBVIOUS
<1>1. <<>> \in Seq(1 .. Count) /\ Len(<<>>) = 0 /\ 1 .. 0 = {}
  OBVIOUS
<1> QED BY <1>1 DEF Picked, Distinct

LEMMA PicksExist ==
  ASSUME TrustInv, NEW n \in 0 .. Count
  PROVE  \E g : PickEquation(n, g)
<1> DEFINE T == Seq(1 .. Count)
           step == [k \in 1 .. n |-> [s \in T |->
                      IF Best(ToSet(s)) \in 1 .. Count THEN Append(s, Best(ToSet(s))) ELSE <<>>]]
<1>0. n \in Nat /\ n <= Count /\ Count \in Nat
  BY ScoreTyped
<1>1. <<>> \in T /\ step \in [1 .. n -> [T -> T]]
  <2>1. ASSUME NEW s \in T
        PROVE  (IF Best(ToSet(s)) \in 1 .. Count THEN Append(s, Best(ToSet(s))) ELSE <<>>) \in T
    <3>1. PICK b : b = Best(ToSet(s))
      OBVIOUS
    <3>2. <<>> \in T
      OBVIOUS
    <3>3. b \in 1 .. Count => Append(s, b) \in T
      OBVIOUS
    <3> QED BY <3>1, <3>2, <3>3
  <2> QED BY <2>1
<1>2. \A k \in 1 .. n, s \in T : Best(ToSet(s)) \in 1 .. Count =>
        step[k][s] = Append(s, Best(ToSet(s)))
  OBVIOUS
<1>3. PICK f : IsOrbit(f, n, T, <<>>, step)
  <2> HIDE DEF T, step
  <2> QED BY <1>0, <1>1, RecursionExists
<1> HIDE DEF step
<1> DEFINE F == {k \in 0 .. n : Picked(f[k], k)}
<1>4. f[0] = <<>> /\ DOMAIN f = 0 .. n /\ f = [k \in 0 .. n |-> f[k]]
  BY <1>3 DEF IsOrbit
<1>5. ASSUME NEW k \in 1 .. n, Picked(f[k - 1], k - 1)
      PROVE  f[k] = Append(f[k - 1], Best(ToSet(f[k - 1]))) /\ Picked(f[k], k)
  <2>1. k - 1 \in Nat /\ k - 1 < Count /\ k - 1 \in 0 .. n /\ (k - 1) + 1 = k
    BY <1>0
  <2>2. PICK s : s = f[k - 1]
    OBVIOUS
  <2>3. Best(ToSet(s)) \in 1 .. Count /\ Picked(Append(s, Best(ToSet(s))), k)
    BY <1>5, <2>1, <2>2, OnePicked
  <2>4. s \in T /\ f[k] = step[k][s]
    BY <1>3, <2>1, <2>2 DEF IsOrbit
  <2>5. f[k] = Append(s, Best(ToSet(s)))
    BY <1>2, <2>3, <2>4
  <2> QED BY <2>2, <2>3, <2>5
<1>6. 0 .. n \subseteq F
  <2>1. 0 \in F
    BY <1>0, <1>4, NonePicked
  <2>2. \A k \in 1 .. n : k - 1 \in F => k \in F
    BY <1>5
  <2> HIDE DEF F
  <2> QED BY <1>0, <2>1, <2>2, RangeInduction
<1>7. PickEquation(n, f)
  <2> DEFINE body(k) == IF k = 0 THEN <<>> ELSE Append(f[k - 1], Best(ToSet(f[k - 1])))
  <2>1. ASSUME NEW k \in 0 .. n PROVE f[k] = body(k)
    <3>1. CASE k = 0
      BY <1>4, <3>1
    <3>2. CASE k # 0
      <4>1. k \in 1 .. n /\ k - 1 \in 0 .. n
        BY <3>2
      <4>2. Picked(f[k - 1], k - 1)
        BY <1>6, <4>1
      <4> QED BY <1>5, <3>2, <4>1, <4>2
    <3> QED BY <3>1, <3>2
  <2>2. [k \in 0 .. n |-> f[k]] = [k \in 0 .. n |-> body(k)]
    <3> HIDE DEF body
    <3> QED BY <2>1
  <2> QED BY <1>4, <2>2 DEF PickEquation
<1> QED BY <1>7

LEMMA PicksArePicked ==
  ASSUME TrustInv, NEW n \in 0 .. Count, NEW g, PickEquation(n, g)
  PROVE  Picked(g[n], n)
<1>0. n \in Nat /\ n <= Count /\ Count \in Nat
  BY ScoreTyped
<1>1. \A k \in 0 .. n :
        g[k] = IF k = 0 THEN <<>> ELSE Append(g[k - 1], Best(ToSet(g[k - 1])))
  BY DEF PickEquation
<1> DEFINE F == {k \in 0 .. n : Picked(g[k], k)}
<1>2. 0 \in F
  BY <1>0, <1>1, NonePicked
<1>3. ASSUME NEW k \in 1 .. n, k - 1 \in F PROVE k \in F
  <2>1. k - 1 \in Nat /\ k - 1 < Count /\ (k - 1) + 1 = k /\ k \in 0 .. n /\ k # 0
    BY <1>0
  <2>2. PICK s : s = g[k - 1]
    OBVIOUS
  <2>3. Picked(Append(s, Best(ToSet(s))), k)
    BY <1>3, <2>1, <2>2, OnePicked
  <2>4. g[k] = Append(s, Best(ToSet(s)))
    BY <1>1, <2>1, <2>2
  <2> QED BY <2>1, <2>3, <2>4
<1>4. 0 .. n \subseteq F
  <2> HIDE DEF F
  <2> QED BY <1>0, <1>2, <1>3, RangeInduction
<1> QED BY <1>0, <1>4

Shown(limit) == IF limit > Count THEN Count ELSE limit

LEMMA TopUnfold ==
  ASSUME NEW limit
  PROVE  TopAgents(limit) =
           [k \in 1 .. Shown(limit) |->
              agentIds[(CHOOSE g : PickEquation(Shown(limit), g))[Shown(limit)][k]]]
BY DEF TopAgents, PickEquation, Shown, Count

LEMMA RankingSound == TrustInv => TopIsRanked
<1> SUFFICES ASSUME TrustInv, NEW limit \in 0 .. Cardinality(AgentHashes)
             PROVE  LET top == TopAgents(limit)
                        all == Cardinality(ToSet(agentIds))
                    IN  /\ Len(top) = IF limit < all THEN limit ELSE all
                        /\ Cardinality(ToSet(top)) = Len(top)
                        /\ \A i \in DOMAIN top :
                             \A h \in ToSet(agentIds) \ ToSet(SubSeq(top, 1, i)) :
                               scores[h] <= scores[top[i]]
  BY DEF TopIsRanked
<1>1. Cardinality(AgentHashes) \in Nat
  BY TrustScoresAssumption, FS_CardinalityType
<1>2. PICK n : n = Shown(limit)
  OBVIOUS
<1>3. /\ n \in 0 .. Count /\ n \in Nat /\ Count \in Nat
      /\ n = IF limit < Count THEN limit ELSE Count
  BY <1>1, <1>2, ScoreTyped DEF Shown
<1>4. PICK g : g = CHOOSE f : PickEquation(n, f)
  OBVIOUS
<1>5. PickEquation(n, g)
  BY <1>3, <1>4, PicksExist
<1>6. PICK p : p = g[n]
  OBVIOUS
<1>7. Picked(p, n)
  BY <1>3, <1>5, <1>6, PicksArePicked
<1>8. PICK top : top = TopAgents(limit)
  OBVIOUS
<1>9. top = [k \in 1 .. n |-> agentIds[p[k]]]
  BY <1>2, <1>4, <1>6, <1>8, TopUnfold
<1>10. /\ p \in Seq(1 .. Count) /\ Len(p) = n /\ Distinct(p)
       /\ \A k \in 1 .. n : p[k] \in 1 .. Count
  <2>1. p \in Seq(1 .. Count) /\ Len(p) = n /\ Distinct(p)
    BY <1>7 DEF Picked
  <2>2. ASSUME NEW k \in 1 .. n PROVE p[k] \in 1 .. Count
    <3>1. k \in 1 .. Len(p)
      BY <2>1
    <3> QED BY <2>1, <3>1, ElementOfSeq
  <2> QED BY <2>1, <2>2
<1>11. /\ agentIds \in Seq(AgentHashes) /\ Len(agentIds) = Count /\ Distinct(agentIds)
       /\ DOMAIN agentIds = 1 .. Count /\ \A i \in 1 .. Count : agentIds[i] \in AgentHashes
  BY DEF TrustInv, Count
<1>12. /\ top \in Seq(AgentHashes) /\ Len(top) = n /\ DOMAIN top = 1 .. n
       /\ \A k \in 1 .. n : top[k] = agentIds[p[k]]
  <2>1. top \in [1 .. n -> AgentHashes]
    BY <1>9, <1>10, <1>11
  <2>2. top \in Seq(AgentHashes)
    BY <1>3, <2>1, SeqDef
  <2> QED BY <1>3, <1>9, <2>1, <2>2
<1> HIDE <1>9
<1>13. Distinct(top)
  <2> SUFFICES ASSUME NEW i \in 1 .. n, NEW j \in 1 .. n, top[i] = top[j] PROVE i = j
    BY <1>12 DEF Distinct
  <2>1. agentIds[p[i]] = agentIds[p[j]] /\ p[i] \in 1 .. Count /\ p[j] \in 1 .. Count
    BY <1>10, <1>12
  <2>2. p[i] = p[j]
    BY <1>11, <2>1 DEF Distinct
  <2> QED BY <1>10, <2>2 DEF Distinct
<1>14. Cardinality(ToSet(agentIds)) = Count /\ Cardinality(ToSet(top)) = n
  BY <1>11, <1>12, <1>13, DistinctCount
<1>15. ASSUME NEW i \in 1 .. n, NEW h \in ToSet(agentIds) \ ToSet(SubSeq(top, 1, i))
       PROVE  scores[h] <= scores[top[i]]
  <2>1. PICK j \in 1 .. Count : h = agentIds[j]
    BY <1>11, <1>15 DEF ToSet
  <2>2. PICK u : u = SubSeq(top, 1, i)
    OBVIOUS
  <2>3. DOMAIN u = 1 .. i /\ \A q \in 1 .. i : u[q] = top[q]
    <3>1. i \in Nat /\ i <= Len(top) /\ 1 <= i
      BY <1>12
    <3> QED BY <1>12, <2>2, <3>1
  <2>4. ASSUME NEW q \in 1 .. i, p[q] = j PROVE FALSE
    <3>1. q \in 1 .. n /\ u[q] = h
      BY <1>12, <2>1, <2>3, <2>4
    <3>2. h \in ToSet(u)
      BY <2>3, <3>1 DEF ToSet
    <3> QED BY <2>2, <3>2
  <2>5. ScoreAt(j) <= ScoreAt(p[i])
    BY <1>7, <2>4 DEF Picked
  <2> QED BY <1>12, <2>1, <2>5 DEF ScoreAt
<1> QED BY <1>3, <1>8, <1>12, <1>14, <1>15

LEMMA TrustStarts == TrustInit => TrustInv
<1> SUFFICES ASSUME TrustInit PROVE TrustInv
  OBVIOUS
<1>1. <<>> \in Seq(AgentHashes) /\ Len(<<>>) = 0
  OBVIOUS
<1>2. scores \in [AgentHashes -> 0 .. MaxScore]
  BY TrustScoresAssumption DEF TrustInit
<1> QED BY <1>1, <1>2 DEF TrustInit, TrustInv, Distinct

LEMMA TrustStep == TrustInv /\ (TrustNext \/ UNCHANGED trustVars) => TrustInv'
<1> SUFFICES ASSUME TrustInv, TrustNext \/ UNCHANGED trustVars PROVE TrustInv'
  OBVIOUS
<1>1. ASSUME NEW a, NEW h \in AgentHashes, RegisterAgent(a, h)
      PROVE  TrustInv'
  <2>1. PICK r : r = Append(agentIds, h)
    OBVIOUS
  <2>2. /\ agentIds' = r /\ scores' = [scores EXCEPT ![h] = DefaultScore]
        /\ \A i \in DOMAIN agentIds : agentIds[i] # h
    BY <1>1, <2>1 DEF RegisterAgent, MayRegister, IsRegistered, ToSet
  <2>3. /\ agentIds \in Seq(AgentHashes) /\ Count \in Nat /\ DOMAIN agentIds = 1 .. Count
        /\ \A i, j \in 1 .. Count : agentIds[i] = agentIds[j] => i = j
    BY ScoreTyped DEF TrustInv, Distinct, Count
  <2>4. /\ r \in Seq(AgentHashes) /\ Len(r) = Count + 1 /\ r[Count + 1] = h
        /\ \A i \in 1 .. Count : r[i] = agentIds[i]
    BY <2>1, <2>3 DEF Count
  <2>5. Distinct(r)
    <3> SUFFICES ASSUME NEW i \in 1 .. Count + 1, NEW j \in 1 .. Count + 1, r[i] = r[j]
                 PROVE  i = j
      BY <2>4 DEF Distinct
    <3>1. (i \in 1 .. Count \/ i = Count + 1) /\ (j \in 1 .. Count \/ j = Count + 1)
      BY <2>3
    <3> QED BY <2>2, <2>3, <2>4, <3>1
  <2>6. scores' \in [AgentHashes -> 0 .. MaxScore]
    BY <2>2, TrustScoresAssumption DEF TrustInv
  <2> QED BY <2>2, <2>4, <2>5, <2>6 DEF TrustInv, Distinct
<1>2. ASSUME NEW a, NEW h \in AgentHashes, NEW c \in Composites, UpdateScore(a, h, c)
      PROVE  TrustInv'
  <2>1. agentIds' = agentIds /\ scores' = [scores EXCEPT ![h] = c] /\ c \in 0 .. MaxScore
    BY <1>2, TrustScoresAssumption DEF UpdateScore
  <2> QED BY <2>1 DEF TrustInv, Distinct
<1>3. CASE UNCHANGED <<agentIds, scores>>
  BY <1>3 DEF TrustInv, Distinct
<1> QED BY <1>1, <1>2, <1>3
        DEF TrustNext, trustVars, GrantUpdater, RevokeUpdater, TransferTrustOwnership

-----------------------------------------------------------------------------
(* The staking contract. A deposit, a withdrawal and a slash each change one  *)
(* validator's stake and slashes, by what the contract takes in or pays out. *)
StakeInv ==
  /\ stakes \in [Validators -> ValidatorStake] /\ slashed \in [Validators -> Nat]
  /\ held \in Int /\ now \in Nat /\ minStake \in Nat
  /\ Solvent

Backing(v) == stakes[v].amount + slashed[v]

LEMMA StakeMoves ==
  ASSUME StakeInv, NEW v \in Validators, NEW s \in ValidatorStake,
         stakes' = [stakes EXCEPT ![v] = s], slashed' \in [Validators -> Nat],
         \A u \in Validators \ {v} : slashed'[u] = slashed[u],
         held' = held + ((s.amount + slashed'[v]) - (stakes[v].amount + slashed[v])),
         UNCHANGED <<now, minStake>>
  PROVE  StakeInv'
<1>1. PICK f : f = [u \in Validators |-> stakes[u].amount + slashed[u]]
  OBVIOUS
<1>2. PICK g : g = [u \in Validators |-> stakes'[u].amount + slashed'[u]]
  OBVIOUS
<1>3. /\ stakes' \in [Validators -> ValidatorStake] /\ stakes'[v] = s
      /\ \A u \in Validators \ {v} : stakes'[u] = stakes[u]
  BY DEF StakeInv
<1>4. \A u \in Validators : /\ stakes[u].amount \in Nat /\ slashed[u] \in Nat
                           /\ stakes'[u].amount \in Nat /\ slashed'[u] \in Nat
  BY <1>3 DEF StakeInv, ValidatorStake
<1>5. f \in [Validators -> Int] /\ g \in [Validators -> Int]
  BY <1>1, <1>2, <1>4
<1>6. /\ \A u \in Validators \ {v} : f[u] = g[u]
      /\ g[v] - f[v] = (s.amount + slashed'[v]) - (stakes[v].amount + slashed[v])
      /\ g[v] - f[v] \in Int
  BY <1>1, <1>2, <1>3, <1>4
<1>7. /\ SumFunctionOnSet(f, Validators) \in Int
      /\ SumFunctionOnSet(g, Validators) = SumFunctionOnSet(f, Validators) + (g[v] - f[v])
  BY <1>5, <1>6, FiniteValidators, SumOneChanged
<1>8. held = SumFunctionOnSet(f, Validators)
  <2>1. DOMAIN f = Validators
    BY <1>1
  <2> QED BY <1>1, <2>1 DEF StakeInv, Solvent, SumFunction
<1>9. held' = SumFunctionOnSet(g, Validators)
  BY <1>6, <1>7, <1>8
<1>10. Solvent' /\ held' \in Int
  <2>1. DOMAIN g = Validators
    BY <1>2
  <2>2. SumFunctionOnSet(g, Validators) \in Int
    BY <1>6, <1>7
  <2> QED BY <1>2, <1>9, <2>1, <2>2 DEF Solvent, SumFunction
<1> QED BY <1>3, <1>10 DEF StakeInv

LEMMA StakeFields ==
  ASSUME StakeInv, NEW v \in Validators
  PROVE  \E s : /\ s = stakes[v] /\ s \in ValidatorStake
                /\ s = [amount |-> s.amount, requestedAt |-> s.requestedAt,
                        unstake |-> s.unstake, isValidator |-> s.isValidator]
                /\ s.amount \in Nat /\ s.requestedAt \in Nat /\ s.unstake \in Nat
                /\ s.isValidator \in BOOLEAN /\ slashed[v] \in Nat
                /\ held \in Int /\ now \in Nat /\ minStake \in Nat
<1>1. stakes[v] \in ValidatorStake /\ slashed[v] \in Nat
  BY DEF StakeInv
<1> QED BY <1>1 DEF ValidatorStake, StakeInv

LEMMA StakeStep == StakeInv /\ (StakingNext \/ UNCHANGED stakingVars) => StakeInv'
<1> SUFFICES ASSUME StakeInv, StakingNext \/ UNCHANGED stakingVars PROVE StakeInv'
  OBVIOUS
<1>1. ASSUME NEW v \in Validators, NEW a \in Amounts, Stake(v, a)
      PROVE  StakeInv'
  <2>1. PICK s : /\ s = stakes[v] /\ s \in ValidatorStake
                 /\ s = [amount |-> s.amount, requestedAt |-> s.requestedAt,
                         unstake |-> s.unstake, isValidator |-> s.isValidator]
                 /\ s.amount \in Nat /\ s.requestedAt \in Nat /\ s.unstake \in Nat
                 /\ s.isValidator \in BOOLEAN /\ slashed[v] \in Nat
                 /\ held \in Int /\ now \in Nat /\ minStake \in Nat
    BY StakeFields
  <2>2. a \in Nat
    BY StakingAssumption
  <2>3. PICK t : t = [s EXCEPT !.amount = s.amount + a,
                               !.isValidator = @ \/ s.amount + a >= minStake]
    OBVIOUS
  <2>4. t \in ValidatorStake /\ t.amount = s.amount + a
    <3>1. PICK b \in BOOLEAN : b = (s.isValidator \/ s.amount + a >= minStake)
      OBVIOUS
    <3>2. PICK n : n = s.amount + a
      OBVIOUS
    <3>3. n \in Nat
      BY <2>1, <2>2, <3>2
    <3>4. t = [s EXCEPT !.amount = n, !.requestedAt = s.requestedAt, !.unstake = s.unstake,
                        !.isValidator = b]
      BY <2>1, <2>3, <3>1, <3>2, Zenon DEF ValidatorStake
    <3>5. t \in ValidatorStake /\ t.amount = n
      <4> HIDE <3>1, <3>2
      <4> QED BY <2>1, <3>3, <3>4 DEF ValidatorStake
    <3> QED BY <3>2, <3>5, Zenon
  <2>5. stakes' = [stakes EXCEPT ![v] = t]
    BY <1>1, <2>1, <2>3 DEF Stake, StakeInv
  <2>6. slashed' = slashed /\ held' = held + a /\ UNCHANGED <<now, minStake>>
    BY <1>1 DEF Stake
  <2>7. held' = held + ((t.amount + slashed'[v]) - (stakes[v].amount + slashed[v]))
    BY <2>1, <2>2, <2>4, <2>6
  <2>8. slashed' \in [Validators -> Nat]
    BY <2>6 DEF StakeInv
  <2> QED BY <2>4, <2>5, <2>6, <2>7, <2>8, StakeMoves
<1>2. ASSUME NEW v \in Validators, NEW a \in Amounts, RequestUnstake(v, a)
      PROVE  StakeInv'
  <2>1. PICK s : /\ s = stakes[v] /\ s \in ValidatorStake
                 /\ s = [amount |-> s.amount, requestedAt |-> s.requestedAt,
                         unstake |-> s.unstake, isValidator |-> s.isValidator]
                 /\ s.amount \in Nat /\ s.requestedAt \in Nat /\ s.unstake \in Nat
                 /\ s.isValidator \in BOOLEAN /\ slashed[v] \in Nat
                 /\ held \in Int /\ now \in Nat /\ minStake \in Nat
    BY StakeFields
  <2>2. a \in Nat
    BY StakingAssumption
  <2>3. PICK t : t = [s EXCEPT !.requestedAt = now, !.unstake = a]
    OBVIOUS
  <2>4. t \in ValidatorStake /\ t.amount = s.amount
    BY <2>1, <2>2, <2>3 DEF ValidatorStake
  <2>5. stakes' = [stakes EXCEPT ![v] = t]
    BY <1>2, <2>1, <2>3 DEF RequestUnstake, StakeInv
  <2>6. slashed' = slashed /\ held' = held /\ UNCHANGED <<now, minStake>>
    BY <1>2 DEF RequestUnstake, ledgerVars
  <2>7. held' = held + ((t.amount + slashed'[v]) - (stakes[v].amount + slashed[v]))
    BY <2>1, <2>4, <2>6
  <2>8. slashed' \in [Validators -> Nat]
    BY <2>6 DEF StakeInv
  <2> QED BY <2>4, <2>5, <2>6, <2>7, <2>8, StakeMoves
<1>3. ASSUME NEW v \in Validators, Withdraw(v)
      PROVE  StakeInv'
  <2>1. PICK s : /\ s = stakes[v] /\ s \in ValidatorStake
                 /\ s = [amount |-> s.amount, requestedAt |-> s.requestedAt,
                         unstake |-> s.unstake, isValidator |-> s.isValidator]
                 /\ s.amount \in Nat /\ s.requestedAt \in Nat /\ s.unstake \in Nat
                 /\ s.isValidator \in BOOLEAN /\ slashed[v] \in Nat
                 /\ held \in Int /\ now \in Nat /\ minStake \in Nat
    BY StakeFields
  <2>2. s.unstake <= s.amount
    BY <1>3, <2>1 DEF Withdraw
  <2>3. PICK t : t = Withdrawn(s)
    OBVIOUS
  <2>4. t \in ValidatorStake /\ t.amount = s.amount - s.unstake
    <3>1. PICK b \in BOOLEAN : b = (s.isValidator /\ s.amount - s.unstake >= minStake)
      OBVIOUS
    <3>2. PICK n : n = s.amount - s.unstake
      OBVIOUS
    <3>3. n \in Nat
      BY <2>1, <2>2, <3>2
    <3>4. t = [s EXCEPT !.amount = n, !.requestedAt = 0, !.unstake = 0, !.isValidator = b]
      BY <2>1, <2>3, <3>1, <3>2, Zenon DEF Withdrawn
    <3>5. t \in ValidatorStake /\ t.amount = n
      <4> HIDE <3>1, <3>2
      <4> QED BY <2>1, <3>3, <3>4 DEF ValidatorStake
    <3> QED BY <3>2, <3>5, Zenon
  <2>5. stakes' = [stakes EXCEPT ![v] = t]
    BY <1>3, <2>1, <2>3 DEF Withdraw
  <2>6. slashed' = slashed /\ held' = held - s.unstake /\ UNCHANGED <<now, minStake>>
    BY <1>3, <2>1 DEF Withdraw
  <2>7. held' = held + ((t.amount + slashed'[v]) - (stakes[v].amount + slashed[v]))
    BY <2>1, <2>4, <2>6
  <2>8. slashed' \in [Validators -> Nat]
    BY <2>6 DEF StakeInv
  <2> QED BY <2>4, <2>5, <2>6, <2>7, <2>8, StakeMoves
<1>4. ASSUME NEW v \in Validators, NEW a \in Amounts, NEW who \in Owners, Slash(who, v, a)
      PROVE  StakeInv'
  <2>1. PICK s : /\ s = stakes[v] /\ s \in ValidatorStake
                 /\ s = [amount |-> s.amount, requestedAt |-> s.requestedAt,
                         unstake |-> s.unstake, isValidator |-> s.isValidator]
                 /\ s.amount \in Nat /\ s.requestedAt \in Nat /\ s.unstake \in Nat
                 /\ s.isValidator \in BOOLEAN /\ slashed[v] \in Nat
                 /\ held \in Int /\ now \in Nat /\ minStake \in Nat
    BY StakeFields
  <2>2. PICK x : x = SlashedBy(s, a)
    OBVIOUS
  <2>3. x \in Nat /\ x <= s.amount
    BY <2>1, <2>2, StakingAssumption DEF SlashedBy
  <2>4. PICK t : t = AfterSlash(s, a)
    OBVIOUS
  <2>5. t \in ValidatorStake /\ t.amount = s.amount - x
    <3>1. PICK b \in BOOLEAN : b = (s.isValidator /\ s.amount - x >= minStake)
      OBVIOUS
    <3>2. PICK n : n = s.amount - x
      OBVIOUS
    <3>3. n \in Nat
      BY <2>1, <2>3, <3>2
    <3>4. t = [s EXCEPT !.amount = n, !.requestedAt = s.requestedAt, !.unstake = s.unstake,
                        !.isValidator = b]
      BY <2>1, <2>2, <2>4, <3>1, <3>2, Zenon DEF AfterSlash
    <3>5. t \in ValidatorStake /\ t.amount = n
      <4> HIDE <3>1, <3>2
      <4> QED BY <2>1, <3>3, <3>4 DEF ValidatorStake
    <3> QED BY <3>2, <3>5, Zenon
  <2>6. /\ stakes' = [stakes EXCEPT ![v] = t] /\ slashed' = [slashed EXCEPT ![v] = @ + x]
        /\ held' = held /\ UNCHANGED <<now, minStake>>
    BY <1>4, <2>1, <2>2, <2>4 DEF Slash
  <2>7. /\ slashed' \in [Validators -> Nat] /\ slashed'[v] = slashed[v] + x
        /\ \A u \in Validators \ {v} : slashed'[u] = slashed[u]
    BY <2>1, <2>3, <2>6 DEF StakeInv
  <2>8. held' = held + ((t.amount + slashed'[v]) - (stakes[v].amount + slashed[v]))
    BY <2>1, <2>3, <2>5, <2>6, <2>7
  <2> QED BY <2>5, <2>6, <2>7, <2>8, StakeMoves
<1>5. ASSUME UNCHANGED <<stakes, held, slashed>>, now' \in Nat, minStake' \in Nat
      PROVE  StakeInv'
  BY <1>5 DEF StakeInv, Solvent
<1>6. CASE Tick \/ UNCHANGED stakingVars
  BY <1>5, <1>6 DEF Tick, stakingVars, ledgerVars, StakeInv
<1>7. ASSUME NEW who, (\E m \in MinStakes : SetMinStake(who, m))
                           \/ (\E a \in Owners : TransferStakingOwnership(who, a))
      PROVE  StakeInv'
  BY <1>5, <1>7, StakingAssumption DEF SetMinStake, TransferStakingOwnership, ledgerVars, StakeInv
<1> QED BY <1>1, <1>2, <1>3, <1>4, <1>6, <1>7 DEF StakingNext, ValidatorStep, OwnerStep

LEMMA StakeStarts == StakingInit => StakeInv
<1> SUFFICES ASSUME StakingInit PROVE StakeInv
  OBVIOUS
<1>1. PICK f : f = [u \in Validators |-> stakes[u].amount + slashed[u]]
  OBVIOUS
<1>2. \A u \in Validators : f[u] = 0
  BY <1>1 DEF StakingInit, NoStake
<1>3. SumFunctionOnSet(f, Validators) = 0 /\ DOMAIN f = Validators
  BY <1>1, <1>2, FiniteValidators, SumZero
<1>4. Solvent
  BY <1>1, <1>3 DEF StakingInit, Solvent, SumFunction
<1>5. NoStake \in ValidatorStake
  BY DEF NoStake, ValidatorStake
<1> QED BY <1>4, <1>5, StakingAssumption DEF StakingInit, StakeInv

-----------------------------------------------------------------------------
(* The contracts keep their books for any accounts, payouts, agents and      *)
(* stakes: the purse holds what was staked, the balances add up to the       *)
(* supply, a settlement moves what it books and the ranking is in order.     *)
ContractsInv == RevenueInv /\ TrustInv /\ StakeInv

LEMMA ContractsStep ==
  ASSUME ContractsInv, [Next]_vars
  PROVE  /\ RevenueNext \/ UNCHANGED revenueVars
         /\ TrustNext \/ UNCHANGED trustVars
         /\ StakingNext \/ UNCHANGED stakingVars
BY DEF Next, vars, components

THEOREM ContractsAreKept == Spec => ContractsKeepBooks
<1>1. Init => ContractsInv
  BY RevenueStarts, TrustStarts, StakeStarts DEF Init, ContractsInv
<1>2. ContractsInv /\ [Next]_vars => ContractsInv'
  BY ContractsStep, RevenueStep, TrustStep, StakeStep DEF ContractsInv
<1>3. ContractsInv => Solvent /\ SupplyIsHeld /\ BurnedIsDead /\ TopIsRanked
  BY RevenueSound, RankingSound DEF ContractsInv, StakeInv
<1>4. ContractsInv /\ [Next]_vars =>
        [revenue'.settlements > revenue.settlements =>
           /\ revenue'.settlements = Cardinality(revenue'.settled)
           /\ \E payer \in Holders : \A a \in Accounts \ {payer} :
                ledger'.balance[a] - ledger.balance[a] =
                    (IF a \in Holders THEN revenue'.earnings[a] - revenue.earnings[a] ELSE 0)
                  + (IF a = revenue.treasury
                     THEN (revenue'.protocol - revenue'.burned)
                            - (revenue.protocol - revenue.burned)
                     ELSE 0)
                  + (IF a = Dead THEN revenue'.burned - revenue.burned ELSE 0)]_revenueVars
  <2> SUFFICES ASSUME ContractsInv, [Next]_vars, revenue'.settlements > revenue.settlements
               PROVE  /\ revenue'.settlements = Cardinality(revenue'.settled)
                      /\ \E payer \in Holders : \A a \in Accounts \ {payer} :
                           ledger'.balance[a] - ledger.balance[a] =
                               (IF a \in Holders
                                THEN revenue'.earnings[a] - revenue.earnings[a] ELSE 0)
                             + (IF a = revenue.treasury
                                THEN (revenue'.protocol - revenue'.burned)
                                       - (revenue.protocol - revenue.burned)
                                ELSE 0)
                             + (IF a = Dead THEN revenue'.burned - revenue.burned ELSE 0)
    BY Zenon
  <2>1. Settles
    BY ContractsStep, RevenueStep DEF ContractsInv
  <2>2. revenue'.settlements # revenue.settlements
    BY DEF ContractsInv, RevenueInv, Books
  <2> QED BY <2>1, <2>2, Zenon DEF Settles
<1> QED BY <1>1, <1>2, <1>3, <1>4, PTL DEF Spec, ContractsKeepBooks, SettlesWhatItBooks

-----------------------------------------------------------------------------
(* Alerts. The table of the cooldowns says of each rule how long it has been *)
(* quiet; what was pruned from it has been quiet for a cooldown.             *)
QuietInv ==
  /\ quiet \in [AlertRules -> Nat]
  /\ DOMAIN fired \subseteq AlertRules
  /\ \A r \in AlertRules :
       IF r \in DOMAIN fired THEN fired[r] = quiet[r] ELSE quiet[r] >= Cooldown

LEMMA QuietStep ==
  ASSUME QuietInv, AlertsNext \/ UNCHANGED alertVars
  PROVE  /\ QuietInv'
         /\ \A r \in AlertRules : (quiet'[r] = 0 /\ quiet[r] # 0) => quiet[r] >= Cooldown
<1>1. CASE UNCHANGED <<fired, quiet>>
  BY <1>1 DEF QuietInv
<1>2. CASE Prune0
  <2>1. fired' = [r \in {s \in DOMAIN fired : fired[s] < Cooldown} |-> fired[r]] /\ quiet' = quiet
    BY <1>2 DEF Prune0, Pruned
  <2>2. QuietInv'
    BY <2>1, AlertsAssumption DEF QuietInv
  <2> QED BY <2>1, <2>2
<1>3. ASSUME NEW r \in AlertRules, CheckRule(r), ~UNCHANGED <<fired, quiet>>
      PROVE  /\ QuietInv'
             /\ \A a \in AlertRules : (quiet'[a] = 0 /\ quiet[a] # 0) => quiet[a] >= Cooldown
  <2>1. /\ MayFire(r) /\ fired' = Recorded0(fired, r)
        /\ quiet' = [quiet EXCEPT ![r] = 0]
    BY <1>3 DEF CheckRule, Processed
  <2>2. quiet[r] >= Cooldown
    BY <2>1 DEF MayFire, QuietInv
  <2>3. fired' = [s \in DOMAIN fired \cup {r} |-> IF s = r THEN 0 ELSE fired[s]]
    BY <2>1 DEF Recorded0
  <2>4. QuietInv'
    BY <2>1, <2>3 DEF QuietInv
  <2> QED BY <2>1, <2>2, <2>4 DEF QuietInv
<1>4. CASE AlertsTick
  <2>1. /\ fired' = [r \in DOMAIN fired |-> Older(fired[r])]
        /\ quiet' = [r \in AlertRules |-> Older(quiet[r])]
    BY <1>4 DEF AlertsTick
  <2>2. \A n \in Nat : Older(n) \in Nat /\ Older(n) >= n /\ (Older(n) = 0 => n = 0)
    BY AlertsAssumption DEF Older
  <2>3. QuietInv'
    BY <2>1, <2>2, AlertsAssumption DEF QuietInv
  <2> QED BY <2>1, <2>2, <2>3 DEF QuietInv
<1>5. AlertsNext => \/ Prune0 \/ AlertsTick \/ UNCHANGED <<fired, quiet>>
                    \/ \E r \in AlertRules : CheckRule(r)
  BY DEF AlertsNext, CheckerStep, SaveRule, DeleteRule, StartChecker, LoopTop, Rest, Wake,
         Shutdown, MetricMoves
<1> QED BY <1>1, <1>2, <1>3, <1>4, <1>5 DEF alertVars

(* However sweeps, pruning and metrics interleave, and whatever the cooldown *)
(* and the interval, a rule is not announced twice within its cooldown.      *)
THEOREM CooldownIsRespected == Spec => CooldownRespected
<1>1. Init => QuietInv
  BY AlertsAssumption DEF Init, AlertsInit, QuietInv
<1>2. [Next]_vars => AlertsNext \/ UNCHANGED alertVars
  BY DEF Next, vars, components
<1>3. QuietInv /\ [Next]_vars => QuietInv'
  BY <1>2, QuietStep
<1>4. QuietInv /\ [Next]_vars =>
        [\A r \in AlertRules : (quiet'[r] = 0 /\ quiet[r] # 0) => quiet[r] >= Cooldown]_alertVars
  BY <1>2, QuietStep
<1> QED BY <1>1, <1>3, <1>4, PTL DEF Spec, CooldownRespected

-----------------------------------------------------------------------------
(* Settlements. The sum of a sequence of numbers is its running total.       *)
SumEq(s, f) == f = [n \in 0 .. Len(s) |-> IF n = 0 THEN 0 ELSE f[n - 1] + s[n]]
LEMMA SumOfUnfold ==
  ASSUME NEW s
  PROVE  SumOf(s) = (CHOOSE f : SumEq(s, f))[Len(s)]
BY DEF SumOf, SumEq

LEMMA SumOfTotal ==
  ASSUME NEW s \in Seq(Int)
  PROVE  \E f : SumOf(s) = f[Len(s)] /\ IsTotal(f, Len(s), s)
<1>1. Len(s) \in Nat /\ \A n \in 1 .. Len(s) : s[n] \in Int
  OBVIOUS
<1>2. PICK f : IsTotal(f, Len(s), s)
  BY <1>1, RunningTotal
<1>3. SumEq(s, f)
  <2> DEFINE body(n) == IF n = 0 THEN 0 ELSE f[n - 1] + s[n]
  <2>1. \A n \in 0 .. Len(s) : f[n] = body(n)
    BY <1>1, <1>2 DEF IsTotal
  <2>2. f = [n \in 0 .. Len(s) |-> f[n]]
    BY <1>2 DEF IsTotal
  <2>3. [n \in 0 .. Len(s) |-> f[n]] = [n \in 0 .. Len(s) |-> body(n)]
    <3> HIDE DEF body
    <3> QED BY <2>1
  <2> QED BY <2>2, <2>3 DEF SumEq
<1>4. PICK h : h = CHOOSE g : SumEq(s, g)
  OBVIOUS
<1>5. SumEq(s, h)
  BY <1>3, <1>4
<1>6. \A n \in 0 .. Len(s) : h[n] = IF n = 0 THEN 0 ELSE h[n - 1] + s[n]
  BY <1>5 DEF SumEq
<1>7. h[0] = 0 /\ \A n \in 1 .. Len(s) : h[n] = h[n - 1] + s[n]
  BY <1>1, <1>6
<1>8. f[Len(s)] = h[Len(s)]
  <2>1. \A n \in 1 .. Len(s) : f[n - 1] = h[n - 1] => f[n] = h[n]
    BY <1>1, <1>2, <1>7 DEF IsTotal
  <2>2. f[0] = h[0]
    BY <1>2, <1>7 DEF IsTotal
  <2> QED BY <1>1, <2>1, <2>2, RecursionAgrees
<1>9. SumOf(s) = f[Len(s)]
  BY <1>4, <1>8, SumOfUnfold
<1> QED BY <1>2, <1>9

LEMMA SumOfInt ==
  ASSUME NEW s \in Seq(Int)
  PROVE  SumOf(s) \in Int
<1>1. PICK f : SumOf(s) = f[Len(s)] /\ IsTotal(f, Len(s), s)
  BY SumOfTotal
<1> QED BY <1>1 DEF IsTotal

LEMMA SumOfNat ==
  ASSUME NEW s \in Seq(Nat)
  PROVE  SumOf(s) \in Nat
<1>1. s \in Seq(Int) /\ Len(s) \in Nat /\ \A n \in 1 .. Len(s) : s[n] \in Nat
  OBVIOUS
<1>2. PICK f : SumOf(s) = f[Len(s)] /\ IsTotal(f, Len(s), s)
  BY <1>1, SumOfTotal
<1> QED BY <1>1, <1>2, TotalNat

LEMMA SumOfNone == SumOf(<<>>) = 0
<1>1. <<>> \in Seq(Int) /\ Len(<<>>) = 0
  OBVIOUS
<1>2. PICK f : SumOf(<<>>) = f[Len(<<>>)] /\ IsTotal(f, Len(<<>>), <<>>)
  BY <1>1, SumOfTotal
<1> QED BY <1>1, <1>2 DEF IsTotal

LEMMA SumOfAppend ==
  ASSUME NEW s \in Seq(Int), NEW x \in Int
  PROVE  SumOf(Append(s, x)) = SumOf(s) + x
<1> DEFINE r == Append(s, x)
<1>1. /\ r \in Seq(Int) /\ Len(s) \in Nat /\ Len(r) = Len(s) + 1 /\ r[Len(r)] = x
      /\ \A n \in 1 .. Len(s) : s[n] = r[n]
  OBVIOUS
<1> HIDE DEF r
<1>2. PICK f : SumOf(s) = f[Len(s)] /\ IsTotal(f, Len(s), s)
  BY SumOfTotal
<1>3. PICK h : SumOf(r) = h[Len(r)] /\ IsTotal(h, Len(r), r)
  BY <1>1, SumOfTotal
<1>4. PICK N \in Nat : N = Len(s)
  BY <1>1
<1>5. PICK M \in Nat : M = Len(r) /\ M = N + 1
  BY <1>1, <1>4
<1>6. IsTotal(f, N, s) /\ IsTotal(h, M, r) /\ \A n \in 1 .. N : s[n] = r[n]
  BY <1>1, <1>2, <1>3, <1>4, <1>5
<1>7. h[M] = f[N] + r[M]
  BY <1>5, <1>6, TotalExtended
<1> QED BY <1>1, <1>2, <1>3, <1>4, <1>5, <1>7 DEF r

(* A sum one term of which changes.                                          *)
LEMMA SumOfChanged ==
  ASSUME NEW s \in Seq(Int), NEW t \in Seq(Int), Len(s) = Len(t),
         NEW i \in 1 .. Len(s), \A n \in 1 .. Len(s) : n # i => s[n] = t[n]
  PROVE  SumOf(t) = SumOf(s) + t[i] - s[i]
<1>1. PICK f : SumOf(s) = f[Len(s)] /\ IsTotal(f, Len(s), s)
  BY SumOfTotal
<1>2. PICK h : SumOf(t) = h[Len(s)] /\ IsTotal(h, Len(s), t)
  BY SumOfTotal
<1>3. Len(s) \in Nat /\ s[i] \in Int /\ t[i] \in Int
  OBVIOUS
<1> DEFINE F == {n \in 0 .. Len(s) : h[n] = IF n < i THEN f[n] ELSE f[n] + t[i] - s[i]}
<1>4. 0 \in F
  BY <1>1, <1>2, <1>3 DEF IsTotal
<1>5. ASSUME NEW n \in 1 .. Len(s), n - 1 \in F
      PROVE  n \in F
  <2>1. f[n] = f[n - 1] + s[n] /\ h[n] = h[n - 1] + t[n]
    BY <1>1, <1>2 DEF IsTotal
  <2>2. f[n - 1] \in Int /\ h[n - 1] \in Int /\ s[n] \in Int /\ t[n] \in Int
    <3>1. n - 1 \in 0 .. Len(s) /\ s[n] \in Int /\ t[n] \in Int
      OBVIOUS
    <3>2. f \in [0 .. Len(s) -> Int] /\ h \in [0 .. Len(s) -> Int]
      BY <1>1, <1>2 DEF IsTotal
    <3> QED BY <3>1, <3>2
  <2>3. h[n - 1] = IF n - 1 < i THEN f[n - 1] ELSE f[n - 1] + t[i] - s[i]
    BY <1>5
  <2>4. CASE n = i
    BY <1>3, <2>1, <2>2, <2>3, <2>4
  <2>5. CASE n # i
    <3>1. s[n] = t[n]
      BY <2>5
    <3>2. CASE n < i
      <4>1. h[n] = f[n]
        BY <2>1, <2>2, <2>3, <3>1, <3>2
      <4> QED BY <3>2, <4>1
    <3>3. CASE ~(n < i)
      <4>1. ~(n - 1 < i)
        BY <2>5, <3>3
      <4>2. h[n - 1] = f[n - 1] + t[i] - s[i]
        BY <2>3, <4>1
      <4>3. PICK a \in Int : a = f[n - 1]
        BY <2>2
      <4>4. PICK x \in Int : x = s[n] /\ x = t[n]
        BY <2>2, <3>1
      <4>5. f[n] = a + x /\ h[n] = (a + t[i] - s[i]) + x
        BY <2>1, <4>2, <4>3, <4>4
      <4>6. h[n] = f[n] + t[i] - s[i]
        BY <1>3, <4>5
      <4> QED BY <3>3, <4>6
    <3> QED BY <3>2, <3>3
  <2> QED BY <2>4, <2>5
<1>6. 0 .. Len(s) \subseteq F
  <2> HIDE DEF F
  <2> QED BY <1>3, <1>4, <1>5, RangeInduction
<1>7. h[Len(s)] = f[Len(s)] + t[i] - s[i]
  <2>1. Len(s) \in 0 .. Len(s) /\ ~(Len(s) < i)
    BY <1>3
  <2>2. Len(s) \in F
    BY <1>6, <2>1
  <2> QED BY <2>1, <2>2
<1> QED BY <1>1, <1>2, <1>7

(* The members of a sequence that are in a set: all of them, in their order, *)
(* and nothing else.                                                         *)
Once(q) == \A i, j \in 1 .. Len(q) : q[i] = q[j] => i = j
Gathers(q, S, n, a) ==
  /\ \A i \in 1 .. Len(a) : a[i] \in S /\ \E k \in 1 .. n : q[k] = a[i]
  /\ \A k \in 1 .. n : q[k] \in S => \E i \in 1 .. Len(a) : a[i] = q[k]
  /\ Once(q) => Once(a)
AmongEq(q, S, f) ==
  f = [n \in 0 .. Len(q) |->
         IF n = 0 THEN <<>> ELSE IF q[n] \in S THEN Append(f[n - 1], q[n]) ELSE f[n - 1]]
LEMMA AmongUnfold ==
  ASSUME NEW q, NEW S
  PROVE  Among(q, S) = (CHOOSE f : AmongEq(q, S, f))[Len(q)]
BY DEF Among, AmongEq

LEMMA GathersMore ==
  ASSUME NEW T, NEW q \in Seq(T), NEW S, NEW n \in 1 .. Len(q), NEW a \in Seq(T),
         Gathers(q, S, n - 1, a)
  PROVE  /\ q[n] \in S => Gathers(q, S, n, Append(a, q[n]))
         /\ q[n] \notin S => Gathers(q, S, n, a)
<1>1. /\ \A k \in 1 .. n - 1 : k \in 1 .. n
      /\ \A k \in 1 .. n : k = n \/ k \in 1 .. n - 1
      /\ n \in 1 .. n /\ Len(q) \in Nat /\ q[n] \in T /\ ~(n \in 1 .. n - 1)
  OBVIOUS
<1>2. ASSUME q[n] \notin S  PROVE Gathers(q, S, n, a)
  BY <1>1, <1>2 DEF Gathers
<1>3. ASSUME q[n] \in S  PROVE Gathers(q, S, n, Append(a, q[n]))
  <2> DEFINE b == Append(a, q[n])
  <2>1. /\ b \in Seq(T) /\ Len(a) \in Nat /\ Len(b) = Len(a) + 1 /\ b[Len(b)] = q[n]
        /\ \A i \in 1 .. Len(a) : b[i] = a[i] /\ i \in 1 .. Len(b)
        /\ \A i \in 1 .. Len(b) : i \in 1 .. Len(a) \/ i = Len(b)
        /\ Len(b) \in 1 .. Len(b)
    BY <1>1
  <2> HIDE DEF b
  <2>2. \A i \in 1 .. Len(b) : b[i] \in S /\ \E k \in 1 .. n : q[k] = b[i]
    BY <1>1, <1>3, <2>1 DEF Gathers
  <2>3. \A k \in 1 .. n : q[k] \in S => \E i \in 1 .. Len(b) : b[i] = q[k]
    BY <1>1, <2>1 DEF Gathers
  <2>4. ASSUME Once(q)  PROVE Once(b)
    <3>1. Once(a)
      BY <2>4 DEF Gathers
    <3>2. \A i \in 1 .. Len(a) : a[i] # q[n]
      <4> SUFFICES ASSUME NEW i \in 1 .. Len(a), a[i] = q[n] PROVE FALSE
        OBVIOUS
      <4>1. PICK k \in 1 .. n - 1 : q[k] = a[i]
        BY DEF Gathers
      <4>2. k \in 1 .. Len(q) /\ k # n
        BY <1>1
      <4> QED BY <2>4, <4>1, <4>2 DEF Once
    <3> QED BY <2>1, <3>1, <3>2 DEF Once
  <2>5. Gathers(q, S, n, b)
    BY <2>2, <2>3, <2>4 DEF Gathers
  <2> QED BY <2>5 DEF b
<1> QED BY <1>2, <1>3

LEMMA AmongGathers ==
  ASSUME NEW T, NEW q \in Seq(T), NEW S
  PROVE  Among(q, S) \in Seq(T) /\ Gathers(q, S, Len(q), Among(q, S))
<1>1. Len(q) \in Nat /\ <<>> \in Seq(T) /\ \A n \in 1 .. Len(q) : q[n] \in T
  OBVIOUS
<1> DEFINE step == [n \in 1 .. Len(q) |->
                      [a \in Seq(T) |-> IF q[n] \in S THEN Append(a, q[n]) ELSE a]]
<1>2. step \in [1 .. Len(q) -> [Seq(T) -> Seq(T)]]
  BY <1>1
<1>3. \A n \in 1 .. Len(q), a \in Seq(T) :
        step[n][a] = IF q[n] \in S THEN Append(a, q[n]) ELSE a
  OBVIOUS
<1> HIDE DEF step
<1>4. PICK f : IsOrbit(f, Len(q), Seq(T), <<>>, step)
  BY <1>1, <1>2, RecursionExists
<1>5. /\ f \in [0 .. Len(q) -> Seq(T)] /\ f[0] = <<>>
      /\ \A n \in 1 .. Len(q) : f[n] = IF q[n] \in S THEN Append(f[n - 1], q[n]) ELSE f[n - 1]
  <2>1. \A n \in 1 .. Len(q) : n - 1 \in 0 .. Len(q)
    OBVIOUS
  <2>2. f \in [0 .. Len(q) -> Seq(T)] /\ f[0] = <<>> /\ \A n \in 1 .. Len(q) : f[n] = step[n][f[n - 1]]
    BY <1>4 DEF IsOrbit
  <2> QED BY <1>3, <2>1, <2>2
<1>6. AmongEq(q, S, f)
  <2> DEFINE body(n) == IF n = 0 THEN <<>>
                        ELSE IF q[n] \in S THEN Append(f[n - 1], q[n]) ELSE f[n - 1]
  <2>1. \A n \in 0 .. Len(q) : n = 0 \/ n \in 1 .. Len(q)
    BY <1>1
  <2>2. \A n \in 0 .. Len(q) : f[n] = body(n)
    BY <1>5, <2>1
  <2>3. f = [n \in 0 .. Len(q) |-> f[n]]
    BY <1>5
  <2>4. [n \in 0 .. Len(q) |-> f[n]] = [n \in 0 .. Len(q) |-> body(n)]
    <3> HIDE DEF body
    <3> QED BY <2>2
  <2> QED BY <2>3, <2>4 DEF AmongEq
<1>7. PICK h : h = CHOOSE g : AmongEq(q, S, g)
  OBVIOUS
<1>8. AmongEq(q, S, h)
  BY <1>6, <1>7
<1>9. /\ h[0] = <<>>
      /\ \A n \in 1 .. Len(q) : h[n] = IF q[n] \in S THEN Append(h[n - 1], q[n]) ELSE h[n - 1]
  <2>1. \A n \in 0 .. Len(q) : h[n] = IF n = 0 THEN <<>>
                        ELSE IF q[n] \in S THEN Append(h[n - 1], q[n]) ELSE h[n - 1]
    BY <1>8 DEF AmongEq
  <2>2. 0 \in 0 .. Len(q) /\ \A n \in 1 .. Len(q) : n \in 0 .. Len(q) /\ n # 0
    BY <1>1
  <2> QED BY <2>1, <2>2
<1> DEFINE F == {n \in 0 .. Len(q) : h[n] \in Seq(T) /\ Gathers(q, S, n, h[n])}
<1>10. 0 \in F
  <2>1. Len(<<>>) = 0 /\ 1 .. 0 = {}
    OBVIOUS
  <2>2. Gathers(q, S, 0, <<>>)
    BY <2>1 DEF Gathers, Once
  <2>3. h[0] = <<>> /\ 0 \in 0 .. Len(q)
    BY <1>1, <1>9
  <2>4. h[0] \in Seq(T) /\ Gathers(q, S, 0, h[0])
    BY <1>1, <2>2, <2>3
  <2> QED BY <2>3, <2>4
<1>11. ASSUME NEW n \in 1 .. Len(q), n - 1 \in F
       PROVE  n \in F
  <2>1. h[n - 1] \in Seq(T) /\ Gathers(q, S, n - 1, h[n - 1]) /\ n \in 0 .. Len(q)
    BY <1>11
  <2>2. h[n] \in Seq(T)
    <3>1. h[n] = Append(h[n - 1], q[n]) \/ h[n] = h[n - 1]
      BY <1>9
    <3>2. q[n] \in T /\ h[n - 1] \in Seq(T)
      BY <1>1, <2>1
    <3> HIDE <1>11
    <3>3. Append(h[n - 1], q[n]) \in Seq(T)
      BY <3>2
    <3> QED BY <3>1, <3>2, <3>3
  <2>3. Gathers(q, S, n, h[n])
    BY <1>9, <2>1, GathersMore
  <2> QED BY <2>1, <2>2, <2>3
<1>12. 0 .. Len(q) \subseteq F
  <2> HIDE DEF F
  <2> QED BY <1>1, <1>10, <1>11, RangeInduction
<1>13. h[Len(q)] \in Seq(T) /\ Gathers(q, S, Len(q), h[Len(q)])
  <2>1. Len(q) \in 0 .. Len(q)
    BY <1>1
  <2> QED BY <1>12, <2>1
<1> QED BY <1>7, <1>13, AmongUnfold

(* A list without repetition is as long as the set of its members.           *)
LEMMA OnceCounts ==
  ASSUME NEW T, NEW q \in Seq(T), Once(q), NEW S, S = {q[i] : i \in 1 .. Len(q)}
  PROVE  IsFiniteSet(S) /\ Cardinality(S) = Len(q)
<1>1. Len(q) \in Nat /\ q \in [1 .. Len(q) -> T]
  OBVIOUS
<1>2. IsFiniteSet(1 .. Len(q)) /\ Cardinality(1 .. Len(q)) = Len(q)
  BY <1>1, FS_Interval
<1>3. [i \in 1 .. Len(q) |-> q[i]] \in Bijection(1 .. Len(q), S)
  <2>1. PICK g : g = [i \in 1 .. Len(q) |-> q[i]]
    OBVIOUS
  <2>2. g \in [1 .. Len(q) -> S] /\ \A i \in 1 .. Len(q) : g[i] = q[i]
    BY <2>1
  <2>3. \A i, j \in 1 .. Len(q) : g[i] = g[j] => i = j
    BY <2>2 DEF Once
  <2>4. \A t \in S : \E i \in 1 .. Len(q) : g[i] = t
    BY <2>2
  <2>5. g \in Bijection(1 .. Len(q), S)
    BY <2>2, <2>3, <2>4 DEF Bijection, Injection, Surjection, IsInjective
  <2> QED BY <2>1, <2>5
<1>4. ExistsBijection(1 .. Len(q), S)
  BY <1>3 DEF ExistsBijection
<1> QED BY <1>2, <1>4, FS_Bijection

-----------------------------------------------------------------------------
(* Levels of a workflow. What is done before a level grows with it.          *)
Height == Cardinality(Steps)
BeforeEq(g, f) ==
  f = [n \in 0 .. Height |-> IF n = 0 THEN {} ELSE {s \in DOMAIN g : g[s] \subseteq f[n - 1]}]
LEMMA BeforeUnfold ==
  ASSUME NEW g
  PROVE  Before(g) = CHOOSE f : BeforeEq(g, f)
BY DEF Before, BeforeEq, Height

LEMMA HeightNat == Height \in Nat /\ IsFiniteSet(Steps)
BY StepsAssumption, FS_CardinalityType DEF Height

LEMMA BeforeSteps ==
  ASSUME NEW g
  PROVE  /\ Before(g)[0] = {}
         /\ \A n \in 1 .. Height : Before(g)[n] = {s \in DOMAIN g : g[s] \subseteq Before(g)[n - 1]}
         /\ \A n \in 0 .. Height : Before(g)[n] \subseteq DOMAIN g
<1> DEFINE T == SUBSET DOMAIN g
           step == [n \in 1 .. Height |-> [a \in T |-> {s \in DOMAIN g : g[s] \subseteq a}]]
<1>1. step \in [1 .. Height -> [T -> T]] /\ {} \in T /\ Height \in Nat
  BY HeightNat
<1>2. \A n \in 1 .. Height, a \in T : step[n][a] = {s \in DOMAIN g : g[s] \subseteq a}
  OBVIOUS
<1> HIDE DEF step
<1>3. PICK f : IsOrbit(f, Height, T, {}, step)
  BY <1>1, RecursionExists
<1>4. /\ f \in [0 .. Height -> T] /\ f[0] = {}
      /\ \A n \in 1 .. Height : f[n] = {s \in DOMAIN g : g[s] \subseteq f[n - 1]}
  <2>1. \A n \in 1 .. Height : n - 1 \in 0 .. Height
    BY <1>1
  <2>2. f \in [0 .. Height -> T] /\ f[0] = {} /\ \A n \in 1 .. Height : f[n] = step[n][f[n - 1]]
    BY <1>3 DEF IsOrbit
  <2> QED BY <1>2, <2>1, <2>2
<1>5. BeforeEq(g, f)
  <2> DEFINE body(n) == IF n = 0 THEN {} ELSE {s \in DOMAIN g : g[s] \subseteq f[n - 1]}
  <2>1. \A n \in 0 .. Height : n = 0 \/ n \in 1 .. Height
    BY <1>1
  <2>2. \A n \in 0 .. Height : f[n] = body(n)
    BY <1>4, <2>1
  <2>3. f = [n \in 0 .. Height |-> f[n]]
    BY <1>4
  <2>4. [n \in 0 .. Height |-> f[n]] = [n \in 0 .. Height |-> body(n)]
    <3> HIDE DEF body
    <3> QED BY <2>2
  <2> QED BY <2>3, <2>4 DEF BeforeEq
<1>6. PICK h : h = CHOOSE k : BeforeEq(g, k)
  OBVIOUS
<1>7. BeforeEq(g, h)
  BY <1>5, <1>6
<1>8. /\ h[0] = {}
      /\ \A n \in 1 .. Height : h[n] = {s \in DOMAIN g : g[s] \subseteq h[n - 1]}
  <2>1. \A n \in 0 .. Height : h[n] = IF n = 0 THEN {} ELSE {s \in DOMAIN g : g[s] \subseteq h[n - 1]}
    BY <1>7 DEF BeforeEq
  <2>2. 0 \in 0 .. Height /\ \A n \in 1 .. Height : n \in 0 .. Height /\ n # 0
    BY <1>1
  <2> QED BY <2>1, <2>2
<1>9. \A n \in 0 .. Height : h[n] \subseteq DOMAIN g
  <2>1. \A n \in 0 .. Height : n = 0 \/ n \in 1 .. Height
    BY <1>1
  <2> QED BY <1>8, <2>1
<1>10. h = Before(g)
  BY <1>6, BeforeUnfold
<1> QED BY <1>8, <1>9, <1>10

LEMMA BeforeGrows ==
  ASSUME NEW g, NEW m \in 1 .. Height
  PROVE  Before(g)[m - 1] \subseteq Before(g)[m]
<1>1. PICK B : B = Before(g)
  OBVIOUS
<1>2. /\ B[0] = {} /\ Height \in Nat
      /\ \A n \in 1 .. Height : B[n] = {s \in DOMAIN g : g[s] \subseteq B[n - 1]}
      /\ \A n \in 0 .. Height : B[n] \subseteq DOMAIN g
  BY <1>1, BeforeSteps, HeightNat
<1> HIDE <1>1
<1> DEFINE F == {n \in 0 .. Height : n = 0 \/ B[n - 1] \subseteq B[n]}
<1>3. 0 \in F
  BY <1>2
<1>4. ASSUME NEW n \in 1 .. Height, n - 1 \in F
      PROVE  n \in F
  <2>1. CASE n = 1
    <3>1. n - 1 = 0
      BY <2>1
    <3> QED BY <1>2, <2>1, <3>1
  <2>2. CASE n # 1
    <3>1. n - 1 \in 1 .. Height /\ n - 1 # 0
      BY <1>2, <2>2
    <3>2. PICK k \in 1 .. Height : k = n - 1
      BY <3>1
    <3>3. B[k - 1] \subseteq B[k]
      BY <1>4, <3>1, <3>2
    <3>4. B[n] = {s \in DOMAIN g : g[s] \subseteq B[k]} /\ B[k] = {s \in DOMAIN g : g[s] \subseteq B[k - 1]}
      BY <1>2, <3>2
    <3>5. B[k] \subseteq B[n]
      BY <3>3, <3>4
    <3> QED BY <3>2, <3>5
  <2> QED BY <2>1, <2>2
<1>5. 0 .. Height \subseteq F
  <2> HIDE DEF F
  <2> QED BY <1>2, <1>3, <1>4, RangeInduction
<1>6. m \in F /\ m # 0
  BY <1>2, <1>5
<1> QED BY <1>1, <1>6

LEMMA LevelAdds ==
  ASSUME NEW g, NEW n \in 1 .. Height
  PROVE  /\ Levels(g)[n] = Before(g)[n] \ Before(g)[n - 1]
         /\ Before(g)[n] = Before(g)[n - 1] \cup Levels(g)[n]
         /\ Levels(g)[n] \subseteq DOMAIN g
         /\ \A s \in Levels(g)[n] : g[s] \subseteq Before(g)[n - 1]
<1>1. Levels(g)[n] = Before(g)[n] \ Before(g)[n - 1]
  BY DEF Levels, Height
<1>2. n \in 0 .. Height
  BY HeightNat
<1> QED BY <1>1, <1>2, BeforeGrows, BeforeSteps

(* An acyclic definition has every step before a level that is empty.        *)
LEMMA EmptyLevelEnds ==
  ASSUME NEW g, Valid(g), NEW n \in 1 .. Height, Levels(g)[n] = {}
  PROVE  Before(g)[n - 1] = DOMAIN g
<1> DEFINE S == DOMAIN g \ Before(g)[n - 1]
<1>1. Before(g)[n] = Before(g)[n - 1]
  <2>1. Before(g)[n] = Before(g)[n - 1] \cup Levels(g)[n]
    BY LevelAdds
  <2> QED BY <2>1
<1>2. \A s \in S : s \in DOMAIN g /\ ~(g[s] \subseteq Before(g)[n - 1]) /\ g[s] \subseteq DOMAIN g
  BY <1>1, BeforeSteps DEF Valid
<1>3. \A s \in S : g[s] \cap S # {}
  BY <1>2
<1>4. S \in SUBSET DOMAIN g
  OBVIOUS
<1> HIDE DEF S
<1>5. S = {}
  BY <1>3, <1>4 DEF Valid, Cyclic
<1>6. n - 1 \in 0 .. Height
  BY HeightNat
<1>7. Before(g)[n - 1] \subseteq DOMAIN g
  BY <1>6, BeforeSteps
<1> QED BY <1>5, <1>7 DEF S

LEMMA FirstLevel ==
  ASSUME NEW g, Valid(g), DOMAIN g \subseteq Steps
  PROVE  1 \in 1 .. Height /\ Levels(g)[1] # {}
<1>1. Height # 0
  BY HeightNat, FS_EmptySet DEF Valid, Height
<1>2. 1 \in 1 .. Height
  BY <1>1, HeightNat
<1>3. Before(g)[1 - 1] = {}
  BY BeforeSteps
<1> QED BY <1>2, <1>3, EmptyLevelEnds DEF Valid

LEMMA LevelCounts ==
  ASSUME NEW g, DOMAIN g \subseteq Steps, NEW n \in 1 .. Height
  PROVE  /\ IsFiniteSet(Levels(g)[n]) /\ Cardinality(Before(g)[n - 1]) \in Nat
         /\ Cardinality(Levels(g)[n]) \in Nat
         /\ Cardinality(Before(g)[n]) =
              Cardinality(Before(g)[n - 1]) + Cardinality(Levels(g)[n])
         /\ Levels(g)[n] # {} => Cardinality(Levels(g)[n]) >= 1
<1>1. PICK A : A = Before(g)[n - 1]
  OBVIOUS
<1>2. PICK L : L = Levels(g)[n]
  OBVIOUS
<1>3. n - 1 \in 0 .. Height
  BY HeightNat
<1>4. A \subseteq Steps /\ L \subseteq Steps
  BY <1>1, <1>2, <1>3, BeforeSteps, LevelAdds
<1>5. A \cap L = {} /\ Before(g)[n] = A \cup L
  BY <1>1, <1>2, LevelAdds
<1>6. IsFiniteSet(A) /\ IsFiniteSet(L)
  BY <1>4, HeightNat, FS_Subset
<1>7. Cardinality(A) \in Nat /\ Cardinality(L) \in Nat /\ (Cardinality(L) = 0 <=> L = {})
  BY <1>6, FS_CardinalityType, FS_EmptySet
<1>8. Cardinality(A \cup L) = Cardinality(A) + Cardinality(L)
  <2>1. Cardinality(A \cap L) = 0
    BY <1>5, FS_EmptySet
  <2>2. Cardinality(A \cup L) = Cardinality(A) + Cardinality(L) - Cardinality(A \cap L)
    BY <1>6, FS_Union
  <2> QED BY <1>7, <2>1, <2>2
<1>9. L # {} => Cardinality(L) >= 1
  BY <1>7
<1> QED BY <1>1, <1>2, <1>5, <1>6, <1>7, <1>8, <1>9

(* As many levels as there are steps hold every step.                        *)
LEMMA AllLevelsEnd ==
  ASSUME NEW g, DOMAIN g \subseteq Steps, Cardinality(Before(g)[Height]) >= Height
  PROVE  Before(g)[Height] = DOMAIN g
<1>1. Height \in 0 .. Height
  BY HeightNat
<1>2. Before(g)[Height] \subseteq DOMAIN g
  BY <1>1, BeforeSteps
<1>3. Before(g)[Height] \subseteq Steps
  BY <1>2
<1>4. /\ Cardinality(Before(g)[Height]) \in Nat /\ Cardinality(Before(g)[Height]) <= Cardinality(Steps)
      /\ Cardinality(Before(g)[Height]) = Cardinality(Steps) => Before(g)[Height] = Steps
  <2>1. PICK S : S = Before(g)[Height]
    OBVIOUS
  <2>2. S \in SUBSET Steps /\ IsFiniteSet(Steps)
    BY <1>3, <2>1, HeightNat
  <2>3. IsFiniteSet(S) /\ Cardinality(S) <= Cardinality(Steps)
        /\ (Cardinality(S) = Cardinality(Steps) => S = Steps)
    BY <2>2, FS_Subset
  <2> QED BY <2>1, <2>3, FS_CardinalityType
<1>5. Height = Cardinality(Steps)
  BY DEF Height
<1> QED BY <1>2, <1>4, <1>5, HeightNat

-----------------------------------------------------------------------------
(* Collecting a level. The list of a level names its steps once each.        *)
InLevel(g, n) == Among(StepOrder, Levels(g)[n])
LEMMA InLevelLists ==
  ASSUME NEW g, DOMAIN g \subseteq Steps, NEW n \in 1 .. Height
  PROVE  /\ InLevel(g, n) \in Seq(Steps)
         /\ {InLevel(g, n)[i] : i \in 1 .. Len(InLevel(g, n))} = Levels(g)[n]
         /\ Len(InLevel(g, n)) = Cardinality(Levels(g)[n])
<1>1. PICK L : L = InLevel(g, n)
  OBVIOUS
<1>2. PICK S : S = Levels(g)[n]
  OBVIOUS
<1>3. /\ StepOrder \in Seq(Steps) /\ Once(StepOrder) /\ DOMAIN StepOrder = 1 .. Len(StepOrder)
      /\ \A s \in Steps : \E i \in 1 .. Len(StepOrder) : StepOrder[i] = s
  BY StepsAssumption DEF Once
<1>4. L \in Seq(Steps) /\ Gathers(StepOrder, S, Len(StepOrder), L)
  BY <1>1, <1>2, <1>3, AmongGathers DEF InLevel
<1>5. S \subseteq Steps
  BY <1>2, LevelAdds
<1>6. {L[i] : i \in 1 .. Len(L)} = S
  BY <1>3, <1>4, <1>5 DEF Gathers
<1>7. Once(L)
  BY <1>3, <1>4 DEF Gathers
<1>8. Len(L) = Cardinality(S)
  BY <1>4, <1>6, <1>7, OnceCounts
<1> QED BY <1>1, <1>2, <1>4, <1>6, <1>8

(* What is taken is the list up to the first step that raised.               *)
StepResults == [step : Steps, cost : Nat]
Taken(n) == [i \in DOMAIN Took(n).taken |-> Charged(Took(n).taken[i])]
Fault(n) == [i \in DOMAIN Took(n).failed |-> [step |-> Took(n).failed[i], cost |-> 0]]
LEMMA TookList ==
  ASSUME graph # <<>>, DOMAIN graph \subseteq Steps, NEW n \in 1 .. Height
  PROVE  /\ Taken(n) \in Seq(StepResults) /\ Fault(n) \in Seq(StepResults)
         /\ Fault(n) = <<>> =>
              /\ Len(Taken(n)) = Len(InLevel(graph, n))
              /\ \A i \in 1 .. Len(Taken(n)) : Taken(n)[i] = Charged(InLevel(graph, n)[i])
<1>1. PICK L : L = InLevel(graph, n)
  OBVIOUS
<1>2. L \in Seq(Steps) /\ Len(L) \in Nat /\ DOMAIN L = 1 .. Len(L)
  <2>1. L \in Seq(Steps)
    BY <1>1, InLevelLists
  <2> QED BY <2>1
<1>3. PICK good : good = {i \in DOMAIN L : \A j \in 1 .. i : tasks[L[j]] = "ok"}
  OBVIOUS
<1>4. PICK k : k = Cardinality(good)
  OBVIOUS
<1>5. k \in Nat /\ k <= Len(L)
  <2>1. good \in SUBSET (1 .. Len(L))
    BY <1>2, <1>3
  <2>2. PICK m \in Nat : m = Len(L)
    BY <1>2
  <2>3. IsFiniteSet(1 .. m) /\ Cardinality(1 .. m) = m
    BY FS_Interval
  <2>4. IsFiniteSet(good) /\ Cardinality(good) <= Cardinality(1 .. m)
    BY <2>1, <2>2, <2>3, FS_Subset
  <2> QED BY <1>4, <2>2, <2>3, <2>4, FS_CardinalityType
<1>6. /\ Took(n).taken = SubSeq(L, 1, k)
      /\ Took(n).failed = IF k = Len(L) THEN <<>> ELSE <<L[k + 1]>>
  BY <1>1, <1>3, <1>4 DEF Took, InLevel
<1>7. PICK t : t = SubSeq(L, 1, k)
  OBVIOUS
<1>8. t \in Seq(Steps) /\ Len(t) = k /\ \A i \in 1 .. k : t[i] = L[i]
  BY <1>2, <1>5, <1>7
<1>9. Taken(n) = [i \in 1 .. k |-> Charged(t[i])]
  BY <1>6, <1>7, <1>8 DEF Taken
<1>10. \A i \in 1 .. k : t[i] \in Steps /\ Charged(t[i]) \in StepResults
  BY <1>8, CostAssumption DEF Charged, StepResults
<1>11. Taken(n) \in Seq(StepResults) /\ Len(Taken(n)) = k /\ \A i \in 1 .. k : Taken(n)[i] = Charged(t[i])
  <2> HIDE DEF Charged
  <2> QED BY <1>5, <1>9, <1>10
<1>12. k = Len(L) => Fault(n) = <<>>
  BY <1>6 DEF Fault
<1>13. ASSUME k # Len(L)
       PROVE  Fault(n) \in Seq(StepResults) /\ Fault(n) # <<>>
  <2>1. L[k + 1] \in Steps
    <3>1. PICK l \in Nat : l = Len(L)
      BY <1>2
    <3>2. k + 1 \in 1 .. l
      BY <1>5, <1>13, <3>1
    <3> QED BY <1>2, <3>1, <3>2
  <2>2. Took(n).failed = <<L[k + 1]>>
    BY <1>6, <1>13
  <2>3. PICK x : x = [step |-> L[k + 1], cost |-> 0]
    OBVIOUS
  <2>4. x \in StepResults
    BY <2>1, <2>3 DEF StepResults
  <2>5. DOMAIN <<L[k + 1]>> = 1 .. 1 /\ <<L[k + 1]>>[1] = L[k + 1] /\ \A i \in 1 .. 1 : i = 1
    OBVIOUS
  <2>6. Fault(n) = [i \in 1 .. 1 |-> x]
    BY <2>2, <2>3, <2>5 DEF Fault
  <2> HIDE <2>3
  <2>7. [i \in 1 .. 1 |-> x] \in Seq(StepResults) /\ Len([i \in 1 .. 1 |-> x]) = 1
    BY <2>4
  <2> QED BY <2>6, <2>7
<1>14. <<>> \in Seq(StepResults)
  OBVIOUS
<1> QED BY <1>1, <1>8, <1>11, <1>12, <1>13, <1>14

-----------------------------------------------------------------------------
(* The invariant of the workflow engine: what the results so far account     *)
(* for, level by level.                                                      *)
RunStatuses == {"none", "running", "completed", "failed"}
Behind == Before(graph)[run.level - 1]
Accounted(S, rs) ==
  /\ {rs[i].step : i \in 1 .. Len(rs)} = S /\ Len(rs) = Cardinality(S)
  /\ \A i \in 1 .. Len(rs) : \A d \in graph[rs[i].step] : \E j \in 1 .. i - 1 : rs[j].step = d
Succeeded(S, rs) == \A d \in S : \E i \in 1 .. Len(rs) : rs[i] = Charged(d)
GraphInv == graph # <<>> => Valid(graph) /\ DOMAIN graph \subseteq Steps
RunInv ==
  /\ run \in [status : RunStatuses, level : Nat, completed : Nat]
  /\ results \in Seq(StepResults)
  /\ run.status = "none" => tasks = <<>> /\ results = <<>> /\ run.completed = 0
LevelInv ==
  run.status # "none" =>
    /\ graph # <<>> /\ run.level \in 1 .. Height
    /\ DOMAIN tasks = Levels(graph)[run.level]
    /\ Cardinality(Before(graph)[run.level]) >= run.level
    /\ Succeeded(Behind, results)
ResultsInv ==
  /\ run.status = "running" => Accounted(Behind, results) /\ run.completed = Len(results)
  /\ run.status = "completed" => Accounted(DOMAIN graph, results) /\ run.completed = Len(results)
WfInv == GraphInv /\ RunInv /\ LevelInv /\ ResultsInv

LEMMA WfStarts == WfInit => WfInv
<1> SUFFICES ASSUME WfInit PROVE WfInv
  OBVIOUS
<1>1. GraphInv
  BY DEF WfInit, GraphInv
<1>2. RunInv
  <2>1. <<>> \in Seq(StepResults)
    OBVIOUS
  <2> QED BY <2>1 DEF WfInit, RunInv, RunStatuses
<1>3. LevelInv /\ ResultsInv
  BY DEF WfInit, LevelInv, ResultsInv
<1> QED BY <1>1, <1>2, <1>3 DEF WfInv

LEMMA WfCreates ==
  ASSUME WfInv, NEW g \in Definitions, CreateWorkflow(g)
  PROVE  WfInv'
<1>1. graph = <<>> /\ graph' = g /\ Valid(g) /\ UNCHANGED <<run, tasks, results>>
  BY DEF CreateWorkflow
<1>2. run.status = "none"
  BY <1>1 DEF WfInv, LevelInv
<1>3. DOMAIN g \subseteq Steps
  BY StepsAssumption
<1>4. GraphInv'
  BY <1>1, <1>3 DEF GraphInv
<1>5. RunInv'
  BY <1>1 DEF WfInv, RunInv
<1>6. LevelInv' /\ ResultsInv'
  BY <1>1, <1>2 DEF LevelInv, ResultsInv
<1> QED BY <1>4, <1>5, <1>6 DEF WfInv

LEMMA WfExecutes ==
  ASSUME WfInv, Execute
  PROVE  WfInv'
<1>1. /\ run.status = "none" /\ graph # <<>> /\ UNCHANGED <<graph, results>>
      /\ run' = [run EXCEPT !.status = "running", !.level = 1]
      /\ tasks' = [s \in Levels(graph)[1] |-> "running"]
  BY DEF Execute, StartLevel
<1>2. Valid(graph) /\ DOMAIN graph \subseteq Steps
  BY <1>1 DEF WfInv, GraphInv
<1>3. /\ run \in [status : RunStatuses, level : Nat, completed : Nat]
      /\ results = <<>> /\ run.completed = 0
  BY <1>1 DEF WfInv, RunInv
<1>4. /\ run' \in [status : RunStatuses, level : Nat, completed : Nat]
      /\ run'.status = "running" /\ run'.level = 1 /\ run'.completed = 0
  BY <1>1, <1>3 DEF RunStatuses
<1>5. results' = <<>> /\ Len(<<>>) = 0 /\ <<>> \in Seq(StepResults) /\ 1 .. 0 = {}
  BY <1>1, <1>3
<1>6. GraphInv' /\ RunInv'
  BY <1>1, <1>2, <1>4, <1>5 DEF GraphInv, RunInv
<1>7. Before(graph')[run'.level - 1] = {}
  BY <1>1, <1>4, BeforeSteps
<1>8. LevelInv'
  <2>1. 1 \in 1 .. Height /\ Levels(graph)[1] # {}
    BY <1>2, FirstLevel
  <2>2. /\ Cardinality(Before(graph)[1]) =
             Cardinality(Before(graph)[1 - 1]) + Cardinality(Levels(graph)[1])
        /\ Cardinality(Before(graph)[1 - 1]) \in Nat /\ Cardinality(Levels(graph)[1]) \in Nat
        /\ Cardinality(Levels(graph)[1]) >= 1
    BY <1>2, <2>1, LevelCounts
  <2>3. Cardinality(Before(graph)[1]) >= 1
    BY <2>2
  <2>4. DOMAIN tasks' = Levels(graph')[run'.level]
    BY <1>1, <1>4
  <2>5. Succeeded(Behind, results)'
    BY <1>7 DEF Succeeded, Behind
  <2> QED BY <1>1, <1>4, <2>1, <2>3, <2>4, <2>5 DEF LevelInv
<1>9. ResultsInv'
  <2>1. Accounted(Behind, results)'
    BY <1>5, <1>7, FS_EmptySet DEF Accounted, Behind
  <2> QED BY <1>4, <1>5, <2>1 DEF ResultsInv
<1> QED BY <1>6, <1>8, <1>9 DEF WfInv

LEMMA WfStepEnds ==
  ASSUME WfInv, NEW s \in DOMAIN tasks, NEW outcome, StepEnds(s, outcome)
  PROVE  WfInv'
<1>1. run.status = "running" /\ UNCHANGED <<graph, run, results>> /\ DOMAIN tasks' = DOMAIN tasks
  BY DEF StepEnds
<1>2. GraphInv' /\ ResultsInv'
  BY <1>1 DEF WfInv, GraphInv, ResultsInv, Accounted, Behind
<1>3. RunInv'
  BY <1>1 DEF WfInv, RunInv
<1>4. LevelInv'
  BY <1>1 DEF WfInv, LevelInv, Succeeded, Behind
<1> QED BY <1>2, <1>3, <1>4 DEF WfInv

LEMMA WfTimesOut ==
  ASSUME WfInv, TimesOut
  PROVE  WfInv'
<1>1. /\ run.status = "running" /\ UNCHANGED <<graph, tasks, results>>
      /\ run' = [run EXCEPT !.status = "failed"]
  BY DEF TimesOut
<1>2. /\ run' \in [status : RunStatuses, level : Nat, completed : Nat]
      /\ run'.status = "failed" /\ run'.level = run.level
  BY <1>1 DEF WfInv, RunInv, RunStatuses
<1>3. GraphInv' /\ ResultsInv'
  BY <1>1, <1>2 DEF WfInv, GraphInv, ResultsInv
<1>4. RunInv'
  BY <1>1, <1>2 DEF WfInv, RunInv
<1>5. LevelInv'
  BY <1>1, <1>2 DEF WfInv, LevelInv, Succeeded, Behind
<1> QED BY <1>3, <1>4, <1>5 DEF WfInv

IsJoin(s, t, r) ==
  /\ Len(s) \in Nat /\ Len(t) \in Nat /\ Len(r) = Len(s) + Len(t)
  /\ \A i \in 1 .. Len(s) : i \in 1 .. Len(r) /\ r[i] = s[i]
  /\ \A i \in 1 .. Len(t) : Len(s) + i \in 1 .. Len(r) /\ r[Len(s) + i] = t[i]
  /\ \A i \in 1 .. Len(r) : i \in 1 .. Len(s) \/ \E k \in 1 .. Len(t) : i = Len(s) + k
LEMMA Joined ==
  ASSUME NEW T, NEW s \in Seq(T), NEW t \in Seq(T), NEW r, r = s \o t
  PROVE  r \in Seq(T) /\ IsJoin(s, t, r)
<1>1. PICK m \in Nat : m = Len(s)
  OBVIOUS
<1>2. PICK n \in Nat : n = Len(t)
  OBVIOUS
<1>3. r \in Seq(T) /\ Len(r) = m + n
  BY <1>1, <1>2
<1>4. \A i \in 1 .. m : i \in 1 .. m + n /\ r[i] = s[i]
  BY <1>1
<1>5. \A i \in 1 .. n : m + i \in 1 .. m + n /\ r[m + i] = t[i]
  BY <1>1, <1>2
<1>6. ASSUME NEW i \in 1 .. m + n, i \notin 1 .. m
      PROVE  \E k \in 1 .. n : i = m + k
  <2>1. i - m \in 1 .. n /\ i = m + (i - m)
    BY <1>6
  <2> QED BY <2>1
<1> QED BY <1>1, <1>2, <1>3, <1>4, <1>5, <1>6 DEF IsJoin

(* A whole level accounted for, and what succeeded stays on record.          *)
LEMMA LevelAccounted ==
  ASSUME NEW n \in 1 .. Height, DOMAIN graph \subseteq Steps,
         NEW rs \in Seq(StepResults), Accounted(Before(graph)[n - 1], rs),
         NEW t \in Seq(StepResults), Len(t) = Len(InLevel(graph, n)),
         \A i \in 1 .. Len(t) : t[i] = Charged(InLevel(graph, n)[i])
  PROVE  Accounted(Before(graph)[n], rs \o t)
<1>1. PICK A : A = Before(graph)[n - 1]
  OBVIOUS
<1>2. PICK L : L = InLevel(graph, n)
  OBVIOUS
<1>3. PICK S : S = Levels(graph)[n]
  OBVIOUS
<1>4. /\ L \in Seq(Steps) /\ {L[i] : i \in 1 .. Len(L)} = S /\ Len(L) = Cardinality(S)
  BY <1>2, <1>3, InLevelLists
<1>5. /\ Before(graph)[n] = A \cup S /\ \A s \in S : graph[s] \subseteq A
  BY <1>1, <1>3, LevelAdds
<1>6. /\ Cardinality(A) \in Nat /\ Cardinality(S) \in Nat
      /\ Cardinality(Before(graph)[n]) = Cardinality(A) + Cardinality(S)
  BY <1>1, <1>3, LevelCounts
<1>7. /\ {rs[i].step : i \in 1 .. Len(rs)} = A /\ Len(rs) = Cardinality(A)
      /\ \A i \in 1 .. Len(rs) : \A d \in graph[rs[i].step] : \E j \in 1 .. i - 1 : rs[j].step = d
  BY <1>1 DEF Accounted
<1>8. PICK r : r = rs \o t
  OBVIOUS
<1>9. /\ Len(rs) \in Nat /\ Len(t) \in Nat /\ Len(r) = Len(rs) + Len(t)
      /\ \A i \in 1 .. Len(rs) : i \in 1 .. Len(r) /\ r[i] = rs[i]
      /\ \A i \in 1 .. Len(t) : Len(rs) + i \in 1 .. Len(r) /\ r[Len(rs) + i] = t[i]
      /\ \A i \in 1 .. Len(r) : i \in 1 .. Len(rs) \/ \E k \in 1 .. Len(t) : i = Len(rs) + k
  <2>1. IsJoin(rs, t, r)
    BY <1>8, Joined
  <2> QED BY <2>1 DEF IsJoin
<1>10. Len(t) = Len(L) /\ \A i \in 1 .. Len(t) : t[i].step = L[i]
  <2> SUFFICES ASSUME NEW i \in 1 .. Len(t) PROVE t[i].step = L[i]
    BY <1>2
  <2>1. t[i] = Charged(L[i])
    BY <1>2
  <2> QED BY <2>1 DEF Charged
<1> HIDE <1>1, <1>2, <1>3, <1>8
<1>12. {r[i].step : i \in 1 .. Len(r)} = A \cup S
  <2>1. ASSUME NEW i \in 1 .. Len(r)  PROVE r[i].step \in A \cup S
    <3>1. CASE i \in 1 .. Len(rs)
      BY <1>7, <1>9, <3>1
    <3>2. CASE \E k \in 1 .. Len(t) : i = Len(rs) + k
      <4>1. PICK k \in 1 .. Len(t) : i = Len(rs) + k
        BY <3>2
      <4>2. r[i].step = L[k] /\ k \in 1 .. Len(L)
        BY <1>9, <1>10, <4>1
      <4> QED BY <1>4, <4>2
    <3> QED BY <1>9, <3>1, <3>2
  <2>2. ASSUME NEW x \in A  PROVE \E i \in 1 .. Len(r) : r[i].step = x
    <3>1. PICK i \in 1 .. Len(rs) : rs[i].step = x
      BY <1>7
    <3>2. i \in 1 .. Len(r) /\ r[i] = rs[i]
      BY <1>9
    <3> QED BY <3>1, <3>2
  <2>3. ASSUME NEW x \in S  PROVE \E i \in 1 .. Len(r) : r[i].step = x
    <3>1. PICK k \in 1 .. Len(L) : L[k] = x
      BY <1>4
    <3>2. k \in 1 .. Len(t)
      BY <1>10
    <3>3. PICK i : i = Len(rs) + k
      OBVIOUS
    <3>4. i \in 1 .. Len(r) /\ r[i] = t[k]
      BY <1>9, <3>2, <3>3
    <3> QED BY <1>10, <3>1, <3>2, <3>4
  <2> QED BY <2>1, <2>2, <2>3
<1>13. Len(r) = Cardinality(Before(graph)[n])
  BY <1>4, <1>6, <1>7, <1>9, <1>10
<1>14. ASSUME NEW i \in 1 .. Len(r), NEW d \in graph[r[i].step]
       PROVE  \E j \in 1 .. i - 1 : r[j].step = d
  <2>1. CASE i \in 1 .. Len(rs)
    <3>1. r[i] = rs[i]
      BY <1>9, <2>1
    <3>2. PICK j \in 1 .. i - 1 : rs[j].step = d
      BY <1>7, <1>14, <2>1, <3>1
    <3>3. j \in 1 .. Len(rs)
      BY <1>9, <2>1
    <3> QED BY <1>9, <3>2, <3>3
  <2>2. CASE \E k \in 1 .. Len(t) : i = Len(rs) + k
    <3>1. PICK k \in 1 .. Len(t) : i = Len(rs) + k
      BY <2>2
    <3>2. r[i].step = L[k] /\ k \in 1 .. Len(L)
      BY <1>9, <1>10, <3>1
    <3>3. d \in A
      BY <1>4, <1>5, <1>14, <3>2
    <3>4. PICK j \in 1 .. Len(rs) : rs[j].step = d
      BY <1>7, <3>3
    <3>5. j \in 1 .. i - 1 /\ r[j] = rs[j]
      BY <1>9, <3>1
    <3> QED BY <3>4, <3>5
  <2> QED BY <1>9, <2>1, <2>2
<1>15. Accounted(Before(graph)[n], r)
  BY <1>5, <1>12, <1>13, <1>14 DEF Accounted
<1> QED BY <1>8, <1>15

LEMMA StaysSucceeded ==
  ASSUME NEW S, NEW rs \in Seq(StepResults), NEW t \in Seq(StepResults), Succeeded(S, rs)
  PROVE  Succeeded(S, rs \o t)
<1>1. PICK r : r = rs \o t
  OBVIOUS
<1>2. \A i \in 1 .. Len(rs) : i \in 1 .. Len(r) /\ r[i] = rs[i]
  <2>1. IsJoin(rs, t, r)
    BY <1>1, Joined
  <2> QED BY <2>1 DEF IsJoin
<1>3. Succeeded(S, r)
  BY <1>2 DEF Succeeded
<1> QED BY <1>1, <1>3

LEMMA LevelSucceeded ==
  ASSUME NEW n \in 1 .. Height, DOMAIN graph \subseteq Steps,
         NEW rs \in Seq(StepResults), Succeeded(Before(graph)[n - 1], rs),
         NEW t \in Seq(StepResults), Len(t) = Len(InLevel(graph, n)),
         \A i \in 1 .. Len(t) : t[i] = Charged(InLevel(graph, n)[i])
  PROVE  Succeeded(Before(graph)[n], rs \o t)
<1>1. Succeeded(Before(graph)[n - 1], rs \o t)
  BY StaysSucceeded
<1>2. PICK r : r = rs \o t
  OBVIOUS
<1>3. \A i \in 1 .. Len(t) : r[Len(rs) + i] = t[i] /\ Len(rs) + i \in 1 .. Len(r)
  <2>1. IsJoin(rs, t, r)
    BY <1>2, Joined
  <2> QED BY <2>1 DEF IsJoin
<1>4. ASSUME NEW d \in Levels(graph)[n]  PROVE \E i \in 1 .. Len(r) : r[i] = Charged(d)
  <2>1. PICK k \in 1 .. Len(InLevel(graph, n)) : InLevel(graph, n)[k] = d
    BY InLevelLists
  <2>2. k \in 1 .. Len(t) /\ t[k] = Charged(d)
    BY <2>1
  <2>3. PICK i : i = Len(rs) + k
    OBVIOUS
  <2>4. r[i] = t[k] /\ i \in 1 .. Len(r)
    BY <1>3, <2>2, <2>3
  <2> QED BY <2>2, <2>4
<1>5. Before(graph)[n] = Before(graph)[n - 1] \cup Levels(graph)[n]
  BY LevelAdds
<1>6. Succeeded(Before(graph)[n - 1], r)
  BY <1>1, <1>2
<1>7. Succeeded(Before(graph)[n], r)
  BY <1>4, <1>5, <1>6 DEF Succeeded
<1> QED BY <1>2, <1>7

LEMMA WfCollects ==
  ASSUME WfInv, Collect
  PROVE  WfInv'
<1>1. PICK n : n = run.level
  OBVIOUS
<1>2. run.status = "running" /\ graph' = graph
  BY DEF Collect
<1>3. /\ graph # <<>> /\ Valid(graph) /\ DOMAIN graph \subseteq Steps
      /\ n \in 1 .. Height /\ n \in Nat /\ Height \in Nat /\ DOMAIN tasks = Levels(graph)[n]
      /\ Cardinality(Before(graph)[n]) >= n
      /\ run \in [status : RunStatuses, level : Nat, completed : Nat] /\ results \in Seq(StepResults)
  BY <1>1, <1>2, HeightNat DEF WfInv, GraphInv, LevelInv, RunInv
<1>4. /\ Succeeded(Before(graph)[n - 1], results) /\ Accounted(Before(graph)[n - 1], results)
      /\ run.completed = Len(results)
  BY <1>1, <1>2 DEF WfInv, LevelInv, ResultsInv, Behind
<1>5. PICK taken : taken = Taken(n)
  OBVIOUS
<1>6. PICK fault : fault = Fault(n)
  OBVIOUS
<1>7. PICK more \in BOOLEAN :
        more <=> (n < Height /\ Levels(graph)[n + 1] # {})
  OBVIOUS
<1>8. /\ results' = results \o taken \o fault
      /\ fault = <<>> /\ more =>
           /\ run' = [status |-> "running", level |-> n + 1, completed |-> run.completed + Len(taken)]
           /\ tasks' = [s \in Levels(graph)[n + 1] |-> "running"]
      /\ ~(fault = <<>> /\ more) =>
           /\ run' = [run EXCEPT !.status = IF fault # <<>> THEN "failed" ELSE "completed",
                                 !.completed = @ + Len(taken)]
           /\ tasks' = tasks
  BY <1>1, <1>5, <1>6, <1>7 DEF Collect, Taken, Fault, Height
<1>9. /\ taken \in Seq(StepResults) /\ fault \in Seq(StepResults)
      /\ fault = <<>> =>
           /\ Len(taken) = Len(InLevel(graph, n))
           /\ \A i \in 1 .. Len(taken) : taken[i] = Charged(InLevel(graph, n)[i])
  BY <1>3, <1>5, <1>6, TookList
<1> HIDE <1>1, <1>5, <1>6
<1>10. PICK rs : rs = results \o taken
  OBVIOUS
<1>11. /\ rs \in Seq(StepResults) /\ Len(rs) = Len(results) + Len(taken)
       /\ Len(results) \in Nat /\ Len(taken) \in Nat
       /\ results' = rs \o fault /\ results' \in Seq(StepResults)
  <2>1. rs \in Seq(StepResults) /\ IsJoin(results, taken, rs)
    BY <1>3, <1>9, <1>10, Joined
  <2>2. results' = rs \o fault
    BY <1>8, <1>10
  <2>3. results' \in Seq(StepResults)
    BY <1>9, <2>1, <2>2
  <2> QED BY <2>1, <2>2, <2>3 DEF IsJoin
<1>12. Succeeded(Before(graph)[n - 1], results')
  <2>1. Succeeded(Before(graph)[n - 1], rs)
    BY <1>3, <1>4, <1>9, <1>10, StaysSucceeded
  <2> QED BY <1>9, <1>11, <2>1, StaysSucceeded
<1>13. fault = <<>> => results' = rs
  BY <1>11
<1>14. fault = <<>> => Accounted(Before(graph)[n], rs) /\ Succeeded(Before(graph)[n], rs)
  BY <1>3, <1>4, <1>9, <1>10, LevelAccounted, LevelSucceeded
<1>15. GraphInv'
  BY <1>2, <1>3 DEF GraphInv
<1>16. CASE fault = <<>> /\ more
  <2>1. run' = [status |-> "running", level |-> n + 1, completed |-> run.completed + Len(taken)]
    BY <1>8, <1>16
  <2>2. /\ run' \in [status : RunStatuses, level : Nat, completed : Nat]
        /\ run'.status = "running" /\ run'.level = n + 1
        /\ run'.completed = Len(results')
    BY <1>3, <1>4, <1>11, <1>13, <1>16, <2>1, HeightNat DEF RunStatuses
  <2> HIDE <2>1
  <2>3. n + 1 \in 1 .. Height /\ n + 1 - 1 = n /\ Levels(graph)[n + 1] # {}
    BY <1>3, <1>7, <1>16, HeightNat
  <2>4. RunInv'
    BY <1>11, <2>2 DEF RunInv
  <2>5. Cardinality(Before(graph)[n + 1]) >= n + 1
    <3>1. PICK m \in 1 .. Height : m = n + 1 /\ m - 1 = n
      BY <1>3, <2>3
    <3>2. /\ Cardinality(Before(graph)[m]) =
               Cardinality(Before(graph)[m - 1]) + Cardinality(Levels(graph)[m])
          /\ Cardinality(Before(graph)[m - 1]) \in Nat /\ Cardinality(Levels(graph)[m]) \in Nat
          /\ Cardinality(Levels(graph)[m]) >= 1
      BY <1>3, <2>3, <3>1, LevelCounts
    <3>3. Cardinality(Before(graph)[m - 1]) >= n /\ n \in Nat
      BY <1>3, <3>1, HeightNat
    <3>4. Cardinality(Before(graph)[m]) >= n + 1
      BY <3>2, <3>3
    <3> QED BY <3>1, <3>4
  <2>6. Behind' = Before(graph)[n]
    <3>1. run'.level - 1 = n
      BY <1>3, <2>2
    <3> QED BY <1>2, <3>1 DEF Behind
  <2>7. DOMAIN tasks' = Levels(graph)[n + 1]
    BY <1>8, <1>16
  <2>8. LevelInv'
    <3>1. Succeeded(Behind, results)'
      BY <1>13, <1>14, <1>16, <2>6
    <3> QED BY <1>2, <1>3, <2>2, <2>3, <2>5, <2>7, <3>1 DEF LevelInv
  <2>9. ResultsInv'
    <3>1. Accounted(Behind', results')
      BY <1>13, <1>14, <1>16, <2>6
    <3>2. Accounted(Behind, results)'
      BY <1>2, <3>1 DEF Accounted
    <3> QED BY <2>2, <3>2 DEF ResultsInv
  <2> QED BY <1>15, <2>4, <2>8, <2>9 DEF WfInv
<1>17. CASE ~(fault = <<>> /\ more)
  <2>1. /\ run' = [run EXCEPT !.status = IF fault # <<>> THEN "failed" ELSE "completed",
                              !.completed = @ + Len(taken)]
        /\ tasks' = tasks
    BY <1>8, <1>17
  <2>2. /\ run' \in [status : RunStatuses, level : Nat, completed : Nat]
        /\ run'.status = IF fault # <<>> THEN "failed" ELSE "completed"
        /\ run'.level = n /\ run'.completed = Len(rs)
    <3>1. PICK status \in RunStatuses : status = IF fault # <<>> THEN "failed" ELSE "completed"
      BY DEF RunStatuses
    <3>2. PICK c \in Nat : c = run.completed + Len(taken) /\ c = Len(rs)
      BY <1>3, <1>4, <1>11
    <3>3. run' = [run EXCEPT !.status = status, !.completed = c]
      BY <2>1, <3>1, <3>2
    <3>4. run' \in [status : RunStatuses, level : Nat, completed : Nat]
          /\ run'.status = status /\ run'.level = run.level /\ run'.completed = c
      <4> HIDE <3>1, <3>2
      <4> QED BY <1>3, <3>3
    <3> QED BY <1>1, <3>1, <3>2, <3>4
  <2>3. tasks' = tasks
    BY <2>1
  <2> HIDE <2>1
  <2>4. RunInv'
    BY <1>11, <2>2 DEF RunInv
  <2>5. Behind' = Before(graph)[n - 1]
    BY <1>2, <2>2 DEF Behind
  <2>6. LevelInv'
    <3>1. Succeeded(Behind, results)'
      BY <1>12, <2>5
    <3> QED BY <1>2, <1>3, <2>2, <2>3, <3>1 DEF LevelInv
  <2>7. ASSUME fault = <<>>  PROVE Accounted(DOMAIN graph, results)'
    <3>1. Before(graph)[n] = DOMAIN graph
      <4>1. CASE n = Height
        BY <1>3, <4>1, AllLevelsEnd
      <4>2. CASE n # Height
        <5>1. PICK m \in 1 .. Height : m = n + 1 /\ m - 1 = n
          BY <1>3, <4>2, HeightNat
        <5>2. Levels(graph)[m] = {}
          BY <1>3, <1>7, <1>17, <2>7, <4>2, <5>1, HeightNat
        <5> QED BY <1>3, <5>1, <5>2, EmptyLevelEnds
      <4> QED BY <4>1, <4>2
    <3>2. Accounted(DOMAIN graph, results')
      BY <1>13, <1>14, <2>7, <3>1
    <3> QED BY <1>2, <3>2 DEF Accounted
  <2>8. ResultsInv'
    BY <1>13, <2>2, <2>7 DEF ResultsInv
  <2> QED BY <1>15, <2>4, <2>6, <2>8 DEF WfInv
<1> QED BY <1>16, <1>17

LEMMA WfKept ==
  ASSUME WfInv, WfNext
  PROVE  WfInv'
BY WfCreates, WfExecutes, WfStepEnds, WfCollects, WfTimesOut DEF WfNext

(* What the invariant says of the two properties of the engine.              *)
LEMMA WfHolds ==
  ASSUME WfInv
  PROVE  CompletedRanAll /\ DependenciesSucceeded
<1>1. CompletedRanAll
  <2> SUFFICES ASSUME run.status = "completed" PROVE CompletedRanAll
    BY DEF CompletedRanAll
  <2>1. /\ results \in Seq(StepResults)
        /\ Accounted(DOMAIN graph, results) /\ run.completed = Len(results)
    BY DEF WfInv, RunInv, ResultsInv
  <2>2. DOMAIN results = 1 .. Len(results)
    BY <2>1
  <2> QED BY <2>1, <2>2 DEF CompletedRanAll, Accounted
<1>2. DependenciesSucceeded
  <2>1. CASE run.status = "none"
    BY <2>1 DEF WfInv, RunInv, DependenciesSucceeded
  <2>2. CASE run.status # "none"
    <3>1. /\ run.level \in 1 .. Height /\ DOMAIN tasks = Levels(graph)[run.level]
          /\ Succeeded(Before(graph)[run.level - 1], results) /\ results \in Seq(StepResults)
      BY <2>2 DEF WfInv, LevelInv, RunInv, Behind
    <3>2. \A s \in DOMAIN tasks : graph[s] \subseteq Before(graph)[run.level - 1]
      BY <3>1, LevelAdds
    <3>3. DOMAIN results = 1 .. Len(results)
      BY <3>1
    <3>4. \A d \in Before(graph)[run.level - 1] :
            \E i \in DOMAIN results : results[i].step = d /\ results[i].cost = Cost[d]
      <4> SUFFICES ASSUME NEW d \in Before(graph)[run.level - 1]
                   PROVE  \E i \in DOMAIN results : results[i].step = d /\ results[i].cost = Cost[d]
        OBVIOUS
      <4>1. PICK i \in 1 .. Len(results) : results[i] = Charged(d)
        BY <3>1 DEF Succeeded
      <4>2. results[i].step = d /\ results[i].cost = Cost[d]
        BY <4>1 DEF Charged
      <4> QED BY <3>3, <4>2
    <3> QED BY <3>2, <3>4 DEF DependenciesSucceeded
  <2> QED BY <2>1, <2>2
<1> QED BY <1>1, <1>2

-----------------------------------------------------------------------------
(* Proportions. Sums whose terms are close are close, a common factor is     *)
(* taken out of a sum, and a positive factor of an inequality.               *)
LEMMA TermsAtMost ==
  ASSUME NEW s \in Seq(Int), NEW t \in Seq(Int), Len(s) = Len(t), NEW e \in Int,
         \A i \in 1 .. Len(s) : t[i] <= s[i] + e
  PROVE  SumOf(t) <= SumOf(s) + Len(s) * e
<1>1. PICK N \in Nat : N = Len(s)
  OBVIOUS
<1>2. PICK f : SumOf(s) = f[N] /\ IsTotal(f, N, s)
  BY <1>1, SumOfTotal
<1>3. PICK h : SumOf(t) = h[N] /\ IsTotal(h, N, t)
  BY <1>1, SumOfTotal
<1>4. \A n \in 1 .. N : s[n] \in Int /\ t[n] \in Int /\ t[n] <= s[n] + e
  BY <1>1
<1> DEFINE F == {n \in 0 .. N : h[n] <= f[n] + n * e}
<1>5. 0 \in F
  <2>1. f[0] = 0 /\ h[0] = 0 /\ 0 * e = 0
    BY <1>2, <1>3 DEF IsTotal
  <2> QED BY <2>1
<1>6. ASSUME NEW n \in 1 .. N, n - 1 \in F
      PROVE  n \in F
  <2>1. f[n] = f[n - 1] + s[n] /\ h[n] = h[n - 1] + t[n]
    BY <1>2, <1>3 DEF IsTotal
  <2>2. n - 1 \in 0 .. N /\ h[n - 1] <= f[n - 1] + (n - 1) * e
    BY <1>6
  <2>3. f[n - 1] \in Int /\ h[n - 1] \in Int
    BY <1>2, <1>3, <2>2 DEF IsTotal
  <2>4. PICK p \in Int : p = (n - 1) * e
    OBVIOUS
  <2>7. n * e = p + e
    BY <2>4
  <2>5. t[n] <= s[n] + e /\ s[n] \in Int /\ t[n] \in Int
    BY <1>4
  <2>6. h[n] <= f[n] + n * e
    <3>1. h[n - 1] <= f[n - 1] + p
      BY <2>2, <2>4
    <3> HIDE <2>4
    <3>2. PICK u \in Int : u = f[n - 1]
      BY <2>3
    <3>3. PICK v \in Int : v = h[n - 1]
      BY <2>3
    <3>4. PICK x \in Int : x = s[n]
      BY <2>5
    <3>5. PICK y \in Int : y = t[n]
      BY <2>5
    <3>6. v + y <= u + x + (p + e)
      <4>1. v <= u + p
        BY <3>1, <3>2, <3>3
      <4>2. y <= x + e
        BY <2>5, <3>4, <3>5
      <4> QED BY <4>1, <4>2
    <3> QED BY <2>1, <2>7, <3>2, <3>3, <3>4, <3>5, <3>6
  <2> QED BY <2>6
<1>7. 0 .. N \subseteq F
  <2> HIDE DEF F
  <2> QED BY <1>5, <1>6, RangeInduction
<1>8. h[N] <= f[N] + N * e
  BY <1>7
<1> QED BY <1>1, <1>2, <1>3, <1>8

LEMMA FactorOut ==
  ASSUME NEW s \in Seq(Int), NEW t \in Seq(Int), Len(s) = Len(t), NEW k \in Int,
         \A i \in 1 .. Len(s) : t[i] = k * s[i]
  PROVE  SumOf(t) = k * SumOf(s)
<1>1. PICK N \in Nat : N = Len(s)
  OBVIOUS
<1>2. PICK f : SumOf(s) = f[N] /\ IsTotal(f, N, s)
  BY <1>1, SumOfTotal
<1>3. PICK h : SumOf(t) = h[N] /\ IsTotal(h, N, t)
  BY <1>1, SumOfTotal
<1>4. \A n \in 1 .. N : s[n] \in Int /\ t[n] = k * s[n]
  BY <1>1
<1> DEFINE F == {n \in 0 .. N : h[n] = k * f[n]}
<1>5. 0 \in F
  <2>1. f[0] = 0 /\ h[0] = 0 /\ k * 0 = 0
    BY <1>2, <1>3 DEF IsTotal
  <2> QED BY <2>1
<1>6. ASSUME NEW n \in 1 .. N, n - 1 \in F
      PROVE  n \in F
  <2>1. f[n] = f[n - 1] + s[n] /\ h[n] = h[n - 1] + t[n]
    BY <1>2, <1>3 DEF IsTotal
  <2>2. n - 1 \in 0 .. N /\ h[n - 1] = k * f[n - 1]
    BY <1>6
  <2>3. f[n - 1] \in Int /\ s[n] \in Int /\ t[n] = k * s[n]
    BY <1>2, <1>4, <2>2 DEF IsTotal
  <2>4. PICK x \in Int : x = f[n - 1]
    BY <2>3
  <2>5. PICK y \in Int : y = s[n]
    BY <2>3
  <2>6. k * x + k * y = k * (x + y)
    OBVIOUS
  <2>7. h[n] = k * f[n]
    BY <2>1, <2>2, <2>3, <2>4, <2>5, <2>6
  <2> QED BY <2>7
<1>7. 0 .. N \subseteq F
  <2> HIDE DEF F
  <2> QED BY <1>5, <1>6, RangeInduction
<1>8. h[N] = k * f[N]
  BY <1>7
<1> QED BY <1>1, <1>2, <1>3, <1>8

LEMMA Cancelled ==
  ASSUME NEW a \in Int, NEW b \in Int, NEW d \in Nat, d # 0, d * a <= d * b
  PROVE  a <= b
<1>1. ASSUME a >= b + 1  PROVE FALSE
  <2>1. d * a >= d * (b + 1)
    BY <1>1
  <2>2. d * (b + 1) = d * b + d
    OBVIOUS
  <2> QED BY <2>1, <2>2
<1> QED BY <1>1

IsQuotient(q, a, d) == d * q <= a /\ a <= d * q + (d - 1)
LEMMA Quotient ==
  ASSUME NEW a \in Nat, NEW d \in Nat, d # 0, NEW q, q = a \div d
  PROVE  q \in Nat /\ IsQuotient(q, a, d)
BY DEF IsQuotient

LEMMA SumOfAtLeast ==
  ASSUME NEW s \in Seq(Nat), NEW i \in 1 .. Len(s)
  PROVE  s[i] <= SumOf(s)
<1>1. PICK N \in Nat : N = Len(s)
  OBVIOUS
<1>2. s \in Seq(Int) /\ \A n \in 1 .. N : s[n] \in Nat
  BY <1>1
<1>3. PICK f : SumOf(s) = f[N] /\ IsTotal(f, N, s)
  BY <1>1, <1>2, SumOfTotal
<1> DEFINE F == {n \in 0 .. N : f[n] \in Nat /\ (i <= n => s[i] <= f[n])}
<1>4. 0 \in F
  BY <1>3 DEF IsTotal
<1>5. ASSUME NEW n \in 1 .. N, n - 1 \in F
      PROVE  n \in F
  <2>1. f[n] = f[n - 1] + s[n] /\ s[n] \in Nat /\ s[i] \in Nat
    BY <1>1, <1>2, <1>3 DEF IsTotal
  <2>2. f[n - 1] \in Nat /\ (i <= n - 1 => s[i] <= f[n - 1])
    BY <1>5
  <2>3. CASE i = n
    BY <2>1, <2>2, <2>3
  <2>4. CASE i # n
    <3>1. i <= n => s[i] <= f[n - 1]
      BY <2>2, <2>4
    <3>2. f[n] \in Nat /\ f[n - 1] <= f[n]
      BY <2>1, <2>2
    <3>3. i <= n => s[i] <= f[n]
      BY <2>1, <2>2, <3>1, <3>2
    <3> QED BY <3>2, <3>3
  <2> QED BY <2>3, <2>4
<1>6. 0 .. N \subseteq F
  <2> HIDE DEF F
  <2> QED BY <1>4, <1>5, RangeInduction
<1>7. s[i] <= f[N]
  BY <1>1, <1>6
<1> QED BY <1>3, <1>7

(* Shares of a total in proportion to parts, each off by at most e in d,     *)
(* are off together by as much for each.                                     *)
LEMMA NumbersNat ==
  ASSUME NEW s \in Seq(Nat)
  PROVE  \A i \in 1 .. Len(s) : s[i] \in Nat
OBVIOUS

LEMMA Proportions ==
  ASSUME NEW c \in Seq(Nat), NEW a \in Seq(Nat), Len(a) = Len(c),
         NEW T \in Nat, NEW k \in Nat, NEW lo \in Int, NEW hi \in Int,
         \A i \in 1 .. Len(c) : T * c[i] + lo <= k * a[i] /\ k * a[i] <= T * c[i] + hi
  PROVE  /\ T * SumOf(c) + Len(c) * lo <= k * SumOf(a)
         /\ k * SumOf(a) <= T * SumOf(c) + Len(c) * hi
<1>1. PICK N \in Nat : N = Len(c)
  OBVIOUS
<1>2. \A i \in 1 .. N : c[i] \in Nat /\ a[i] \in Nat
  BY <1>1, NumbersNat, Zenon
<1>3. PICK x : x = [i \in 1 .. N |-> T * c[i]]
  OBVIOUS
<1>4. PICK y : y = [i \in 1 .. N |-> k * a[i]]
  OBVIOUS
<1>5. /\ x \in Seq(Int) /\ Len(x) = N /\ \A i \in 1 .. N : x[i] = T * c[i] /\ x[i] \in Int
      /\ y \in Seq(Int) /\ Len(y) = N /\ \A i \in 1 .. N : y[i] = k * a[i] /\ y[i] \in Int
  <2>1. \A i \in 1 .. N : T * c[i] \in Int /\ k * a[i] \in Int
    BY <1>2
  <2> QED BY <1>3, <1>4, <2>1
<1> HIDE <1>3, <1>4
<1>6. c \in Seq(Int) /\ a \in Seq(Int)
  OBVIOUS
<1>7. SumOf(x) = T * SumOf(c) /\ SumOf(y) = k * SumOf(a)
  BY <1>1, <1>5, <1>6, FactorOut
<1>8. SumOf(y) <= SumOf(x) + N * hi
  <2>1. \A i \in 1 .. Len(x) : y[i] <= x[i] + hi
    BY <1>1, <1>5
  <2> QED BY <1>5, <2>1, TermsAtMost
<1>9. SumOf(x) <= SumOf(y) + N * (0 - lo)
  <2>1. 0 - lo \in Int
    OBVIOUS
  <2>2. \A i \in 1 .. Len(y) : x[i] <= y[i] + (0 - lo)
    <3> SUFFICES ASSUME NEW i \in 1 .. N PROVE x[i] <= y[i] + (0 - lo)
      BY <1>5
    <3>1. x[i] \in Int /\ y[i] \in Int /\ x[i] + lo <= y[i]
      BY <1>1, <1>5
    <3> QED BY <3>1
  <2> QED BY <1>5, <2>1, <2>2, TermsAtMost
<1>10. N * (0 - lo) = 0 - N * lo /\ N * lo \in Int
  OBVIOUS
<1>11. SumOf(x) \in Int /\ SumOf(y) \in Int
  BY <1>5, SumOfInt
<1> QED BY <1>1, <1>7, <1>8, <1>9, <1>10, <1>11

-----------------------------------------------------------------------------
(* Splits share out the cost but for a unit each.                            *)
Splitted == [step : Steps, amount : Nat]
Eligible(rs) ==
  Among(rs, {rs[i] : i \in {j \in DOMAIN rs : rs[j].step \in Listed /\ rs[j].cost >= Dust}})
CostsOf(q) == [i \in 1 .. Len(q) |-> q[i].cost]
AmountsOf(q) == [i \in 1 .. Len(q) |-> q[i].amount]
LEMMA CostsNat ==
  ASSUME NEW q \in Seq(StepResults)
  PROVE  /\ CostsOf(q) \in Seq(Nat) /\ Len(CostsOf(q)) = Len(q) /\ SumCost(q) = SumOf(CostsOf(q))
         /\ SumCost(q) \in Nat
<1>1. \A i \in 1 .. Len(q) : q[i].cost \in Nat
  <2> SUFFICES ASSUME NEW i \in 1 .. Len(q) PROVE q[i].cost \in Nat
    OBVIOUS
  <2>1. q[i] \in StepResults
    OBVIOUS
  <2> QED BY <2>1 DEF StepResults
<1>2. CostsOf(q) \in Seq(Nat) /\ Len(CostsOf(q)) = Len(q)
  BY <1>1 DEF CostsOf
<1>3. DOMAIN q = 1 .. Len(q)
  OBVIOUS
<1>4. SumCost(q) = SumOf(CostsOf(q))
  BY <1>3 DEF SumCost, CostsOf
<1> QED BY <1>2, <1>4, SumOfNat

LEMMA EligibleIs ==
  ASSUME NEW rs \in Seq(StepResults)
  PROVE  /\ Eligible(rs) \in Seq(StepResults)
         /\ \A i \in 1 .. Len(Eligible(rs)) : Eligible(rs)[i].cost >= Dust
<1> DEFINE S == {rs[i] : i \in {j \in DOMAIN rs : rs[j].step \in Listed /\ rs[j].cost >= Dust}}
<1>1. \A r \in S : r.cost >= Dust
  OBVIOUS
<1>2. PICK e : e = Eligible(rs)
  OBVIOUS
<1>3. e = Among(rs, S)
  BY <1>2 DEF Eligible
<1> HIDE DEF S
<1>4. e \in Seq(StepResults) /\ Gathers(rs, S, Len(rs), e)
  BY <1>3, AmongGathers
<1>5. \A i \in 1 .. Len(e) : e[i] \in S
  BY <1>4 DEF Gathers
<1> QED BY <1>1, <1>2, <1>4, <1>5

LEMMA SplitsAre ==
  ASSUME NEW rs \in Seq(StepResults)
  PROVE  /\ Splits(rs) \in Seq(Splitted) /\ Len(Splits(rs)) = Len(Eligible(rs))
         /\ Splits(rs) # <<>> =>
              /\ SumCost(Eligible(rs)) > 0
              /\ \A i \in 1 .. Len(Splits(rs)) :
                   Splits(rs)[i].amount =
                     (SumCost(rs) * Eligible(rs)[i].cost) \div SumCost(Eligible(rs))
<1>1. PICK e : e = Eligible(rs)
  OBVIOUS
<1>2. e \in Seq(StepResults) /\ \A i \in 1 .. Len(e) : e[i].cost >= Dust
  BY <1>1, EligibleIs
<1>3. PICK E : E = SumCost(e)
  OBVIOUS
<1>4. PICK T : T = SumCost(rs)
  OBVIOUS
<1>5. E \in Nat /\ T \in Nat
  BY <1>2, <1>3, <1>4, CostsNat
<1>6. Splits(rs) = [i \in DOMAIN e |-> [step |-> e[i].step, amount |-> (T * e[i].cost) \div E]]
  BY <1>1, <1>3, <1>4 DEF Splits, Eligible
<1> HIDE <1>1, <1>3, <1>4
<1>7. PICK N \in Nat : N = Len(e) /\ DOMAIN e = 1 .. N
  BY <1>2
<1>8. \A i \in 1 .. N : e[i].step \in Steps /\ e[i].cost \in Nat
  <2> SUFFICES ASSUME NEW i \in 1 .. N PROVE e[i].step \in Steps /\ e[i].cost \in Nat
    OBVIOUS
  <2>1. e[i] \in StepResults
    BY <1>2, <1>7
  <2> QED BY <2>1 DEF StepResults
<1>9. ASSUME N # 0  PROVE E > 0
  <2>1. 1 \in 1 .. Len(CostsOf(e)) /\ CostsOf(e) \in Seq(Nat) /\ E = SumOf(CostsOf(e))
    BY <1>2, <1>3, <1>7, <1>9, CostsNat
  <2>2. CostsOf(e)[1] <= E
    BY <2>1, SumOfAtLeast
  <2>3. CostsOf(e)[1] >= Dust /\ CostsOf(e)[1] \in Nat
    BY <1>2, <1>7, <1>8, <1>9 DEF CostsOf
  <2> QED BY <1>5, <2>2, <2>3, CostAssumption
<1>10. PICK a : a = [i \in 1 .. N |-> (T * e[i].cost) \div E]
  OBVIOUS
<1>11. \A i \in 1 .. N : a[i] = (T * e[i].cost) \div E /\ a[i] \in Nat
  <2> SUFFICES ASSUME NEW i \in 1 .. N PROVE (T * e[i].cost) \div E \in Nat
    BY <1>10
  <2>1. E # 0
    BY <1>5, <1>9
  <2>2. PICK x \in Nat : x = T * e[i].cost
    BY <1>5, <1>8
  <2>3. PICK y : y = x \div E
    OBVIOUS
  <2>4. y \in Nat
    BY <1>5, <2>1, <2>3, Quotient
  <2> QED BY <2>2, <2>3, <2>4
<1>12. PICK s : s = Splits(rs)
  OBVIOUS
<1>13. s = [i \in 1 .. N |-> [step |-> e[i].step, amount |-> a[i]]]
  BY <1>6, <1>7, <1>11, <1>12
<1> HIDE <1>6, <1>10
<1>14. \A i \in 1 .. N : s[i] \in Splitted /\ s[i].amount = a[i]
  BY <1>8, <1>11, <1>13 DEF Splitted
<1>15. s \in Seq(Splitted) /\ Len(s) = N
  <2>1. s = [i \in 1 .. N |-> s[i]]
    BY <1>13
  <2> QED BY <1>14, <2>1
<1>16. s # <<>> => N # 0
  BY <1>15
<1> QED BY <1>1, <1>3, <1>4, <1>7, <1>9, <1>11, <1>12, <1>14, <1>15, <1>16

LEMMA AmountsNat ==
  ASSUME NEW U, NEW q \in Seq(U), \A u \in U : u.amount \in Nat
  PROVE  AmountsOf(q) \in Seq(Nat) /\ Len(AmountsOf(q)) = Len(q)
<1>1. \A i \in 1 .. Len(q) : q[i].amount \in Nat
  OBVIOUS
<1> QED BY <1>1 DEF AmountsOf

LEMMA SplitsCover ==
  ASSUME NEW rs \in Seq(StepResults), Splits(rs) # <<>>
  PROVE  SumOf(AmountsOf(Splits(rs))) \in (SumCost(rs) - Len(Splits(rs))) .. SumCost(rs)
<1>1. PICK e : e = Eligible(rs)
  OBVIOUS
<1>2. PICK s : s = Splits(rs)
  OBVIOUS
<1>3. PICK T \in Nat : T = SumCost(rs)
  BY CostsNat
<1>4. e \in Seq(StepResults)
  BY <1>1, EligibleIs
<1>5. PICK E \in Nat : E = SumCost(e) /\ E = SumOf(CostsOf(e))
  BY <1>4, CostsNat
<1>6. /\ s \in Seq(Splitted) /\ Len(s) = Len(e) /\ E > 0
      /\ \A i \in 1 .. Len(s) : s[i].amount = (T * e[i].cost) \div E
  BY <1>1, <1>2, <1>3, <1>5, SplitsAre
<1>7. PICK N \in Nat : N = Len(s)
  BY <1>6
<1>8. PICK c : c = CostsOf(e)
  OBVIOUS
<1>9. PICK a : a = AmountsOf(s)
  OBVIOUS
<1>10. /\ c \in Seq(Nat) /\ Len(c) = N /\ \A i \in 1 .. N : c[i] = e[i].cost
  BY <1>4, <1>6, <1>7, <1>8, CostsNat DEF CostsOf
<1>11. a \in Seq(Nat) /\ Len(a) = N /\ \A i \in 1 .. N : a[i] = s[i].amount
  <2>1. \A u \in Splitted : u.amount \in Nat
    BY DEF Splitted
  <2>2. a \in Seq(Nat) /\ Len(a) = N
    BY <1>6, <1>7, <1>9, <2>1, AmountsNat
  <2> QED BY <1>7, <1>9, <2>2 DEF AmountsOf
<1> HIDE <1>1, <1>2, <1>8, <1>9
<1>12. ASSUME NEW i \in 1 .. N
       PROVE  T * c[i] + (0 - E) <= E * a[i] /\ E * a[i] <= T * c[i] + 0
  <2>1. PICK x \in Nat : x = T * c[i]
    BY <1>10
  <2>2. a[i] = x \div E
    BY <1>6, <1>7, <1>10, <1>11, <2>1
  <2>3. E # 0
    BY <1>6
  <2>4. a[i] \in Nat /\ IsQuotient(a[i], x, E)
    BY <2>2, <2>3, Quotient
  <2>5. PICK y \in Int : y = E * a[i]
    BY <2>4
  <2>6. y <= x /\ x <= y + (E - 1)
    BY <2>4, <2>5 DEF IsQuotient
  <2>7. x + (0 - E) <= y /\ y <= x + 0
    BY <2>6
  <2> QED BY <2>1, <2>5, <2>7
<1>13. 0 - E \in Int /\ 0 \in Int
  OBVIOUS
<1>14. T * SumOf(c) + N * (0 - E) <= E * SumOf(a) /\ E * SumOf(a) <= T * SumOf(c) + N * 0
  <2>1. /\ T * SumOf(c) + Len(c) * (0 - E) <= E * SumOf(a)
        /\ E * SumOf(a) <= T * SumOf(c) + Len(c) * 0
    BY <1>10, <1>11, <1>12, <1>13, Proportions
  <2> QED BY <1>10, <2>1
<1>15. PICK A \in Nat : A = SumOf(a)
  BY <1>11, SumOfNat
<1>16. T * E + N * (0 - E) <= E * A /\ E * A <= T * E + N * 0
  BY <1>5, <1>8, <1>14, <1>15
<1>17. T * E + N * (0 - E) = E * (T - N) /\ T * E + N * 0 = E * T /\ T - N \in Int
  OBVIOUS
<1>18. T - N <= A
  BY <1>6, <1>16, <1>17, Cancelled
<1>19. A <= T
  BY <1>6, <1>16, <1>17, Cancelled
<1> QED BY <1>2, <1>3, <1>7, <1>9, <1>15, <1>18, <1>19

LEMMA SplitsHold ==
  ASSUME WfInv
  PROVE  SplitsCoverCost
<1>1. results \in Seq(StepResults)
  BY DEF WfInv, RunInv
<1>2. Splits(results) \in Seq(Splitted)
  BY <1>1, SplitsAre
<1>3. PICK s : s = Splits(results)
  OBVIOUS
<1>4. [i \in DOMAIN s |-> s[i].amount] = AmountsOf(s)
  BY <1>2, <1>3 DEF AmountsOf
<1>5. s # <<>> => SumOf(AmountsOf(s)) \in (SumCost(results) - Len(s)) .. SumCost(results)
  BY <1>1, <1>3, SplitsCover
<1> QED BY <1>3, <1>4, <1>5 DEF SplitsCoverCost

-----------------------------------------------------------------------------
(* Revenue shares: the fee is no more than the cost, and the shares of the   *)
(* rest add up to it, but for half a unit each.                              *)
Owing == [to : Participants, amount : Nat]
Rules == Seq([to : Participants, weight : Nat])
LEMMA RulesListed ==
  ASSUME NEW rules \in Rules
  PROVE  /\ Len(rules) \in Nat /\ DOMAIN rules = 1 .. Len(rules)
         /\ \A i \in 1 .. Len(rules) : rules[i].to \in Participants /\ rules[i].weight \in Nat
<1>1. PICK S : S = [to : Participants, weight : Nat]
  OBVIOUS
<1>2. rules \in Seq(S)
  BY <1>1 DEF Rules
<1>3. \A i \in 1 .. Len(rules) : rules[i] \in S
  BY <1>2, ElementOfSeq
<1>4. Len(rules) \in Nat /\ DOMAIN rules = 1 .. Len(rules)
  BY <1>2
<1> QED BY <1>1, <1>3, <1>4

LEMMA FeeWithin ==
  ASSUME NEW c \in Nat
  PROVE  Fee(c) \in Nat /\ Fee(c) <= c
<1>1. PICK p \in Nat : p = FeePercent /\ p <= 100
  BY PaymentAssumption
<1>2. PICK x \in Nat : x = c * p
  OBVIOUS
<1>3. x <= 100 * c
  BY <1>1, <1>2
<1>4. Fee(c) = (2 * x + 100) \div 200
  BY <1>1, <1>2 DEF Fee, Round
<1> QED BY <1>3, <1>4

RuleWeights(rules) == [i \in DOMAIN rules |-> rules[i].weight]
LEMMA WeightsNat ==
  ASSUME NEW rules \in Rules
  PROVE  /\ RuleWeights(rules) \in Seq(Nat) /\ Len(RuleWeights(rules)) = Len(rules)
         /\ \A i \in 1 .. Len(rules) : RuleWeights(rules)[i] = rules[i].weight
         /\ SumOf(RuleWeights(rules)) \in Nat /\ TotalWeight(rules) = SumOf(RuleWeights(rules))
<1>1. PICK N \in Nat : N = Len(rules) /\ DOMAIN rules = 1 .. N
  BY RulesListed
<1>2. PICK w : w = RuleWeights(rules)
  OBVIOUS
<1>3. w \in Seq(Nat) /\ Len(w) = N /\ \A i \in 1 .. N : w[i] = rules[i].weight
  BY <1>1, <1>2, RulesListed DEF RuleWeights
<1>4. SumOf(w) \in Nat
  BY <1>3, SumOfNat
<1> QED BY <1>1, <1>2, <1>3, <1>4 DEF TotalWeight, RuleWeights

LEMMA ShareRounds ==
  ASSUME NEW n \in Nat, NEW d \in Nat, d # 0, NEW r, r = Round(n, d)
  PROVE  r \in Nat /\ 2 * n + (0 - d) <= (2 * d) * r /\ (2 * d) * r <= 2 * n + d
<1>1. PICK a \in Nat : a = 2 * n + d
  OBVIOUS
<1>2. PICK e \in Nat : e = 2 * d /\ e # 0
  OBVIOUS
<1>3. r = a \div e
  BY <1>1, <1>2 DEF Round
<1>4. r \in Nat /\ IsQuotient(r, a, e)
  BY <1>2, <1>3, Quotient
<1>5. PICK y \in Int : y = e * r
  BY <1>4
<1>6. y <= a /\ a <= y + (e - 1)
  BY <1>4, <1>5 DEF IsQuotient
<1>7. 2 * n + (0 - d) <= y /\ y <= 2 * n + d
  BY <1>1, <1>2, <1>6
<1> QED BY <1>2, <1>4, <1>5, <1>7

LEMMA SharesAre ==
  ASSUME NEW c \in Nat, NEW rules \in Rules, TotalWeight(rules) > 0
  PROVE  /\ CalculateShares(c, rules) \in Seq(Owing) /\ Len(CalculateShares(c, rules)) = Len(rules)
         /\ \A i \in 1 .. Len(rules) :
              CalculateShares(c, rules)[i].amount =
                Round((c - Fee(c)) * RuleWeights(rules)[i], SumOf(RuleWeights(rules)))
<1>1. PICK N \in Nat : N = Len(rules) /\ DOMAIN rules = 1 .. N
  BY RulesListed
<1>2. PICK W \in Nat : W = SumOf(RuleWeights(rules)) /\ W # 0
  BY WeightsNat
<1>3. PICK R \in Nat : R = c - Fee(c)
  BY FeeWithin
<1>4. \A i \in 1 .. N : RuleWeights(rules)[i] \in Nat /\ RuleWeights(rules)[i] = rules[i].weight
  BY <1>1, WeightsNat
<1>5. CalculateShares(c, rules) =
        [i \in 1 .. N |-> [to |-> rules[i].to, amount |-> Round(R * rules[i].weight, W)]]
  BY <1>1, <1>2, <1>3, WeightsNat DEF CalculateShares
<1>6. PICK a : a = [i \in 1 .. N |-> Round(R * RuleWeights(rules)[i], W)]
  OBVIOUS
<1>7. \A i \in 1 .. N : a[i] \in Nat /\ a[i] = Round(R * RuleWeights(rules)[i], W)
  <2> SUFFICES ASSUME NEW i \in 1 .. N, NEW r, r = Round(R * RuleWeights(rules)[i], W) PROVE r \in Nat
    BY <1>6
  <2>1. PICK n \in Nat : n = R * RuleWeights(rules)[i]
    BY <1>4
  <2>2. r = Round(n, W)
    BY <2>1
  <2> QED BY <1>2, <2>2, ShareRounds
<1>8. PICK s : s = CalculateShares(c, rules)
  OBVIOUS
<1>9. s = [i \in 1 .. N |-> [to |-> rules[i].to, amount |-> a[i]]]
  BY <1>4, <1>5, <1>7, <1>8
<1> HIDE <1>5, <1>6
<1>10. \A i \in 1 .. N : s[i] \in Owing /\ s[i].amount = a[i]
  BY <1>1, <1>7, <1>9, RulesListed DEF Owing
<1>11. s \in Seq(Owing) /\ Len(s) = N
  <2>1. s = [i \in 1 .. N |-> s[i]]
    BY <1>9
  <2> QED BY <1>10, <2>1
<1> QED BY <1>1, <1>2, <1>3, <1>7, <1>8, <1>10, <1>11

LEMMA SharesCover ==
  ASSUME NEW c \in Nat, NEW rules \in Rules, TotalWeight(rules) > 0
  PROVE  LET off == SumOf(AmountsOf(CalculateShares(c, rules))) + Fee(c) - c
         IN  2 * off \in (0 - Len(rules)) .. Len(rules)
<1>1. PICK N \in Nat : N = Len(rules) /\ DOMAIN rules = 1 .. N
  BY RulesListed
<1>2. PICK W \in Nat : W = SumOf(RuleWeights(rules)) /\ W # 0
  BY WeightsNat
<1>3. PICK R \in Nat : R = c - Fee(c)
  BY FeeWithin
<1>4. PICK w : w = RuleWeights(rules)
  OBVIOUS
<1>5. w \in Seq(Nat) /\ Len(w) = N
  BY <1>1, <1>4, WeightsNat
<1>6. PICK s : s = CalculateShares(c, rules)
  OBVIOUS
<1>7. s \in Seq(Owing) /\ Len(s) = N /\ \A i \in 1 .. N : s[i].amount = Round(R * w[i], W)
  BY <1>1, <1>2, <1>3, <1>4, <1>6, SharesAre
<1>8. PICK a : a = AmountsOf(s)
  OBVIOUS
<1>9. a \in Seq(Nat) /\ Len(a) = N /\ \A i \in 1 .. N : a[i] = Round(R * w[i], W)
  <2>1. \A u \in Owing : u.amount \in Nat
    BY DEF Owing
  <2>2. a \in Seq(Nat) /\ Len(a) = N
    BY <1>7, <1>8, <2>1, AmountsNat
  <2>3. \A i \in 1 .. N : a[i] = s[i].amount
    BY <1>7, <1>8 DEF AmountsOf
  <2> QED BY <1>7, <2>2, <2>3
<1> HIDE <1>4, <1>6, <1>8
<1>10. PICK T \in Nat : T = 2 * R
  OBVIOUS
<1>11. PICK k \in Nat : k = 2 * W /\ k # 0
  BY <1>2
<1>12. ASSUME NEW i \in 1 .. N
       PROVE  T * w[i] + (0 - W) <= k * a[i] /\ k * a[i] <= T * w[i] + W
  <2>0. PICK v \in Nat : v = w[i]
    BY <1>5
  <2>1. PICK n \in Nat : n = R * v
    OBVIOUS
  <2>2. a[i] = Round(n, W)
    BY <1>9, <2>0, <2>1
  <2>3. a[i] \in Nat /\ 2 * n + (0 - W) <= (2 * W) * a[i] /\ (2 * W) * a[i] <= 2 * n + W
    BY <1>2, <2>2, ShareRounds
  <2>4. T * v = 2 * n
    BY <1>10, <2>1
  <2> QED BY <1>11, <2>0, <2>3, <2>4
<1>13. 0 - W \in Int /\ W \in Int
  OBVIOUS
<1>14. T * SumOf(w) + N * (0 - W) <= k * SumOf(a) /\ k * SumOf(a) <= T * SumOf(w) + N * W
  <2>1. /\ T * SumOf(w) + Len(w) * (0 - W) <= k * SumOf(a)
        /\ k * SumOf(a) <= T * SumOf(w) + Len(w) * W
    BY <1>5, <1>9, <1>12, <1>13, Proportions
  <2> QED BY <1>5, <2>1
<1>15. PICK A \in Nat : A = SumOf(a)
  BY <1>9, SumOfNat
<1>16. T * W + N * (0 - W) <= k * A /\ k * A <= T * W + N * W
  BY <1>2, <1>4, <1>14, <1>15
<1>17. /\ T * W + N * (0 - W) = W * (2 * R - N) /\ T * W + N * W = W * (2 * R + N)
       /\ k * A = W * (2 * A) /\ 2 * R - N \in Int /\ 2 * R + N \in Int /\ 2 * A \in Int
  BY <1>10, <1>11
<1>18. 2 * R - N <= 2 * A
  BY <1>2, <1>16, <1>17, Cancelled
<1>19. 2 * A <= 2 * R + N
  BY <1>2, <1>16, <1>17, Cancelled
<1>20. A = SumOf(AmountsOf(CalculateShares(c, rules)))
  BY <1>6, <1>8, <1>15
<1>21. PICK F \in Nat : F = Fee(c)
  BY FeeWithin
<1>22. 2 * (A + F - c) \in (0 - N) .. N
  BY <1>3, <1>18, <1>19, <1>21
<1> QED BY <1>1, <1>20, <1>21, <1>22

-----------------------------------------------------------------------------
(* Channels and what left them to a participant.                             *)
Parties == Senders \cup Participants
Chan == [sender : Parties, receiver : Parties, deposit : Nat, spent : Nat, open : BOOLEAN]
Within(chans) == \A i \in 1 .. Len(chans) : chans[i].spent <= chans[i].deposit
SpentOf(c, p) == IF c.receiver = p THEN c.spent ELSE 0
SpentTo(p, chans) == [i \in 1 .. Len(chans) |-> SpentOf(chans[i], p)]
PaidOut(p, chans) == SumOf(SpentTo(p, chans))

LEMMA SpentNat ==
  ASSUME NEW chans \in Seq(Chan), NEW p
  PROVE  /\ SpentTo(p, chans) \in Seq(Nat) /\ SpentTo(p, chans) \in Seq(Int)
         /\ Len(SpentTo(p, chans)) = Len(chans)
         /\ \A i \in 1 .. Len(chans) : SpentTo(p, chans)[i] = SpentOf(chans[i], p)
         /\ PaidOut(p, chans) \in Nat
<1>1. \A i \in 1 .. Len(chans) : SpentOf(chans[i], p) \in Nat
  <2> SUFFICES ASSUME NEW i \in 1 .. Len(chans) PROVE SpentOf(chans[i], p) \in Nat
    OBVIOUS
  <2>1. chans[i] \in Chan
    OBVIOUS
  <2> QED BY <2>1 DEF Chan, SpentOf
<1>2. PICK s : s = SpentTo(p, chans)
  OBVIOUS
<1>3. s \in Seq(Nat) /\ s \in Seq(Int) /\ Len(s) = Len(chans)
      /\ \A i \in 1 .. Len(chans) : s[i] = SpentOf(chans[i], p)
  BY <1>1, <1>2 DEF SpentTo
<1>4. SumOf(s) \in Nat
  BY <1>3, SumOfNat
<1> QED BY <1>2, <1>3, <1>4 DEF PaidOut

LEMMA Replaced ==
  ASSUME NEW T, NEW q \in Seq(T), NEW i \in 1 .. Len(q), NEW d \in T
  PROVE  /\ [q EXCEPT ![i] = d] \in Seq(T) /\ Len([q EXCEPT ![i] = d]) = Len(q)
         /\ [q EXCEPT ![i] = d][i] = d
         /\ \A j \in 1 .. Len(q) : j # i => [q EXCEPT ![i] = d][j] = q[j]
BY ExceptSeq

(* One payment.                                                              *)
LEMMA ChannelPays ==
  ASSUME NEW chans \in Seq(Chan), Within(chans), NEW i \in 1 .. Len(chans), NEW x \in Nat,
         chans[i].deposit - chans[i].spent >= x
  PROVE  \E new : /\ new = [chans EXCEPT ![i].spent = @ + x]
                  /\ new \in Seq(Chan) /\ Within(new)
                  /\ \A p : PaidOut(p, new) =
                              PaidOut(p, chans) + IF chans[i].receiver = p THEN x ELSE 0
<1>0. PICK new : new = [chans EXCEPT ![i].spent = @ + x]
  OBVIOUS
<1>1. PICK c : c = chans[i]
  OBVIOUS
<1>2. c \in Chan
  BY <1>1
<1>3. PICK d : d = [c EXCEPT !.spent = @ + x]
  OBVIOUS
<1>4. /\ d \in Chan /\ d.receiver = c.receiver /\ d.deposit = c.deposit
      /\ d.spent = c.spent + x /\ d.spent <= d.deposit
  <2>1. PICK y \in Nat : y = c.spent + x /\ y <= c.deposit
    <3>1. PICK a \in Nat : a = c.spent
      BY <1>2 DEF Chan
    <3>2. PICK b \in Nat : b = c.deposit
      BY <1>2 DEF Chan
    <3>3. b - a >= x
      BY <1>1, <3>1, <3>2
    <3>4. a + x \in Nat /\ a + x <= b
      BY <3>3
    <3> QED BY <3>1, <3>2, <3>4
  <2>2. d = [c EXCEPT !.spent = y]
    BY <1>3, <2>1
  <2>3. d \in Chan /\ d.receiver = c.receiver /\ d.deposit = c.deposit /\ d.spent = y
    BY <1>2, <2>2 DEF Chan
  <2> QED BY <2>1, <2>3
<1>5. new = [chans EXCEPT ![i] = d]
  BY <1>0, <1>1, <1>3
<1> HIDE <1>3
<1>6. /\ new \in Seq(Chan) /\ Len(new) = Len(chans) /\ new[i] = d
      /\ \A j \in 1 .. Len(chans) : j # i => new[j] = chans[j]
  BY <1>4, <1>5, Replaced
<1> HIDE <1>5
<1>7. Within(new)
  BY <1>4, <1>6 DEF Within
<1>8. ASSUME NEW p
      PROVE  PaidOut(p, new) = PaidOut(p, chans) + IF chans[i].receiver = p THEN x ELSE 0
  <2>1. PICK s : s = SpentTo(p, chans)
    OBVIOUS
  <2>2. PICK t : t = SpentTo(p, new)
    OBVIOUS
  <2>3. /\ s \in Seq(Int) /\ Len(s) = Len(chans)
        /\ \A j \in 1 .. Len(chans) : s[j] = SpentOf(chans[j], p)
    BY <2>1, SpentNat
  <2>4. /\ t \in Seq(Int) /\ Len(t) = Len(chans)
        /\ \A j \in 1 .. Len(chans) : t[j] = SpentOf(new[j], p)
    BY <1>6, <2>2, SpentNat
  <2>5. \A j \in 1 .. Len(s) : j # i => s[j] = t[j]
    BY <1>6, <2>3, <2>4
  <2>6. SumOf(t) = SumOf(s) + t[i] - s[i]
    BY <2>3, <2>4, <2>5, SumOfChanged
  <2>7. t[i] = SpentOf(d, p) /\ s[i] = SpentOf(c, p)
    BY <1>1, <1>6, <2>3, <2>4
  <2>8. SpentOf(d, p) = SpentOf(c, p) + IF c.receiver = p THEN x ELSE 0
    BY <1>2, <1>4 DEF SpentOf, Chan
  <2>9. SumOf(s) \in Int /\ SpentOf(c, p) \in Int
    BY <1>2, <2>3, SumOfInt DEF SpentOf, Chan
  <2> QED BY <1>1, <2>1, <2>2, <2>6, <2>7, <2>8, <2>9 DEF PaidOut
<1> QED BY <1>0, <1>6, <1>7, <1>8

LEMMA ChannelAdded ==
  ASSUME NEW chans \in Seq(Chan), Within(chans), NEW c \in Chan, c.spent = 0
  PROVE  /\ Append(chans, c) \in Seq(Chan) /\ Within(Append(chans, c))
         /\ \A p : PaidOut(p, Append(chans, c)) = PaidOut(p, chans)
<1>1. PICK new : new = Append(chans, c)
  OBVIOUS
<1>2. /\ new \in Seq(Chan) /\ Len(chans) \in Nat /\ Len(new) = Len(chans) + 1
      /\ new[Len(new)] = c /\ \A j \in 1 .. Len(chans) : new[j] = chans[j]
      /\ \A j \in 1 .. Len(new) : j \in 1 .. Len(chans) \/ j = Len(new)
  BY <1>1
<1>3. Within(new)
  <2> SUFFICES ASSUME NEW j \in 1 .. Len(new) PROVE new[j].spent <= new[j].deposit
    BY DEF Within
  <2>1. c.spent <= c.deposit
    BY DEF Chan
  <2>2. CASE j \in 1 .. Len(chans)
    BY <1>2, <2>2 DEF Within
  <2>3. CASE j = Len(new)
    BY <1>2, <2>1, <2>3
  <2> QED BY <1>2, <2>2, <2>3
<1>4. ASSUME NEW p  PROVE PaidOut(p, new) = PaidOut(p, chans)
  <2>1. PICK s : s = SpentTo(p, chans)
    OBVIOUS
  <2>2. PICK t : t = SpentTo(p, new)
    OBVIOUS
  <2>3. /\ s \in Seq(Int) /\ Len(s) = Len(chans)
        /\ \A j \in 1 .. Len(chans) : s[j] = SpentOf(chans[j], p)
    BY <2>1, SpentNat
  <2>4. /\ t \in Seq(Int) /\ Len(t) = Len(new)
        /\ \A j \in 1 .. Len(new) : t[j] = SpentOf(new[j], p)
    BY <1>2, <2>2, SpentNat
  <2>5. SpentOf(c, p) = 0
    BY DEF SpentOf
  <2>6. t = Append(s, 0)
    <3>1. PICK u : u = Append(s, 0)
      OBVIOUS
    <3>2. /\ u \in Seq(Int) /\ Len(u) = Len(s) + 1 /\ u[Len(u)] = 0
          /\ \A j \in 1 .. Len(s) : u[j] = s[j]
      BY <2>3, <3>1
    <3>3. \A j \in 1 .. Len(t) : t[j] = u[j]
      BY <1>2, <2>3, <2>4, <2>5, <3>2
    <3>4. t = u
      BY <1>2, <2>3, <2>4, <3>2, <3>3, SeqEqual
    <3> QED BY <3>1, <3>4
  <2>7. SumOf(t) = SumOf(s) + 0 /\ SumOf(s) \in Int
    BY <2>3, <2>6, SumOfAppend, SumOfInt
  <2> QED BY <2>1, <2>2, <2>7 DEF PaidOut
<1> QED BY <1>1, <1>2, <1>3, <1>4

LEMMA ChannelShut ==
  ASSUME NEW chans \in Seq(Chan), Within(chans), NEW i \in 1 .. Len(chans)
  PROVE  \E new : /\ new = [chans EXCEPT ![i].open = FALSE]
                  /\ new \in Seq(Chan) /\ Within(new)
                  /\ \A p : PaidOut(p, new) = PaidOut(p, chans)
<1>0. PICK new : new = [chans EXCEPT ![i].open = FALSE]
  OBVIOUS
<1>1. PICK c : c = chans[i]
  OBVIOUS
<1>2. c \in Chan
  BY <1>1
<1>3. PICK d : d = [c EXCEPT !.open = FALSE]
  OBVIOUS
<1>4. d \in Chan /\ d.receiver = c.receiver /\ d.deposit = c.deposit /\ d.spent = c.spent
  BY <1>2, <1>3 DEF Chan
<1>5. new = [chans EXCEPT ![i] = d]
  BY <1>0, <1>1, <1>3
<1> HIDE <1>3
<1>6. /\ new \in Seq(Chan) /\ Len(new) = Len(chans) /\ new[i] = d
      /\ \A j \in 1 .. Len(chans) : j # i => new[j] = chans[j]
  BY <1>4, <1>5, Replaced
<1> HIDE <1>5
<1>7. Within(new)
  BY <1>1, <1>4, <1>6 DEF Within
<1>8. ASSUME NEW p  PROVE PaidOut(p, new) = PaidOut(p, chans)
  <2>1. \A j \in 1 .. Len(chans) : SpentOf(new[j], p) = SpentOf(chans[j], p)
    <3> SUFFICES ASSUME NEW j \in 1 .. Len(chans) PROVE SpentOf(new[j], p) = SpentOf(chans[j], p)
      OBVIOUS
    <3>1. CASE j = i
      BY <1>1, <1>4, <1>6, <3>1 DEF SpentOf
    <3>2. CASE j # i
      BY <1>6, <3>2
    <3> QED BY <3>1, <3>2
  <2>2. SpentTo(p, new) = SpentTo(p, chans)
    BY <1>6, <2>1 DEF SpentTo
  <2> QED BY <2>2 DEF PaidOut
<1> QED BY <1>0, <1>6, <1>7, <1>8

-----------------------------------------------------------------------------
(* Payments of the shares, one after the other.                              *)
Paid == [to : Participants, amount : Nat, settled : BOOLEAN]
ReceivedOf(e, p) == IF e.to = p /\ e.settled THEN e.amount ELSE 0
Receipts(p, d) == [i \in 1 .. Len(d) |-> ReceivedOf(d[i], p)]
Received(p, d) == SumOf(Receipts(p, d))
LEMMA ReceiptsNat ==
  ASSUME NEW d \in Seq(Paid), NEW p
  PROVE  /\ Receipts(p, d) \in Seq(Nat) /\ Receipts(p, d) \in Seq(Int)
         /\ Len(Receipts(p, d)) = Len(d)
         /\ \A i \in 1 .. Len(d) : Receipts(p, d)[i] = ReceivedOf(d[i], p)
         /\ Received(p, d) \in Nat
<1>1. \A i \in 1 .. Len(d) : ReceivedOf(d[i], p) \in Nat
  <2> SUFFICES ASSUME NEW i \in 1 .. Len(d) PROVE ReceivedOf(d[i], p) \in Nat
    OBVIOUS
  <2>1. d[i] \in Paid
    OBVIOUS
  <2> QED BY <2>1 DEF Paid, ReceivedOf
<1>2. PICK s : s = Receipts(p, d)
  OBVIOUS
<1>3. s \in Seq(Nat) /\ s \in Seq(Int) /\ Len(s) = Len(d)
      /\ \A i \in 1 .. Len(d) : s[i] = ReceivedOf(d[i], p)
  BY <1>1, <1>2 DEF Receipts
<1>4. SumOf(s) \in Nat
  BY <1>3, SumOfNat
<1> QED BY <1>2, <1>3, <1>4 DEF Received

LEMMA ReceivedMore ==
  ASSUME NEW d \in Seq(Paid), NEW e \in Paid, NEW p
  PROVE  Received(p, Append(d, e)) = Received(p, d) + ReceivedOf(e, p)
<1>1. PICK r : r = Append(d, e)
  OBVIOUS
<1>2. /\ r \in Seq(Paid) /\ Len(d) \in Nat /\ Len(r) = Len(d) + 1 /\ r[Len(r)] = e
      /\ \A i \in 1 .. Len(d) : r[i] = d[i]
      /\ \A i \in 1 .. Len(r) : i \in 1 .. Len(d) \/ i = Len(r)
  BY <1>1
<1>3. PICK s : s = Receipts(p, d)
  OBVIOUS
<1>4. PICK t : t = Receipts(p, r)
  OBVIOUS
<1>5. s \in Seq(Int) /\ Len(s) = Len(d) /\ \A i \in 1 .. Len(d) : s[i] = ReceivedOf(d[i], p)
  BY <1>3, ReceiptsNat
<1>6. t \in Seq(Int) /\ Len(t) = Len(r) /\ \A i \in 1 .. Len(r) : t[i] = ReceivedOf(r[i], p)
  BY <1>2, <1>4, ReceiptsNat
<1>7. PICK x \in Int : x = ReceivedOf(e, p)
  BY DEF Paid, ReceivedOf
<1>8. PICK u : u = Append(s, x)
  OBVIOUS
<1>9. /\ u \in Seq(Int) /\ Len(u) = Len(s) + 1 /\ u[Len(u)] = x
      /\ \A i \in 1 .. Len(s) : u[i] = s[i]
  BY <1>5, <1>8
<1>10. \A i \in 1 .. Len(t) : t[i] = u[i]
  BY <1>2, <1>5, <1>6, <1>7, <1>9
<1>11. t = u
  BY <1>2, <1>5, <1>6, <1>9, <1>10, SeqEqual
<1>12. SumOf(t) = SumOf(s) + x
  BY <1>5, <1>8, <1>11, SumOfAppend
<1>13. Received(p, r) = SumOf(t) /\ Received(p, d) = SumOf(s)
  BY <1>3, <1>4 DEF Received
<1> QED BY <1>1, <1>7, <1>12, <1>13

Payments == {x \in [chans : Seq(Chan), done : Seq(Paid)] : Within(x.chans)}
Payers(x, sh) == IF ~managed \/ sh.amount = 0 THEN {} ELSE Payable(x.chans, sh)
PaysIt(x, sh) == ~managed \/ sh.amount = 0 \/ Payers(x, sh) # {}
Receipt(x, sh) == [to |-> sh.to, amount |-> sh.amount, settled |-> PaysIt(x, sh)]
PayStep(x, sh) ==
  [chans |-> IF Payers(x, sh) = {} THEN x.chans
             ELSE [x.chans EXCEPT ![First(Payers(x, sh))].spent = @ + sh.amount],
   done |-> Append(x.done, Receipt(x, sh))]
LEMMA PayStepPays ==
  ASSUME NEW x \in Payments, NEW sh \in Owing
  PROVE  /\ PayStep(x, sh) \in Payments
         /\ PayStep(x, sh).done = Append(x.done, Receipt(x, sh))
         /\ Receipt(x, sh) \in Paid
         /\ managed => \A p : PaidOut(p, PayStep(x, sh).chans) =
                                 PaidOut(p, x.chans) + ReceivedOf(Receipt(x, sh), p)
         /\ ~managed => PayStep(x, sh).chans = x.chans /\ Receipt(x, sh).settled
<1>1. PICK a : a = x.chans
  OBVIOUS
<1>2. a \in Seq(Chan) /\ Within(a) /\ x.done \in Seq(Paid)
  BY <1>1 DEF Payments
<1>3. PICK b \in BOOLEAN : b = PaysIt(x, sh)
  BY DEF PaysIt
<1>4. PICK e : e = Receipt(x, sh)
  OBVIOUS
<1>5. e = [to |-> sh.to, amount |-> sh.amount, settled |-> b]
  BY <1>3, <1>4 DEF Receipt
<1>6. /\ e \in Paid /\ e.to = sh.to /\ e.amount = sh.amount /\ e.settled = b
      /\ sh.to \in Participants /\ sh.amount \in Nat
  BY <1>5 DEF Owing, Paid
<1> HIDE <1>5
<1>7. PICK after :
        /\ after = IF Payers(x, sh) = {} THEN x.chans
                   ELSE [x.chans EXCEPT ![First(Payers(x, sh))].spent = @ + sh.amount]
        /\ after \in Seq(Chan) /\ Within(after)
        /\ managed => \A p : PaidOut(p, after) = PaidOut(p, a) + ReceivedOf(e, p)
        /\ ~managed => after = a
  <2>1. CASE Payers(x, sh) = {}
    <3>1. managed => \A p : ReceivedOf(e, p) = 0
      <4>1. managed => ~b \/ sh.amount = 0
        BY <1>3, <2>1 DEF PaysIt
      <4> QED BY <1>6, <4>1 DEF ReceivedOf
    <3>2. \A p : PaidOut(p, a) \in Nat
      BY <1>2, SpentNat
    <3>3. managed => \A p : PaidOut(p, a) = PaidOut(p, a) + ReceivedOf(e, p)
      BY <3>1, <3>2
    <3> QED BY <1>1, <1>2, <2>1, <3>3
  <2>2. CASE Payers(x, sh) # {}
    <3>1. PICK S : S = Payers(x, sh)
      OBVIOUS
    <3>2. \A i \in S : /\ i \in 1 .. Len(a) /\ a[i].receiver = sh.to
                       /\ a[i].deposit - a[i].spent >= sh.amount
      BY <1>1, <1>2, <2>2, <3>1 DEF Payers, Payable
    <3>3. PICK i : i = First(S)
      OBVIOUS
    <3>4. i \in S
      <4>1. S \in SUBSET Nat /\ S # {}
        BY <2>2, <3>1, <3>2
      <4>2. \E n \in S : \A m \in S : n <= m
        BY <4>1, LeastNumber
      <4> QED BY <3>3, <4>2 DEF First
    <3>5. i \in 1 .. Len(a) /\ a[i].receiver = sh.to /\ a[i].deposit - a[i].spent >= sh.amount
      BY <3>2, <3>4
    <3>6. PICK after : /\ after = [a EXCEPT ![i].spent = @ + sh.amount]
                       /\ after \in Seq(Chan) /\ Within(after)
                       /\ \A p : PaidOut(p, after) =
                                   PaidOut(p, a) + IF a[i].receiver = p THEN sh.amount ELSE 0
      BY <1>2, <1>6, <3>5, ChannelPays
    <3>7. b
      BY <1>3, <2>2 DEF PaysIt
    <3>8. \A p : ReceivedOf(e, p) = IF sh.to = p THEN sh.amount ELSE 0
      BY <1>6, <3>7 DEF ReceivedOf
    <3>9. \A p : PaidOut(p, after) = PaidOut(p, a) + ReceivedOf(e, p)
      BY <3>5, <3>6, <3>8
    <3>10. after = IF Payers(x, sh) = {} THEN x.chans
                   ELSE [x.chans EXCEPT ![First(Payers(x, sh))].spent = @ + sh.amount]
      BY <1>1, <2>2, <3>1, <3>3, <3>6
    <3>11. managed
      BY <2>2 DEF Payers
    <3> QED BY <3>6, <3>9, <3>10, <3>11
  <2> QED BY <2>1, <2>2
<1>8. PICK done : done = Append(x.done, e)
  OBVIOUS
<1>9. done \in Seq(Paid)
  BY <1>2, <1>6, <1>8
<1>10. PICK y : y = PayStep(x, sh)
  OBVIOUS
<1>11. y = [chans |-> after, done |-> done]
  BY <1>4, <1>7, <1>8, <1>10 DEF PayStep
<1>12. y \in Payments /\ y.chans = after /\ y.done = done
  BY <1>7, <1>9, <1>11 DEF Payments
<1>13. ~managed => e.settled
  BY <1>3, <1>6 DEF PaysIt
<1> QED BY <1>1, <1>4, <1>6, <1>7, <1>8, <1>10, <1>12, <1>13

-----------------------------------------------------------------------------
PayEq(chans, shares, f) ==
  f = [n \in 0 .. Len(shares) |->
         IF n = 0 THEN [chans |-> chans, done |-> <<>>] ELSE PayStep(f[n - 1], shares[n])]
LEMMA PaySharesUnfold ==
  ASSUME NEW chans, NEW shares
  PROVE  PayShares(chans, shares) = (CHOOSE f : PayEq(chans, shares, f))[Len(shares)]
BY DEF PayShares, PayEq, PayStep, Payers, PaysIt, Receipt

(* What was paid of the shares, and out of which channels.                   *)
Disburses(x, chans, shares, n) ==
  /\ x \in Payments /\ Len(x.done) = n
  /\ \A i \in 1 .. n : x.done[i].to = shares[i].to /\ x.done[i].amount = shares[i].amount
  /\ managed => \A p : PaidOut(p, x.chans) = PaidOut(p, chans) + Received(p, x.done)
  /\ ~managed => x.chans = chans /\ \A i \in 1 .. n : x.done[i].settled

LEMMA PayStepSettles ==
  ASSUME NEW chans \in Seq(Chan), NEW shares \in Seq(Owing), NEW n \in 1 .. Len(shares),
         NEW x, Disburses(x, chans, shares, n - 1)
  PROVE  Disburses(PayStep(x, shares[n]), chans, shares, n)
<1>1. PICK sh \in Owing : sh = shares[n]
  OBVIOUS
<1>2. PICK y : y = PayStep(x, sh)
  OBVIOUS
<1>3. PICK e : e = Receipt(x, sh)
  OBVIOUS
<1>4. x \in Payments /\ Len(x.done) = n - 1 /\ x.done \in Seq(Paid) /\ n \in Nat
  BY DEF Disburses, Payments
<1>5. /\ y \in Payments /\ y.done = Append(x.done, e) /\ e \in Paid
      /\ managed => \A p : PaidOut(p, y.chans) = PaidOut(p, x.chans) + ReceivedOf(e, p)
      /\ ~managed => y.chans = x.chans /\ e.settled
  BY <1>2, <1>3, <1>4, PayStepPays
<1>6. e.to = sh.to /\ e.amount = sh.amount
  BY <1>3 DEF Receipt
<1>7. /\ Len(y.done) = n /\ y.done[n] = e
      /\ \A i \in 1 .. n - 1 : y.done[i] = x.done[i]
  BY <1>4, <1>5
<1>8. \A i \in 1 .. n : y.done[i].to = shares[i].to /\ y.done[i].amount = shares[i].amount
  <2> SUFFICES ASSUME NEW i \in 1 .. n
               PROVE  y.done[i].to = shares[i].to /\ y.done[i].amount = shares[i].amount
    OBVIOUS
  <2>1. CASE i = n
    BY <1>1, <1>6, <1>7, <2>1
  <2>2. CASE i # n
    <3>1. i \in 1 .. n - 1
      BY <1>4, <2>2
    <3> QED BY <1>7, <3>1 DEF Disburses
  <2> QED BY <2>1, <2>2
<1>9. ASSUME NEW p, managed
      PROVE  PaidOut(p, y.chans) = PaidOut(p, chans) + Received(p, y.done)
  <2>1. PaidOut(p, x.chans) = PaidOut(p, chans) + Received(p, x.done)
    BY <1>9 DEF Disburses
  <2>2. Received(p, y.done) = Received(p, x.done) + ReceivedOf(e, p)
    BY <1>4, <1>5, ReceivedMore
  <2>3. PaidOut(p, chans) \in Nat /\ Received(p, x.done) \in Nat
    BY <1>4, SpentNat, ReceiptsNat
  <2>4. ReceivedOf(e, p) \in Nat
    BY <1>5 DEF ReceivedOf, Paid
  <2> QED BY <1>5, <1>9, <2>1, <2>2, <2>3, <2>4
<1>10. ASSUME ~managed
       PROVE  y.chans = chans /\ \A i \in 1 .. n : y.done[i].settled
  <2>1. x.chans = chans /\ \A i \in 1 .. n - 1 : x.done[i].settled
    BY <1>10 DEF Disburses
  <2>2. \A i \in 1 .. n : i = n \/ i \in 1 .. n - 1
    BY <1>4
  <2> QED BY <1>5, <1>7, <1>10, <2>1, <2>2
<1>11. Disburses(y, chans, shares, n)
  BY <1>5, <1>7, <1>8, <1>9, <1>10 DEF Disburses
<1> QED BY <1>1, <1>2, <1>11

LEMMA PaySharesSettles ==
  ASSUME NEW chans \in Seq(Chan), Within(chans), NEW shares \in Seq(Owing)
  PROVE  Disburses(PayShares(chans, shares), chans, shares, Len(shares))
<1>1. PICK N \in Nat : N = Len(shares)
  OBVIOUS
<1>2. PICK x0 : x0 = [chans |-> chans, done |-> <<>>]
  OBVIOUS
<1>3. x0 \in Payments /\ x0.chans = chans /\ x0.done = <<>>
  <2>1. <<>> \in Seq(Paid)
    OBVIOUS
  <2> QED BY <1>2, <2>1 DEF Payments
<1>4. \A n \in 1 .. N : shares[n] \in Owing
  BY <1>1
<1> DEFINE step == [n \in 1 .. N |-> [x \in Payments |-> PayStep(x, shares[n])]]
<1>5. step \in [1 .. N -> [Payments -> Payments]]
  <2>1. \A n \in 1 .. N, x \in Payments : PayStep(x, shares[n]) \in Payments
    BY <1>4, PayStepPays
  <2> HIDE DEF Payments, PayStep
  <2> QED BY <2>1
<1>6. \A n \in 1 .. N, x \in Payments : step[n][x] = PayStep(x, shares[n])
  BY DEF step
<1> HIDE DEF step
<1>7. PICK f : IsOrbit(f, N, Payments, x0, step)
  BY <1>3, <1>5, RecursionExists
<1>8. /\ f \in [0 .. N -> Payments] /\ f[0] = x0
      /\ \A n \in 1 .. N : f[n] = PayStep(f[n - 1], shares[n])
  <2>1. \A n \in 1 .. N : n - 1 \in 0 .. N
    OBVIOUS
  <2>2. f \in [0 .. N -> Payments] /\ f[0] = x0 /\ \A n \in 1 .. N : f[n] = step[n][f[n - 1]]
    BY <1>7 DEF IsOrbit
  <2> QED BY <1>6, <2>1, <2>2
<1>9. PayEq(chans, shares, f)
  <2> DEFINE body(n) == IF n = 0 THEN x0 ELSE PayStep(f[n - 1], shares[n])
  <2>1. \A n \in 0 .. N : n = 0 \/ n \in 1 .. N
    OBVIOUS
  <2>2. \A n \in 0 .. N : f[n] = body(n)
    BY <1>8, <2>1
  <2>3. f = [n \in 0 .. N |-> f[n]]
    BY <1>8
  <2>4. [n \in 0 .. N |-> f[n]] = [n \in 0 .. N |-> body(n)]
    <3> HIDE DEF body
    <3> QED BY <2>2
  <2> QED BY <1>1, <1>2, <2>3, <2>4 DEF PayEq
<1>10. PICK h : h = CHOOSE g : PayEq(chans, shares, g)
  OBVIOUS
<1>11. PayEq(chans, shares, h)
  BY <1>9, <1>10
<1>12. h[0] = x0 /\ \A n \in 1 .. N : h[n] = PayStep(h[n - 1], shares[n])
  <2>1. \A n \in 0 .. N : h[n] = IF n = 0 THEN x0 ELSE PayStep(h[n - 1], shares[n])
    BY <1>1, <1>2, <1>11 DEF PayEq
  <2>2. 0 \in 0 .. N /\ \A n \in 1 .. N : n \in 0 .. N /\ n # 0
    OBVIOUS
  <2> QED BY <2>1, <2>2
<1> DEFINE F == {n \in 0 .. N : Disburses(h[n], chans, shares, n)}
<1>13. 0 \in F
  <2>2. \A p : PaidOut(p, chans) = PaidOut(p, chans) + Received(p, <<>>)
    <3> SUFFICES ASSUME NEW p PROVE PaidOut(p, chans) = PaidOut(p, chans) + Received(p, <<>>)
      OBVIOUS
    <3>1. Received(p, <<>>) = 0
      <4>1. Receipts(p, <<>>) = <<>> /\ <<>> \in Seq(Paid)
        BY DEF Receipts
      <4> QED BY <4>1, SumOfNone DEF Received
    <3>2. PaidOut(p, chans) \in Nat
      BY SpentNat
    <3> QED BY <3>1, <3>2
  <2>3. Disburses(x0, chans, shares, 0)
    BY <1>3, <2>2 DEF Disburses
  <2>4. 0 \in 0 .. N
    OBVIOUS
  <2> QED BY <1>12, <2>3, <2>4
<1>14. ASSUME NEW n \in 1 .. N, n - 1 \in F
       PROVE  n \in F
  <2>1. Disburses(h[n - 1], chans, shares, n - 1) /\ n \in 0 .. N
    BY <1>14
  <2>2. Disburses(PayStep(h[n - 1], shares[n]), chans, shares, n)
    BY <1>1, <2>1, PayStepSettles
  <2> QED BY <1>12, <2>1, <2>2
<1>15. 0 .. N \subseteq F
  <2> HIDE DEF F
  <2> QED BY <1>13, <1>14, RangeInduction
<1>16. Disburses(h[N], chans, shares, N)
  BY <1>15
<1> QED BY <1>1, <1>10, <1>16, PaySharesUnfold

-----------------------------------------------------------------------------
(* The books of the settlements.                                             *)
LEMMA SumGrows ==
  ASSUME NEW s \in Seq(Int), NEW t \in Seq(Int), Len(t) = Len(s) + 1,
         \A j \in 1 .. Len(s) : t[j] = s[j]
  PROVE  SumOf(t) = SumOf(s) + t[Len(t)]
<1>1. PICK n \in Nat : n = Len(s)
  OBVIOUS
<1>2. PICK x \in Int : x = t[n + 1]
  BY <1>1
<1>3. PICK u : u = Append(s, x)
  OBVIOUS
<1>4. u \in Seq(Int) /\ Len(u) = n + 1 /\ u[n + 1] = x /\ \A j \in 1 .. n : u[j] = s[j]
  BY <1>1, <1>3
<1>5. \A j \in 1 .. Len(t) : t[j] = u[j]
  <2> SUFFICES ASSUME NEW j \in 1 .. Len(t) PROVE t[j] = u[j]
    OBVIOUS
  <2>1. j \in 1 .. n \/ j = n + 1
    BY <1>1
  <2> QED BY <1>1, <1>2, <1>4, <2>1
<1>6. t = u
  BY <1>1, <1>4, <1>5, SeqEqual
<1>7. SumOf(t) = SumOf(s) + x
  BY <1>3, <1>6, SumOfAppend
<1> QED BY <1>1, <1>2, <1>7

(* Two sums term by term.                                                    *)
Adds(s, u, t) ==
  /\ Len(s) = Len(t) /\ Len(u) = Len(t)
  /\ \A j \in 1 .. Len(t) : t[j] = s[j] + u[j]
LEMMA SumOfPlus ==
  ASSUME NEW s \in Seq(Int), NEW u \in Seq(Int), NEW t \in Seq(Int), Adds(s, u, t)
  PROVE  SumOf(t) = SumOf(s) + SumOf(u)
<1>0. Len(t) \in Nat /\ Len(s) = Len(t) /\ Len(u) = Len(t)
  BY DEF Adds
<1>a. (\A j \in 1 .. Len(s) : s[j] \in Int) /\ \A j \in 1 .. Len(u) : u[j] \in Int
  OBVIOUS
<1>1. PICK N \in Nat : N = Len(t) /\ N = Len(s) /\ N = Len(u)
  BY <1>0
<1>b. \A j \in 1 .. N : s[j] \in Int /\ u[j] \in Int
  BY <1>1, <1>a
<1>2. PICK f : SumOf(s) = f[N] /\ IsTotal(f, N, s)
  BY <1>1, SumOfTotal
<1>3. PICK g : SumOf(u) = g[N] /\ IsTotal(g, N, u)
  BY <1>1, SumOfTotal
<1>4. PICK h : SumOf(t) = h[N] /\ IsTotal(h, N, t)
  BY <1>1, SumOfTotal
<1> DEFINE F == {n \in 0 .. N : h[n] = f[n] + g[n]}
<1>5. 0 \in F
  BY <1>2, <1>3, <1>4 DEF IsTotal
<1>6. ASSUME NEW n \in 1 .. N, n - 1 \in F
      PROVE  n \in F
  <2>1. n \in 0 .. N /\ n - 1 \in 0 .. N /\ h[n - 1] = f[n - 1] + g[n - 1]
    BY <1>6
  <2>2. PICK x \in Int : x = f[n - 1]
    BY <1>2, <2>1 DEF IsTotal
  <2>3. PICK y \in Int : y = g[n - 1]
    BY <1>3, <2>1 DEF IsTotal
  <2>4. PICK a \in Int : a = s[n]
    BY <1>b
  <2>5. PICK b \in Int : b = u[n]
    BY <1>b
  <2>6. t[n] = a + b
    BY <1>1, <2>4, <2>5 DEF Adds
  <2>7. f[n] = x + a /\ g[n] = y + b /\ h[n] = (x + y) + (a + b)
    BY <1>2, <1>3, <1>4, <2>1, <2>2, <2>3, <2>4, <2>5, <2>6 DEF IsTotal
  <2>8. h[n] = f[n] + g[n]
    BY <2>7
  <2> QED BY <2>1, <2>8
<1>7. 0 .. N \subseteq F
  <2> HIDE DEF F
  <2> QED BY <1>5, <1>6, RangeInduction
<1>8. N \in F
  BY <1>7
<1> QED BY <1>2, <1>3, <1>4, <1>8

(* What is awarded was received or is left unpaid.                           *)
AwardOf(e, p) == IF e.to = p THEN e.amount ELSE 0
UnpaidOf(e, p) == IF e.to = p /\ ~e.settled THEN e.amount ELSE 0
LEMMA AwardedParts ==
  ASSUME NEW d \in Seq(Paid), NEW p
  PROVE  /\ Unpaid(p, d) \in Nat /\ Awarded(p, d) = Received(p, d) + Unpaid(p, d)
         /\ (\A i \in 1 .. Len(d) : d[i].settled) => Unpaid(p, d) = 0
<1>1. PICK N \in Nat : N = Len(d) /\ DOMAIN d = 1 .. N
  OBVIOUS
<1>2. \A i \in 1 .. N : /\ AwardOf(d[i], p) \in Nat /\ UnpaidOf(d[i], p) \in Nat
                        /\ AwardOf(d[i], p) = ReceivedOf(d[i], p) + UnpaidOf(d[i], p)
                        /\ d[i].settled => UnpaidOf(d[i], p) = 0
  <2> SUFFICES ASSUME NEW i \in 1 .. N, NEW e \in Paid, e = d[i]
               PROVE  /\ AwardOf(e, p) \in Nat /\ UnpaidOf(e, p) \in Nat
                      /\ AwardOf(e, p) = ReceivedOf(e, p) + UnpaidOf(e, p)
                      /\ e.settled => UnpaidOf(e, p) = 0
    BY <1>1
  <2> QED BY DEF Paid, AwardOf, UnpaidOf, ReceivedOf
<1>3. PICK a : a = [i \in 1 .. N |-> AwardOf(d[i], p)]
  OBVIOUS
<1>4. PICK u : u = [i \in 1 .. N |-> UnpaidOf(d[i], p)]
  OBVIOUS
<1>5. Awarded(p, d) = SumOf(a) /\ Unpaid(p, d) = SumOf(u)
  BY <1>1, <1>3, <1>4 DEF Awarded, Unpaid, AwardOf, UnpaidOf
<1>6. PICK r : r = Receipts(p, d)
  OBVIOUS
<1>7. r \in Seq(Int) /\ Len(r) = N /\ \A i \in 1 .. N : r[i] = ReceivedOf(d[i], p)
  BY <1>1, <1>6, ReceiptsNat
<1>8. /\ a \in Seq(Int) /\ Len(a) = N /\ \A i \in 1 .. N : a[i] = AwardOf(d[i], p)
      /\ u \in Seq(Int) /\ u \in Seq(Nat) /\ Len(u) = N
      /\ \A i \in 1 .. N : u[i] = UnpaidOf(d[i], p)
  BY <1>2, <1>3, <1>4
<1> HIDE <1>3, <1>4, <1>6
<1>9. SumOf(a) = SumOf(r) + SumOf(u)
  <2>1. Adds(r, u, a)
    BY <1>2, <1>7, <1>8 DEF Adds
  <2> QED BY <1>7, <1>8, <2>1, SumOfPlus
<1>10. SumOf(u) \in Nat
  BY <1>8, SumOfNat
<1>11. ASSUME \A i \in 1 .. Len(d) : d[i].settled
       PROVE  SumOf(u) = 0
  <2>1. Adds(u, u, u)
    <3>1. \A i \in 1 .. N : u[i] = 0
      BY <1>1, <1>2, <1>8, <1>11
    <3> QED BY <1>8, <3>1 DEF Adds
  <2>2. SumOf(u) = SumOf(u) + SumOf(u)
    BY <1>8, <2>1, SumOfPlus
  <2> QED BY <1>10, <2>2
<1> QED BY <1>5, <1>6, <1>9, <1>10, <1>11 DEF Received

(* The settlements on record, and what they leave unpaid.                    *)
Booked == [total : Nat, shares : Seq(Paid)]
UnpaidAll(p, ss) == [i \in 1 .. Len(ss) |-> Unpaid(p, ss[i].shares)]
LEMMA UnpaidAllInt ==
  ASSUME NEW ss \in Seq(Booked), NEW p
  PROVE  /\ UnpaidAll(p, ss) \in Seq(Int) /\ Len(UnpaidAll(p, ss)) = Len(ss)
         /\ \A i \in 1 .. Len(ss) : UnpaidAll(p, ss)[i] = Unpaid(p, ss[i].shares)
<1>1. \A i \in 1 .. Len(ss) : Unpaid(p, ss[i].shares) \in Int
  <2> SUFFICES ASSUME NEW i \in 1 .. Len(ss) PROVE Unpaid(p, ss[i].shares) \in Int
    OBVIOUS
  <2>1. ss[i] \in Booked
    OBVIOUS
  <2>2. PICK d \in Seq(Paid) : d = ss[i].shares
    BY <2>1 DEF Booked
  <2>3. Unpaid(p, d) \in Nat
    BY AwardedParts
  <2> QED BY <2>2, <2>3
<1> QED BY <1>1 DEF UnpaidAll

LEMMA MoreUnpaid ==
  ASSUME NEW ss \in Seq(Booked), NEW b \in Booked, NEW p
  PROVE  SumOf(UnpaidAll(p, Append(ss, b))) = SumOf(UnpaidAll(p, ss)) + Unpaid(p, b.shares)
<1>1. PICK tt : tt = Append(ss, b)
  OBVIOUS
<1>2. PICK n \in Nat : n = Len(ss)
  OBVIOUS
<1>3. /\ tt \in Seq(Booked) /\ Len(tt) = n + 1 /\ tt[n + 1] = b
      /\ \A j \in 1 .. n : tt[j] = ss[j]
      /\ n + 1 \in 1 .. Len(tt) /\ \A j \in 1 .. n : j \in 1 .. Len(tt)
  BY <1>1, <1>2
<1> HIDE <1>1
<1>4. PICK s : s = UnpaidAll(p, ss)
  OBVIOUS
<1>5. PICK t : t = UnpaidAll(p, tt)
  OBVIOUS
<1>6. s \in Seq(Int) /\ Len(s) = n /\ \A i \in 1 .. n : s[i] = Unpaid(p, ss[i].shares)
  BY <1>2, <1>4, UnpaidAllInt
<1>7. t \in Seq(Int) /\ Len(t) = n + 1 /\ \A i \in 1 .. Len(tt) : t[i] = Unpaid(p, tt[i].shares)
  BY <1>3, <1>5, UnpaidAllInt
<1>8. \A j \in 1 .. n : t[j] = s[j]
  BY <1>3, <1>6, <1>7
<1>9. t[n + 1] = Unpaid(p, b.shares)
  BY <1>3, <1>7
<1>10. SumOf(t) = SumOf(s) + t[n + 1]
  BY <1>6, <1>7, <1>8, SumGrows
<1> QED BY <1>1, <1>4, <1>5, <1>9, <1>10

Covers(b) ==
  2 * (SumOf(AmountsOf(b.shares)) + Fee(b.total) - b.total)
    \in (0 - Len(b.shares)) .. Len(b.shares)
BooksTyped ==
  /\ managed \in BOOLEAN
  /\ channels \in Seq(Chan) /\ Within(channels)
  /\ settlements \in Seq(Booked)
  /\ earnings \in [Participants -> Int]
OwedInv ==
  managed => \A p \in Participants :
               earnings[p] = PaidOut(p, channels) + SumOf(UnpaidAll(p, settlements))
FreeInv ==
  ~managed => /\ channels = <<>>
              /\ \A p \in Participants : SumOf(UnpaidAll(p, settlements)) = 0
CoverInv == \A i \in 1 .. Len(settlements) : Covers(settlements[i])
BooksInv == BooksTyped /\ OwedInv /\ FreeInv /\ CoverInv
SettlementInv == WfInv /\ BooksInv

LEMMA SettlementStarts ==
  ASSUME SettlementInit
  PROVE  SettlementInv
<1>1. WfInv
  BY WfStarts DEF SettlementInit
<1>2. /\ managed \in BOOLEAN /\ channels = <<>> /\ settlements = <<>>
      /\ earnings = [p \in Participants |-> 0]
  BY DEF SettlementInit
<1>3. <<>> \in Seq(Chan) /\ <<>> \in Seq(Booked) /\ Len(<<>>) = 0 /\ 1 .. 0 = {}
  OBVIOUS
<1>4. BooksTyped
  BY <1>2, <1>3 DEF BooksTyped, Within
<1>5. \A p : SpentTo(p, <<>>) = <<>> /\ UnpaidAll(p, <<>>) = <<>>
  BY <1>3 DEF SpentTo, UnpaidAll
<1>6. OwedInv /\ FreeInv
  BY <1>2, <1>5, SumOfNone DEF OwedInv, FreeInv, PaidOut
<1>7. CoverInv
  BY <1>2, <1>3 DEF CoverInv
<1> QED BY <1>1, <1>4, <1>6, <1>7 DEF SettlementInv, BooksInv

LEMMA WfStutters ==
  ASSUME WfInv, UNCHANGED wfVars
  PROVE  WfInv'
<1>1. UNCHANGED <<graph, run, tasks, results>>
  BY DEF wfVars
<1>2. GraphInv' /\ RunInv'
  BY <1>1 DEF WfInv, GraphInv, RunInv
<1>3. Behind' = Behind
  BY <1>1 DEF Behind
<1>4. LevelInv'
  BY <1>1, <1>3 DEF WfInv, LevelInv, Succeeded
<1>5. ResultsInv'
  BY <1>1, <1>3 DEF WfInv, ResultsInv, Accounted
<1> QED BY <1>2, <1>4, <1>5 DEF WfInv

LEMMA BooksStutter ==
  ASSUME BooksInv, UNCHANGED payVars
  PROVE  BooksInv'
<1>1. UNCHANGED <<managed, channels, settlements, earnings>>
  BY DEF payVars
<1> QED BY <1>1 DEF BooksInv, BooksTyped, OwedInv, FreeInv, CoverInv

LEMMA BooksOpen ==
  ASSUME BooksInv, NEW from \in Senders, NEW to \in Participants, NEW d \in Deposits,
         OpenChannel(from, to, d)
  PROVE  BooksInv'
<1>1. PICK c : c = Channel(from, to, d)
  OBVIOUS
<1>2. managed /\ channels' = Append(channels, c) /\ UNCHANGED <<managed, settlements, earnings>>
  BY <1>1 DEF OpenChannel
<1>3. c \in Chan /\ c.spent = 0
  <2>1. d \in Nat
    BY PaymentAssumption
  <2>2. from \in Parties /\ to \in Parties
    BY DEF Parties
  <2> QED BY <1>1, <2>1, <2>2 DEF Channel, Chan
<1>4. BooksTyped /\ OwedInv /\ FreeInv /\ CoverInv
  BY DEF BooksInv
<1>5. channels' \in Seq(Chan) /\ Within(channels') /\ \A p : PaidOut(p, channels') = PaidOut(p, channels)
  BY <1>2, <1>3, <1>4, ChannelAdded DEF BooksTyped
<1>6. BooksTyped' /\ CoverInv' /\ FreeInv'
  BY <1>2, <1>4, <1>5 DEF BooksTyped, CoverInv, FreeInv
<1>7. OwedInv'
  BY <1>2, <1>4, <1>5 DEF OwedInv
<1> QED BY <1>6, <1>7 DEF BooksInv

LEMMA BooksClose ==
  ASSUME BooksInv, NEW i \in DOMAIN channels, CloseChannel(i)
  PROVE  BooksInv'
<1>1. /\ channels' = [channels EXCEPT ![i].open = FALSE]
      /\ UNCHANGED <<managed, settlements, earnings>>
  BY DEF CloseChannel
<1>2. BooksTyped /\ OwedInv /\ FreeInv /\ CoverInv
  BY DEF BooksInv
<1>3. channels \in Seq(Chan) /\ Within(channels) /\ i \in 1 .. Len(channels)
  BY <1>2 DEF BooksTyped
<1>4. channels' \in Seq(Chan) /\ Within(channels') /\ \A p : PaidOut(p, channels') = PaidOut(p, channels)
  BY <1>1, <1>3, ChannelShut
<1>5. BooksTyped' /\ CoverInv'
  BY <1>1, <1>2, <1>4 DEF BooksTyped, CoverInv
<1>6. FreeInv'
  <2>1. channels # <<>>
    BY <1>3
  <2> QED BY <1>1, <1>2, <2>1 DEF FreeInv
<1>7. OwedInv'
  BY <1>1, <1>2, <1>4 DEF OwedInv
<1> QED BY <1>5, <1>6, <1>7 DEF BooksInv

-----------------------------------------------------------------------------
(* A settlement: what it awards leaves the channels or is left unpaid.       *)
LEMMA BooksSettle ==
  ASSUME BooksInv, NEW c \in SettledCosts, NEW rules \in SplitRules, Settle(c, rules)
  PROVE  BooksInv'
<1>1. BooksTyped /\ OwedInv /\ FreeInv /\ CoverInv
  BY DEF BooksInv
<1>2. /\ channels \in Seq(Chan) /\ Within(channels) /\ settlements \in Seq(Booked)
      /\ earnings \in [Participants -> Int] /\ managed \in BOOLEAN
  BY <1>1 DEF BooksTyped
<1>3. c \in Nat /\ rules \in Rules /\ TotalWeight(rules) > 0
  <2>1. TotalWeight(rules) > 0
    BY DEF Settle
  <2> QED BY <2>1, PaymentAssumption DEF Rules
<1>4. PICK sh : sh = CalculateShares(c, rules)
  OBVIOUS
<1>5. PICK out : out = PayShares(channels, sh)
  OBVIOUS
<1>6. /\ channels' = out.chans
      /\ settlements' = Append(settlements, [total |-> c, shares |-> out.done])
      /\ earnings' = [p \in Participants |-> earnings[p] + Awarded(p, out.done)]
      /\ managed' = managed
  BY <1>4, <1>5 DEF Settle
<1>7. sh \in Seq(Owing) /\ Len(sh) = Len(rules) /\ Len(sh) \in Nat
  BY <1>3, <1>4, SharesAre
<1>8. Disburses(out, channels, sh, Len(sh))
  BY <1>2, <1>5, <1>7, PaySharesSettles
<1>9. 2 * (SumOf(AmountsOf(sh)) + Fee(c) - c) \in (0 - Len(sh)) .. Len(sh)
  BY <1>3, <1>4, <1>7, SharesCover
<1> HIDE <1>4, <1>5
<1>10. PICK d : d = out.done
  OBVIOUS
<1>11. /\ out.chans \in Seq(Chan) /\ Within(out.chans) /\ d \in Seq(Paid) /\ Len(d) = Len(sh)
       /\ \A i \in 1 .. Len(sh) : d[i].amount = sh[i].amount
       /\ managed => \A p : PaidOut(p, out.chans) = PaidOut(p, channels) + Received(p, d)
       /\ ~managed => out.chans = channels /\ \A i \in 1 .. Len(d) : d[i].settled
  BY <1>8, <1>10 DEF Disburses, Payments
<1>12. PICK b : b = [total |-> c, shares |-> d]
  OBVIOUS
<1>13. b \in Booked /\ b.total = c /\ b.shares = d
  BY <1>3, <1>11, <1>12 DEF Booked
<1>14. settlements' = Append(settlements, b) /\ settlements' \in Seq(Booked)
  BY <1>2, <1>6, <1>10, <1>12, <1>13
<1> HIDE <1>12
<1>15. ASSUME NEW p \in Participants
       PROVE  \E x \in Int, r \in Nat, u \in Nat :
                /\ earnings[p] = x /\ Received(p, d) = r /\ Unpaid(p, d) = u
                /\ earnings'[p] = x + (r + u)
                /\ SumOf(UnpaidAll(p, settlements)) \in Int
                /\ SumOf(UnpaidAll(p, settlements')) = SumOf(UnpaidAll(p, settlements)) + u
  <2>1. PICK x \in Int : x = earnings[p]
    BY <1>2
  <2>2. PICK r \in Nat : r = Received(p, d)
    BY <1>11, ReceiptsNat
  <2>3. PICK u \in Nat : u = Unpaid(p, d)
    BY <1>11, AwardedParts
  <2>4. earnings'[p] = x + (r + u)
    BY <1>6, <1>10, <1>11, <2>1, <2>2, <2>3, AwardedParts
  <2>5. SumOf(UnpaidAll(p, settlements)) \in Int
    BY <1>2, UnpaidAllInt, SumOfInt
  <2>6. SumOf(UnpaidAll(p, settlements')) = SumOf(UnpaidAll(p, settlements)) + u
    BY <1>2, <1>13, <1>14, <2>3, MoreUnpaid
  <2> QED BY <2>1, <2>2, <2>3, <2>4, <2>5, <2>6
<1>16. BooksTyped'
  <2>1. \A p \in Participants : earnings'[p] \in Int
    BY <1>15
  <2>2. earnings' \in [Participants -> Int]
    BY <1>6, <2>1
  <2> QED BY <1>2, <1>6, <1>11, <1>14, <2>2 DEF BooksTyped
<1>17. OwedInv'
  <2>1. ASSUME managed, NEW p \in Participants
        PROVE  earnings'[p] = PaidOut(p, channels') + SumOf(UnpaidAll(p, settlements'))
    <3>1. PICK x \in Int, r \in Nat, u \in Nat :
            /\ earnings[p] = x /\ Received(p, d) = r /\ Unpaid(p, d) = u
            /\ earnings'[p] = x + (r + u)
            /\ SumOf(UnpaidAll(p, settlements)) \in Int
            /\ SumOf(UnpaidAll(p, settlements')) = SumOf(UnpaidAll(p, settlements)) + u
      BY <1>15
    <3>2. PICK a \in Nat : a = PaidOut(p, channels)
      BY <1>2, SpentNat
    <3>3. PaidOut(p, channels') = a + r
      BY <1>6, <1>11, <2>1, <3>1, <3>2
    <3>4. x = a + SumOf(UnpaidAll(p, settlements))
      BY <1>1, <2>1, <3>1, <3>2 DEF OwedInv
    <3> QED BY <3>1, <3>3, <3>4
  <2> QED BY <1>6, <2>1 DEF OwedInv
<1>18. FreeInv'
  <2>1. ASSUME ~managed, NEW p \in Participants
        PROVE  SumOf(UnpaidAll(p, settlements')) = 0
    <3>1. Unpaid(p, d) = 0
      BY <1>11, <2>1, AwardedParts
    <3>2. SumOf(UnpaidAll(p, settlements)) = 0
      BY <1>1, <2>1 DEF FreeInv
    <3> QED BY <1>15, <3>1, <3>2
  <2> QED BY <1>1, <1>6, <1>11, <2>1 DEF FreeInv
<1>19. Covers(b)
  <2>1. AmountsOf(d) = AmountsOf(sh)
    BY <1>11 DEF AmountsOf
  <2> QED BY <1>9, <1>11, <1>13, <2>1 DEF Covers
<1>20. CoverInv'
  <2>1. ASSUME NEW i \in 1 .. Len(settlements')
        PROVE  Covers(settlements'[i])
    <3>1. \/ i \in 1 .. Len(settlements) /\ settlements'[i] = settlements[i]
          \/ settlements'[i] = b
      BY <1>2, <1>13, <1>14
    <3> QED BY <1>1, <1>19, <3>1 DEF CoverInv
  <2> QED BY <2>1 DEF CoverInv
<1> QED BY <1>16, <1>17, <1>18, <1>20 DEF BooksInv

LEMMA SettlementKept ==
  ASSUME SettlementInv,
         \/ WfNext /\ UNCHANGED payVars
         \/ SettlementNext /\ UNCHANGED wfVars
         \/ UNCHANGED settleVars
  PROVE  SettlementInv'
<1>1. WfInv /\ BooksInv
  BY DEF SettlementInv
<1>2. CASE WfNext /\ UNCHANGED payVars
  BY <1>1, <1>2, WfKept, BooksStutter DEF SettlementInv
<1>3. CASE SettlementNext /\ UNCHANGED wfVars
  <2>1. WfInv'
    BY <1>1, <1>3, WfStutters
  <2>2. ASSUME \E from \in Senders, to \in Participants, d \in Deposits : OpenChannel(from, to, d)
        PROVE  BooksInv'
    BY <1>1, <2>2, BooksOpen
  <2>3. ASSUME \E i \in DOMAIN channels : CloseChannel(i)
        PROVE  BooksInv'
    BY <1>1, <2>3, BooksClose
  <2>4. ASSUME \E cost \in SettledCosts, rules \in SplitRules : Settle(cost, rules)
        PROVE  BooksInv'
    BY <1>1, <2>4, BooksSettle
  <2>5. BooksInv'
    BY <1>3, <2>2, <2>3, <2>4 DEF SettlementNext
  <2> QED BY <2>1, <2>5 DEF SettlementInv
<1>4. CASE UNCHANGED settleVars
  <2>1. UNCHANGED wfVars /\ UNCHANGED payVars
    BY <1>4 DEF settleVars
  <2> QED BY <1>1, <2>1, WfStutters, BooksStutter DEF SettlementInv
<1> QED BY <1>2, <1>3, <1>4

LEMMA SettlementHolds ==
  ASSUME SettlementInv
  PROVE  WorkflowsPaid
<1>1. BooksTyped /\ OwedInv /\ FreeInv /\ CoverInv /\ WfInv
  BY DEF SettlementInv, BooksInv
<1>2. channels \in Seq(Chan) /\ Within(channels) /\ settlements \in Seq(Booked)
  BY <1>1 DEF BooksTyped
<1>3. DOMAIN channels = 1 .. Len(channels) /\ DOMAIN settlements = 1 .. Len(settlements)
  BY <1>2
<1>4. CompletedRanAll /\ DependenciesSucceeded /\ SplitsCoverCost
  BY <1>1, WfHolds, SplitsHold
<1>5. EarningsArePaidOrOwed
  <2>1. ASSUME NEW i \in DOMAIN channels
        PROVE  channels[i].spent \in 0 .. channels[i].deposit
    <3>1. channels[i] \in Chan /\ channels[i].spent <= channels[i].deposit
      BY <1>2, <1>3 DEF Within
    <3> QED BY <3>1 DEF Chan
  <2>2. ASSUME NEW p \in Participants
        PROVE  /\ PaidTo(p) = PaidOut(p, channels)
               /\ SumOf([i \in DOMAIN settlements |-> Unpaid(p, settlements[i].shares)])
                    = SumOf(UnpaidAll(p, settlements))
    BY <1>3 DEF PaidTo, PaidOut, SpentTo, SpentOf, UnpaidAll
  <2>3. ASSUME ~managed, NEW p \in Participants  PROVE PaidOut(p, channels) = 0
    <3>1. channels = <<>> /\ SpentTo(p, <<>>) = <<>>
      BY <1>1, <2>3 DEF FreeInv, SpentTo
    <3> QED BY <3>1, SumOfNone DEF PaidOut
  <2> QED BY <1>1, <2>1, <2>2, <2>3 DEF EarningsArePaidOrOwed, OwedInv, FreeInv
<1>6. SharesCoverCost
  <2> SUFFICES ASSUME NEW i \in DOMAIN settlements
               PROVE  LET shares == settlements[i].shares
                          off == SumOf([j \in DOMAIN shares |-> shares[j].amount])
                                   + Fee(settlements[i].total) - settlements[i].total
                      IN  2 * off \in (0 - Len(shares)) .. Len(shares)
    BY DEF SharesCoverCost
  <2>1. PICK b \in Booked : b = settlements[i]
    BY <1>2, <1>3
  <2>2. PICK d \in Seq(Paid) : d = b.shares
    BY DEF Booked
  <2>3. [j \in DOMAIN d |-> d[j].amount] = AmountsOf(d)
    BY DEF AmountsOf
  <2>4. Covers(b)
    BY <1>1, <1>3, <2>1 DEF CoverInv
  <2> QED BY <2>1, <2>2, <2>3, <2>4 DEF Covers
<1> QED BY <1>4, <1>5, <1>6 DEF WorkflowsPaid

(* Theorem: a workflow runs every step in the order of its dependencies and its cost *)
(* is split over its listings, whatever definitions clients send and however steps   *)
(* fail or time out; a settlement shares out its cost, whatever cost and rules it is *)
(* asked for, and what participants earned has left the channels or is on record as  *)
(* not settled when the engine has a channel manager, whichever channels are open.   *)
THEOREM WorkflowsArePaid == Spec => []WorkflowsPaid
<1>1. Init => SettlementInv
  BY SettlementStarts DEF Init
<1>2. SettlementInv /\ [Next]_vars => SettlementInv'
  <2> SUFFICES ASSUME SettlementInv, [Next]_vars  PROVE SettlementInv'
    OBVIOUS
  <2>1. \/ WfNext /\ UNCHANGED payVars
        \/ SettlementNext /\ UNCHANGED wfVars
        \/ UNCHANGED settleVars
    BY DEF Next, vars, components, settleVars
  <2> QED BY <2>1, SettlementKept
<1>3. SettlementInv => WorkflowsPaid
  BY SettlementHolds
<1> QED BY <1>1, <1>2, <1>3, PTL DEF Spec

-----------------------------------------------------------------------------
(* Budgets. Each downgrade of the catalogue goes down a height, and never    *)
(* back to a dearer tier.                                                    *)
CatalogModels == FrontierModels \cup MidTierModels \cup LowTierModels
HighModels == FrontierModels \cup {"qwen.qwen3-vl-235b-a22b", "google.gemma-3-27b-it",
                                  "mistral.ministral-3-14b-instruct"}
MiddleModels == (MidTierModels \cap ToolModels)
                \cup {"qwen.qwen3-next-80b-a3b", "moonshot.kimi-k2-thinking",
                      "openai.gpt-oss-120b-1:0", "google.gemma-3-12b-it",
                      "mistral.ministral-3-8b-instruct"}
PathHeight(m) == IF m \in HighModels THEN 2 ELSE IF m \in MiddleModels THEN 1 ELSE 0
LEMMA PathHeightIs ==
  ASSUME NEW m \in CatalogModels
  PROVE  PathHeight(m) \in 0 .. 2
BY DEF PathHeight

LEMMA CatalogIs ==
  /\ DOMAIN MODEL_CATALOG = CatalogModels
  /\ \A m \in CatalogModels :
       /\ GetDowngrade(m) = DowngradeTo(m) /\ MODEL_CATALOG[m].cost = AvgCost(m)
       /\ GetTier(m) = IF m \in FrontierModels THEN 1 ELSE IF m \in MidTierModels THEN 2 ELSE 3
BY DEF MODEL_CATALOG, CatalogModels, GetDowngrade, GetTier

(* Prices, for the models that step down and those they step down to.        *)
LEMMA PricesOfTools ==
  /\ \A m \in FrontierModels \ {"gpt-5.2-chat-latest"} : AvgCost(m) = 45000
  /\ \A m \in MidTierModels \cap ToolModels :
       AvgCost(m) \in {20000, 9000, 7875, 6250}
  /\ AvgCost("gpt-5.2-chat-latest") = 7875 /\ AvgCost("claude-sonnet-4-6") = 9000
  /\ AvgCost("claude-haiku-4-5-20251001") = 2400
<1>1. \A m \in FrontierModels \ {"gpt-5.2-chat-latest"} : AvgCost(m) = 45000
  <2> SUFFICES ASSUME NEW m \in FrontierModels \ {"gpt-5.2-chat-latest"}
               PROVE  AvgCost(m) = 45000
    OBVIOUS
  <2>1. m \in {"claude-opus-4-20250514", "claude-opus-4-6-20250527", "claude-opus-4-6",
               "claude-opus-4-5-20251101", "claude-opus-4-5",
               "us.anthropic.claude-opus-4-5-20251101-v1:0"}
    BY DEF FrontierModels
  <2> QED BY <2>1, SMTT(60) DEF AvgCost
<1>2. \A m \in {"claude-sonnet-4-6", "claude-sonnet-4-5-20250929", "claude-sonnet-4-20250514"} :
        AvgCost(m) = 9000
  BY SMTT(60) DEF AvgCost, FrontierModels
<1>3. AvgCost("gpt-4-turbo") = 20000 /\ AvgCost("gpt-5.2-codex") = 7875
      /\ AvgCost("gpt-5.2-chat-latest") = 7875
  BY SMTT(60) DEF AvgCost, FrontierModels
<1>4. AvgCost("gpt-4o") = 6250
  BY SMTT(60) DEF AvgCost, FrontierModels
<1>5. AvgCost("claude-haiku-4-5-20251001") = 2400
  BY SMTT(60) DEF AvgCost, FrontierModels
<1>6. MidTierModels \cap ToolModels =
        {"claude-sonnet-4-6", "claude-sonnet-4-5-20250929", "claude-sonnet-4-20250514",
         "gpt-5.2-codex", "gpt-4o", "gpt-4-turbo"}
  BY DEF MidTierModels, ToolModels, FrontierModels
<1> QED BY <1>1, <1>2, <1>3, <1>4, <1>5, <1>6

LEMMA PricesOfOthers ==
  /\ AvgCost("qwen.qwen3-vl-235b-a22b") = 6000 /\ AvgCost("qwen.qwen3-next-80b-a3b") = 3600
  /\ AvgCost("qwen.qwen3-coder-30b-a3b-v1:0") = 610
  /\ AvgCost("moonshot.kimi-k2-thinking") = 1550 /\ AvgCost("moonshotai.kimi-k2.5") = 1800
  /\ AvgCost("openai.gpt-oss-120b-1:0") = 420 /\ AvgCost("openai.gpt-oss-20b-1:0") = 85
  /\ AvgCost("google.gemma-3-27b-it") = 95 /\ AvgCost("google.gemma-3-12b-it") = 85
  /\ AvgCost("google.gemma-3-4b-it") = 60
  /\ AvgCost("mistral.ministral-3-14b-instruct") = 200
  /\ AvgCost("mistral.ministral-3-8b-instruct") = 150
  /\ AvgCost("mistral.ministral-3-3b-instruct") = 100
BY SMTT(60) DEF AvgCost, FrontierModels

Falls(m) == AvgCost(DowngradeTo(m)) < AvgCost(m) <=> m \notin DearerNext

LEMMA FrontierDescends ==
  ASSUME NEW m \in FrontierModels
  PROVE  /\ DowngradeTo(m) \in MidTierModels \ FrontierModels
         /\ PathHeight(m) = 2 /\ PathHeight(DowngradeTo(m)) = 1 /\ Falls(m)
<1>1. DowngradeTo(m) = "claude-sonnet-4-6"
  BY SMTT(60) DEF DowngradeTo, FrontierModels, MidTierModels, ToolModels
<1>2. PathHeight(m) = 2
  BY DEF PathHeight, HighModels
<1>3. "claude-sonnet-4-6" \in MidTierModels \ FrontierModels /\ PathHeight("claude-sonnet-4-6") = 1
  BY DEF PathHeight, HighModels, MiddleModels, FrontierModels, MidTierModels, ToolModels
<1>4. Falls(m)
  <2>1. m # "moonshot.kimi-k2-thinking"
    BY DEF FrontierModels
  <2> QED BY <1>1, <2>1, PricesOfTools DEF Falls, DearerNext
<1> QED BY <1>1, <1>2, <1>3, <1>4

LEMMA MidTierDescends ==
  ASSUME NEW m \in MidTierModels, DowngradeTo(m) # Lowest
  PROVE  /\ m \notin FrontierModels
         /\ DowngradeTo(m) \in (MidTierModels \cup LowTierModels) \ FrontierModels
         /\ PathHeight(DowngradeTo(m)) < PathHeight(m) /\ Falls(m)
<1>1. m \notin FrontierModels
  BY DEF FrontierModels, MidTierModels
<1>2. CASE m \in ToolModels
  <2>1. DowngradeTo(m) = "claude-haiku-4-5-20251001"
    BY <1>1, <1>2, SMTT(60) DEF DowngradeTo, FrontierModels, MidTierModels, ToolModels
  <2>2. PathHeight("claude-haiku-4-5-20251001") = 0 /\ "claude-haiku-4-5-20251001" \in LowTierModels \ FrontierModels
    BY DEF PathHeight, HighModels, MiddleModels, LowTierModels, FrontierModels, MidTierModels
  <2>3. m \notin {"qwen.qwen3-vl-235b-a22b", "google.gemma-3-27b-it",
                  "mistral.ministral-3-14b-instruct"}
    BY <1>2 DEF ToolModels, FrontierModels
  <2>4. PathHeight(m) = 1
    BY <1>1, <1>2, <2>3 DEF PathHeight, HighModels, MiddleModels
  <2>5. Falls(m)
    <3>1. m \notin DearerNext
      BY <1>1, <1>2 DEF DearerNext, ToolModels, FrontierModels
    <3>2. AvgCost(m) \in {20000, 9000, 7875, 6250}
      BY <1>2, PricesOfTools
    <3> QED BY <2>1, <3>1, <3>2, PricesOfTools DEF Falls
  <2> QED BY <1>1, <2>1, <2>2, <2>4, <2>5
<1>3. CASE m \notin ToolModels
  <2>1. m \in {"qwen.qwen3-vl-235b-a22b",
     "qwen.qwen3-next-80b-a3b", "moonshot.kimi-k2-thinking", "moonshotai.kimi-k2.5",
     "openai.gpt-oss-120b-1:0", "minimax.minimax-m2.1"}
    BY <1>3 DEF MidTierModels, ToolModels
  <2>2. m \notin {"moonshotai.kimi-k2.5", "minimax.minimax-m2.1"}
    BY SMTT(60) DEF DowngradeTo, FrontierModels, MidTierModels, ToolModels
  <2>3. CASE m = "qwen.qwen3-vl-235b-a22b"
    <3>1. DowngradeTo(m) = "qwen.qwen3-next-80b-a3b"
      BY <2>3, SMTT(60) DEF DowngradeTo, FrontierModels, MidTierModels, ToolModels
    <3>2. Falls(m)
      BY <2>3, <3>1, PricesOfOthers DEF Falls, DearerNext
    <3> QED BY <1>1, <2>3, <3>1, <3>2 DEF PathHeight, HighModels, MiddleModels, FrontierModels, MidTierModels
  <2>4. CASE m = "qwen.qwen3-next-80b-a3b"
    <3>1. DowngradeTo(m) = "qwen.qwen3-coder-30b-a3b-v1:0"
      BY <2>4, SMTT(60) DEF DowngradeTo, FrontierModels, MidTierModels, ToolModels
    <3>2. Falls(m)
      BY <2>4, <3>1, PricesOfOthers DEF Falls, DearerNext
    <3> QED BY <1>1, <2>4, <3>1, <3>2 DEF PathHeight, HighModels, MiddleModels, FrontierModels, MidTierModels, LowTierModels
  <2>5. CASE m = "moonshot.kimi-k2-thinking"
    <3>1. DowngradeTo(m) = "moonshotai.kimi-k2.5"
      BY <2>5, SMTT(60) DEF DowngradeTo, FrontierModels, MidTierModels, ToolModels
    <3>2. Falls(m)
      BY <2>5, <3>1, PricesOfOthers DEF Falls, DearerNext
    <3> QED BY <1>1, <2>5, <3>1, <3>2 DEF PathHeight, HighModels, MiddleModels, FrontierModels, MidTierModels, ToolModels
  <2>6. CASE m = "openai.gpt-oss-120b-1:0"
    <3>1. DowngradeTo(m) = "openai.gpt-oss-20b-1:0"
      BY <2>6, SMTT(60) DEF DowngradeTo, FrontierModels, MidTierModels, ToolModels
    <3>2. Falls(m)
      BY <2>6, <3>1, PricesOfOthers DEF Falls, DearerNext
    <3> QED BY <1>1, <2>6, <3>1, <3>2 DEF PathHeight, HighModels, MiddleModels, FrontierModels, MidTierModels, LowTierModels
  <2> QED BY <2>1, <2>2, <2>3, <2>4, <2>5, <2>6
<1> QED BY <1>2, <1>3

LEMMA LowTierDescends ==
  ASSUME NEW m \in LowTierModels, DowngradeTo(m) # Lowest
  PROVE  /\ m \notin FrontierModels \cup MidTierModels
         /\ DowngradeTo(m) \in LowTierModels \ (FrontierModels \cup MidTierModels)
         /\ PathHeight(DowngradeTo(m)) < PathHeight(m) /\ Falls(m)
<1>1. m \notin FrontierModels \cup MidTierModels
  BY DEF FrontierModels, MidTierModels, LowTierModels
<1>2. m \in {"google.gemma-3-27b-it", "google.gemma-3-12b-it",
             "mistral.ministral-3-14b-instruct", "mistral.ministral-3-8b-instruct"}
  BY <1>1, SMTT(60) DEF LowTierModels, DowngradeTo, MidTierModels, FrontierModels, ToolModels
<1>3. CASE m = "google.gemma-3-27b-it"
  <2>1. DowngradeTo(m) = "google.gemma-3-12b-it"
    BY <1>3, SMTT(60) DEF DowngradeTo, FrontierModels, MidTierModels, ToolModels
  <2>2. Falls(m)
    BY <1>3, <2>1, PricesOfOthers DEF Falls, DearerNext
  <2> QED BY <1>1, <1>3, <2>1, <2>2 DEF PathHeight, HighModels, MiddleModels, FrontierModels, MidTierModels, LowTierModels
<1>4. CASE m = "google.gemma-3-12b-it"
  <2>1. DowngradeTo(m) = "google.gemma-3-4b-it"
    BY <1>4, SMTT(60) DEF DowngradeTo, FrontierModels, MidTierModels, ToolModels
  <2>2. Falls(m)
    BY <1>4, <2>1, PricesOfOthers DEF Falls, DearerNext
  <2> QED BY <1>1, <1>4, <2>1, <2>2 DEF PathHeight, HighModels, MiddleModels, FrontierModels, MidTierModels, LowTierModels
<1>5. CASE m = "mistral.ministral-3-14b-instruct"
  <2>1. DowngradeTo(m) = "mistral.ministral-3-8b-instruct"
    BY <1>5, SMTT(60) DEF DowngradeTo, FrontierModels, MidTierModels, ToolModels
  <2>2. Falls(m)
    BY <1>5, <2>1, PricesOfOthers DEF Falls, DearerNext
  <2> QED BY <1>1, <1>5, <2>1, <2>2 DEF PathHeight, HighModels, MiddleModels, FrontierModels, MidTierModels, LowTierModels
<1>6. CASE m = "mistral.ministral-3-8b-instruct"
  <2>1. DowngradeTo(m) = "mistral.ministral-3-3b-instruct"
    BY <1>6, SMTT(60) DEF DowngradeTo, FrontierModels, MidTierModels, ToolModels
  <2>2. Falls(m)
    BY <1>6, <2>1, PricesOfOthers DEF Falls, DearerNext
  <2> QED BY <1>1, <1>6, <2>1, <2>2 DEF PathHeight, HighModels, MiddleModels, FrontierModels, MidTierModels, LowTierModels
<1> QED BY <1>2, <1>3, <1>4, <1>5, <1>6

Drops(m, n) == MODEL_CATALOG[n].cost < MODEL_CATALOG[m].cost <=> m \notin DearerNext
LEMMA DowngradeDescends ==
  ASSUME NEW m \in CatalogModels, GetDowngrade(m) # Lowest
  PROVE  /\ GetDowngrade(m) \in CatalogModels
         /\ PathHeight(GetDowngrade(m)) < PathHeight(m) /\ GetTier(m) <= GetTier(GetDowngrade(m))
         /\ Drops(m, GetDowngrade(m))
<1>1. GetDowngrade(m) = DowngradeTo(m)
  BY CatalogIs
<1>2. CASE m \in FrontierModels
  <2>1. GetTier(m) = 1 /\ DowngradeTo(m) \in CatalogModels /\ GetTier(DowngradeTo(m)) = 2
    BY <1>2, CatalogIs, FrontierDescends DEF CatalogModels
  <2>2. Drops(m, DowngradeTo(m))
    BY <1>1, <1>2, <2>1, FrontierDescends, CatalogIs DEF Drops, Falls
  <2> QED BY <1>1, <1>2, <2>1, <2>2, FrontierDescends
<1>3. CASE m \in MidTierModels
  <2>1. DowngradeTo(m) \in CatalogModels /\ GetTier(DowngradeTo(m)) \in {2, 3} /\ GetTier(m) = 2
    BY <1>1, <1>3, CatalogIs, MidTierDescends DEF CatalogModels
  <2>2. Drops(m, DowngradeTo(m))
    BY <1>1, <1>3, <2>1, MidTierDescends, CatalogIs DEF Drops, Falls
  <2> QED BY <1>1, <1>3, <2>1, <2>2, MidTierDescends
<1>4. CASE m \in LowTierModels
  <2>1. DowngradeTo(m) \in CatalogModels /\ GetTier(DowngradeTo(m)) = 3 /\ GetTier(m) = 3
    BY <1>1, <1>4, CatalogIs, LowTierDescends DEF CatalogModels
  <2>2. Drops(m, DowngradeTo(m))
    BY <1>1, <1>4, <2>1, LowTierDescends, CatalogIs DEF Drops, Falls
  <2> QED BY <1>1, <1>4, <2>1, <2>2, LowTierDescends
<1> QED BY <1>2, <1>3, <1>4 DEF CatalogModels

Descends(path) ==
  \A i, j \in DOMAIN path : i < j => /\ PathHeight(path[j]) < PathHeight(path[i])
                                     /\ GetTier(path[i]) <= GetTier(path[j])
                                     /\ j = i + 1 => Drops(path[i], path[j])
BudgetRows == [org : BudgetOrgs, project : Projects \cup {NoProject}, cap : Caps,
               action : BudgetActions, spend : {0}]
Told == [action : BudgetActions, severity : {"info", "warning", "critical"},
         suggested : CatalogModels \cup {Lowest}]
\* What a caller was told leads on from the model it asked for last.
BudgetInv ==
  /\ budgets \in Seq(BudgetRows)
  /\ caller \in [path : Seq(CatalogModels), told : Told]
  /\ Descends(caller.path)
  /\ caller.told.suggested # Lowest =>
       /\ caller.path # <<>>
       /\ caller.told.suggested = GetDowngrade(caller.path[Len(caller.path)])

LEMMA UtilizationIs ==
  ASSUME NEW b \in BudgetRows, NEW c \in Costs
  PROVE  /\ Utilization(b, c) \in Nat
         /\ b.cap * Utilization(b, c) <= c * 100
         /\ c * 100 <= b.cap * Utilization(b, c) + (b.cap - 1)
<1>1. PICK d \in Nat : d = b.cap /\ d # 0
  BY CapAssumption DEF BudgetRows
<1>2. PICK a \in Nat : a = c * 100 /\ (b.spend + c) * 100 = a
  BY CapAssumption DEF BudgetRows
<1>3. a \div d \in Nat /\ d * (a \div d) <= a /\ a <= d * (a \div d) + (d - 1)
  BY <1>1
<1>4. Utilization(b, c) = a \div d
  BY <1>1, <1>2 DEF Utilization
<1> QED BY <1>1, <1>2, <1>3, <1>4

LEMMA QuotientGrows ==
  ASSUME NEW k \in Nat, k > 0, NEW a \in Nat, NEW b \in Nat, a <= b,
         NEW u \in Nat, NEW v \in Nat, k * u <= a, b <= k * v + (k - 1)
  PROVE  u <= v
<1> SUFFICES ASSUME v + 1 <= u  PROVE FALSE
  OBVIOUS
<1>1. k * (v + 1) <= k * u
  OBVIOUS
<1>2. k * (v + 1) = k * v + k
  OBVIOUS
<1>3. PICK x \in Int, y \in Int : x = k * u /\ y = k * v
  OBVIOUS
<1> QED BY <1>1, <1>2, <1>3

LEMMA UtilizationGrows ==
  ASSUME NEW b \in BudgetRows, NEW c \in Costs, NEW d \in Costs, c <= d
  PROVE  Utilization(b, c) <= Utilization(b, d)
<1>1. Utilization(b, c) \in Nat /\ Utilization(b, d) \in Nat
  BY UtilizationIs
<1>2. b.cap \in Nat /\ b.cap > 0
  <2>1. b.cap \in Caps
    BY DEF BudgetRows
  <2>2. b.cap \in Nat \ {0}
    BY <2>1, CapAssumption, Zenon
  <2> QED BY <2>2
<1>3. c * 100 \in Nat /\ d * 100 \in Nat /\ c * 100 <= d * 100
  BY CapAssumption
<1>4. /\ b.cap * Utilization(b, c) <= c * 100
      /\ d * 100 <= b.cap * Utilization(b, d) + (b.cap - 1)
  BY UtilizationIs
<1> QED BY <1>1, <1>2, <1>3, <1>4, QuotientGrows

LEMMA RankIs == Rank("info") = 1 /\ Rank("warning") = 2 /\ Rank("critical") = 3
BY DEF Rank, Severities

LEMMA CheckBudgetIs ==
  ASSUME NEW b \in BudgetRows, NEW c \in Costs, NEW m \in CatalogModels
  PROVE  /\ CheckBudget(b, c, m) \in Told
         /\ CheckBudget(b, c, m).suggested \in {GetDowngrade(m), Lowest}
         /\ CheckBudget(b, c, m).severity =
              IF Utilization(b, c) >= 100 THEN "critical"
              ELSE IF Utilization(b, c) >= 95 THEN "warning" ELSE "info"
         /\ CheckBudget(b, c, m).action \in {"downgrade", "block"} => Utilization(b, c) >= 100
<1>1. PICK u \in Nat : u = Utilization(b, c)
  BY UtilizationIs
<1>2. GetDowngrade(m) \in CatalogModels \cup {Lowest}
  BY DowngradeDescends
<1>3. b.action \in BudgetActions /\ {"none", "alert"} \subseteq BudgetActions
  BY DEF BudgetRows, BudgetActions
<1> DEFINE answer(action, severity, suggested) ==
             [action |-> action, severity |-> severity, suggested |-> suggested]
<1>4. CheckBudget(b, c, m) =
        CASE u >= 100 -> answer(b.action, "critical", GetDowngrade(m))
          [] u \in 95..99 -> answer("alert", "warning", GetDowngrade(m))
          [] u \in 80..94 -> answer("alert", "info", Lowest)
          [] OTHER -> Silent
  BY <1>1 DEF CheckBudget
<1>5. CASE u >= 100
  <2>1. CheckBudget(b, c, m) = answer(b.action, "critical", GetDowngrade(m))
    BY <1>4, <1>5
  <2> QED BY <1>1, <1>2, <1>3, <1>5, <2>1 DEF Told
<1>6. CASE u \in 95..99
  <2>1. CheckBudget(b, c, m) = answer("alert", "warning", GetDowngrade(m))
    BY <1>4, <1>6
  <2> QED BY <1>1, <1>2, <1>3, <1>6, <2>1 DEF Told
<1>7. CASE u \in 80..94
  <2>1. CheckBudget(b, c, m) = answer("alert", "info", Lowest)
    BY <1>4, <1>7
  <2> QED BY <1>1, <1>2, <1>3, <1>7, <2>1 DEF Told
<1>8. CASE u < 80
  <2>1. CheckBudget(b, c, m) = Silent
    BY <1>4, <1>8
  <2> QED BY <1>1, <1>2, <1>3, <1>8, <2>1 DEF Told, Silent
<1> QED BY <1>5, <1>6, <1>7, <1>8

LEMMA BudgetsStart == BudgetsInit => BudgetInv
<1> SUFFICES ASSUME BudgetsInit PROVE BudgetInv
  OBVIOUS
<1>1. Silent \in Told
  BY DEF Silent, Told, BudgetActions
<1>2. <<>> \in Seq(BudgetRows) /\ <<>> \in Seq(CatalogModels) /\ DOMAIN <<>> = {}
  OBVIOUS
<1> QED BY <1>1, <1>2 DEF BudgetsInit, BudgetInv, Descends, Silent

LEMMA Greatest ==
  ASSUME NEW N \in Nat, NEW S \in SUBSET (0 .. N), S # {}
  PROVE  Max(S) \in S /\ \A n \in S : n <= Max(S)
<1> DEFINE T == {N - n : n \in S}
<1>1. T \in SUBSET Nat /\ T # {}
  <2>1. PICK s \in S : TRUE
    OBVIOUS
  <2>2. N - s \in T
    BY <2>1
  <2>3. \A n \in S : N - n \in Nat
    OBVIOUS
  <2> QED BY <2>2, <2>3
<1>2. PICK t \in T : \A u \in T : t <= u
  <2> HIDE DEF T
  <2> QED BY <1>1, LeastNumber
<1>3. PICK m \in S : t = N - m
  OBVIOUS
<1>4. \A n \in S : N - m <= N - n
  BY <1>2, <1>3
<1>5. \A n \in S : n <= m /\ n \in Int
  BY <1>4
<1>6. \E x \in S : \A y \in S : x >= y
  BY <1>5
<1> QED BY <1>5, <1>6 DEF Max

LEMMA NewestIs ==
  ASSUME BudgetInv, NEW org, GetBudgetConfigs(org) # {}
  PROVE  Newest(org) \in BudgetRows
<1>1. PICK N \in Nat : N = Len(budgets) /\ budgets \in [1 .. N -> BudgetRows]
  BY DEF BudgetInv
<1>2. GetBudgetConfigs(org) \in SUBSET (1 .. N)
  BY <1>1 DEF GetBudgetConfigs
<1>3. Max(GetBudgetConfigs(org)) \in GetBudgetConfigs(org)
  <2>1. PICK S \in SUBSET (0 .. N) : S = GetBudgetConfigs(org)
    BY <1>2
  <2> QED BY <2>1, Greatest
<1> QED BY <1>1, <1>2, <1>3 DEF Newest

LEMMA CreateBudgetKeeps ==
  ASSUME BudgetInv, NEW org \in BudgetOrgs, NEW p \in Projects \cup {NoProject},
         NEW cap \in Caps, NEW a \in BudgetActions, CreateBudget(org, p, cap, a)
  PROVE  BudgetInv'
<1>1. [org |-> org, project |-> p, cap |-> cap, action |-> a, spend |-> 0] \in BudgetRows
  BY DEF BudgetRows
<1>2. budgets' \in Seq(BudgetRows) /\ caller' = caller
  BY <1>1 DEF BudgetInv, CreateBudget
<1> QED BY <1>2 DEF BudgetInv, Descends

LEMMA RequestKeeps ==
  ASSUME BudgetInv, NEW org \in BudgetOrgs, NEW m \in CatalogModels, NEW cost \in Costs,
         Request(org, m, cost)
  PROVE  BudgetInv'
<1>1. Newest(org) \in BudgetRows
  BY NewestIs DEF Request
<1>2. PICK t : t = CheckBudget(Newest(org), cost, m)
  OBVIOUS
<1>3. t \in Told /\ t.suggested \in {GetDowngrade(m), Lowest}
  BY <1>1, <1>2, CheckBudgetIs
<1>4. caller' = [path |-> <<m>>, told |-> t] /\ budgets' = budgets
  BY <1>2 DEF Request
<1>5. /\ <<m>> \in Seq(CatalogModels) /\ <<m>> # <<>> /\ Len(<<m>>) = 1 /\ <<m>>[1] = m
      /\ DOMAIN <<m>> = 1 .. 1
  OBVIOUS
<1>6. Descends(<<m>>)
  BY <1>5 DEF Descends
<1>7. caller'.path = <<m>> /\ caller'.told = t
  BY <1>4
<1>8. caller' \in [path : Seq(CatalogModels), told : Told]
  BY <1>3, <1>4, <1>5
<1>9. budgets' \in Seq(BudgetRows)
  BY <1>4 DEF BudgetInv
<1>10. Descends(caller'.path)
  BY <1>6, <1>7
<1>11. t.suggested # Lowest =>
         /\ caller'.path # <<>>
         /\ t.suggested = GetDowngrade(caller'.path[Len(caller'.path)])
  BY <1>3, <1>5, <1>7
<1> QED BY <1>7, <1>8, <1>9, <1>10, <1>11 DEF BudgetInv, Descends

LEMMA StepDownKeeps ==
  ASSUME BudgetInv, NEW org \in BudgetOrgs, NEW cost \in Costs, StepDown(org, cost)
  PROVE  BudgetInv'
<1>1. Newest(org) \in BudgetRows
  BY NewestIs DEF StepDown
<1>2. PICK p \in Seq(CatalogModels) : p = caller.path
  BY DEF BudgetInv
<1>3. PICK n \in Nat \ {0} : n = Len(p) /\ DOMAIN p = 1 .. n
  BY <1>2 DEF BudgetInv, StepDown
<1>4. PICK m : m = caller.told.suggested /\ m # Lowest
  BY DEF StepDown
<1>5. m = GetDowngrade(p[n]) /\ p[n] \in CatalogModels
  BY <1>2, <1>3, <1>4 DEF BudgetInv
<1>6. /\ m \in CatalogModels /\ PathHeight(m) < PathHeight(p[n]) /\ GetTier(p[n]) <= GetTier(m)
      /\ Drops(p[n], m)
  BY <1>4, <1>5, DowngradeDescends
<1>7. PICK q : q = Append(p, m)
  OBVIOUS
<1>8. /\ q \in Seq(CatalogModels) /\ q # <<>> /\ Len(q) = n + 1 /\ DOMAIN q = 1 .. n + 1
      /\ q[n + 1] = m /\ \A i \in 1 .. n : q[i] = p[i]
  BY <1>2, <1>3, <1>6, <1>7
<1>9. \A i \in 1 .. n : p[i] \in CatalogModels /\ PathHeight(p[i]) \in Int /\ GetTier(p[i]) \in Int
  <2>1. \A x \in CatalogModels : PathHeight(x) \in Int /\ GetTier(x) \in Int
    BY PathHeightIs, CatalogIs
  <2> QED BY <1>2, <1>3, <2>1
<1>10. Descends(p)
  BY <1>2 DEF BudgetInv
<1>11. Descends(q)
  <2>1. ASSUME NEW i \in 1 .. n + 1, NEW j \in 1 .. n + 1, i < j
        PROVE  /\ PathHeight(q[j]) < PathHeight(q[i]) /\ GetTier(q[i]) <= GetTier(q[j])
               /\ j = i + 1 => Drops(q[i], q[j])
    <3>1. i \in 1 .. n /\ q[i] = p[i]
      BY <1>8, <2>1
    <3>2. CASE j \in 1 .. n
      BY <1>3, <1>8, <1>10, <2>1, <3>1, <3>2 DEF Descends
    <3>3. CASE j = n + 1
      <4>1. q[j] = m
        BY <1>8, <3>3
      <4>2. CASE i = n
        BY <1>6, <3>1, <4>1, <4>2
      <4>3. CASE i # n
        <5>1. i < n /\ n \in 1 .. n
          BY <3>1, <4>3
        <5>2. PathHeight(p[n]) < PathHeight(p[i]) /\ GetTier(p[i]) <= GetTier(p[n])
          BY <1>3, <1>10, <3>1, <5>1 DEF Descends
        <5>3. PathHeight(m) \in Int /\ GetTier(m) \in Int
          BY <1>6, PathHeightIs, CatalogIs
        <5>4. j # i + 1
          BY <3>1, <3>3, <5>1
        <5>5. PathHeight(m) < PathHeight(p[i]) /\ GetTier(p[i]) <= GetTier(m)
          BY <1>6, <1>9, <3>1, <5>1, <5>2, <5>3
        <5> QED BY <3>1, <4>1, <5>4, <5>5
      <4> QED BY <4>2, <4>3
    <3> QED BY <3>2, <3>3
  <2> QED BY <1>8, <2>1 DEF Descends
<1>12. PICK t : t = CheckBudget(Newest(org), cost, m)
  OBVIOUS
<1>13. t \in Told /\ t.suggested \in {GetDowngrade(m), Lowest}
  BY <1>1, <1>6, <1>12, CheckBudgetIs
<1>14. caller' = [path |-> q, told |-> t] /\ budgets' = budgets
  BY <1>2, <1>4, <1>7, <1>12 DEF StepDown
<1>15. caller'.path = q /\ caller'.told = t
  BY <1>14
<1>16. caller' \in [path : Seq(CatalogModels), told : Told]
  BY <1>8, <1>13, <1>14
<1>17. budgets' \in Seq(BudgetRows)
  BY <1>14 DEF BudgetInv
<1>18. t.suggested # Lowest => t.suggested = GetDowngrade(q[Len(q)])
  BY <1>8, <1>13
<1> QED BY <1>8, <1>11, <1>15, <1>16, <1>17, <1>18 DEF BudgetInv, Descends

LEMMA BudgetsKept == BudgetInv /\ (BudgetsNext \/ UNCHANGED budgetVars) => BudgetInv'
<1> SUFFICES ASSUME BudgetInv, BudgetsNext \/ UNCHANGED budgetVars  PROVE BudgetInv'
  OBVIOUS
<1>1. CASE BudgetsNext
  BY <1>1, CreateBudgetKeeps, RequestKeeps, StepDownKeeps, CatalogIs DEF BudgetsNext
<1>2. CASE UNCHANGED budgetVars
  BY <1>2 DEF budgetVars, BudgetInv, Descends
<1> QED BY <1>1, <1>2

LEMMA BudgetsHold == BudgetInv => DowngradesEnd /\ SeverityFollowsCost
<1> SUFFICES ASSUME BudgetInv  PROVE DowngradesEnd /\ SeverityFollowsCost
  OBVIOUS
<1>1. DowngradesEnd
  <2>1. PICK p \in Seq(CatalogModels) : p = caller.path /\ Descends(p)
    BY DEF BudgetInv
  <2>2. \A i \in DOMAIN p : p[i] \in CatalogModels /\ PathHeight(p[i]) \in Int
    <3>1. \A i \in DOMAIN p : p[i] \in CatalogModels
      BY <2>1
    <3> QED BY <3>1, PathHeightIs
  <2>3. ASSUME NEW i \in DOMAIN p, NEW j \in DOMAIN p, i < j
        PROVE  p[i] # p[j] /\ GetTier(p[i]) <= GetTier(p[j])
    <3>1. PathHeight(p[j]) < PathHeight(p[i]) /\ GetTier(p[i]) <= GetTier(p[j])
      BY <2>1, <2>3 DEF Descends
    <3> QED BY <2>2, <3>1
  <2>4. ASSUME NEW i \in DOMAIN p, NEW j \in DOMAIN p, j = i + 1
        PROVE  Drops(p[i], p[j])
    <3>1. i < j
      BY <2>4
    <3> QED BY <2>1, <2>4, <3>1 DEF Descends
  <2> QED BY <2>1, <2>2, <2>3, <2>4, CatalogIs DEF DowngradesEnd, Drops
<1>2. SeverityFollowsCost
  <2> SUFFICES ASSUME NEW i \in DOMAIN budgets, NEW c \in Costs, NEW d \in Costs, c <= d
               PROVE  /\ Rank(CheckBudget(budgets[i], c, "gpt-4o").severity)
                            <= Rank(CheckBudget(budgets[i], d, "gpt-4o").severity)
                      /\ CheckBudget(budgets[i], d, "gpt-4o").action \in {"downgrade", "block"} =>
                            CheckBudget(budgets[i], d, "gpt-4o").severity = "critical"
    BY DEF SeverityFollowsCost
  <2>1. PICK b \in BudgetRows : b = budgets[i]
    BY DEF BudgetInv
  <2>2. "gpt-4o" \in CatalogModels
    BY DEF CatalogModels, MidTierModels
  <2>3. PICK u \in Nat, v \in Nat : u = Utilization(b, c) /\ v = Utilization(b, d)
    BY UtilizationIs
  <2>4. u <= v
    BY <2>3, UtilizationGrows
  <2>5. /\ CheckBudget(b, c, "gpt-4o").severity =
              IF u >= 100 THEN "critical" ELSE IF u >= 95 THEN "warning" ELSE "info"
        /\ CheckBudget(b, d, "gpt-4o").severity =
              IF v >= 100 THEN "critical" ELSE IF v >= 95 THEN "warning" ELSE "info"
        /\ CheckBudget(b, d, "gpt-4o").action \in {"downgrade", "block"} => v >= 100
    BY <2>2, <2>3, CheckBudgetIs
  <2> QED BY <2>1, <2>4, <2>5, RankIs
<1> QED BY <1>1, <1>2

-----------------------------------------------------------------------------
(* Waste. The calls of the period, and what they cost.                       *)
Of(field) == {kind[field] : kind \in CallKinds}
CallRows == [at : Nat, task : Of("task"), model : Of("model"), trace : Of("trace"),
             args : Of("args"), prompt : Of("prompt"), cost : Nat]
WasteInv ==
  /\ traffic \in Seq(CallRows)
  /\ DOMAIN fitness \subseteq Nat
  /\ \A i \in DOMAIN fitness : fitness[i].quality \in Nat

LEMMA WasteStarts == WasteInit => WasteInv
BY DEF WasteInit, WasteInv

LEMMA WasteKept == WasteInv /\ (WasteNext \/ UNCHANGED wasteVars) => WasteInv'
<1> SUFFICES ASSUME WasteInv, WasteNext \/ UNCHANGED wasteVars  PROVE WasteInv'
  OBVIOUS
<1>1. ASSUME NEW matrix \in Evidence, Remeasure(matrix)
      PROVE  WasteInv'
  BY <1>1, WasteAssumption DEF Remeasure, WasteInv
<1>2. ASSUME NEW kind \in CallKinds, NEW pause \in Pauses, WasteCall(kind, pause)
      PROVE  WasteInv'
  <2>1. PICK t : t = pause + IF traffic = <<>> THEN 0 ELSE Last(traffic).at
    OBVIOUS
  <2>2. t \in Nat
    <3>1. pause \in Nat
      BY WasteAssumption
    <3>2. traffic # <<>> => Last(traffic) \in CallRows
      BY DEF WasteInv, Last
    <3>3. traffic # <<>> => Last(traffic).at \in Nat
      BY <3>2 DEF CallRows
    <3> QED BY <2>1, <3>1, <3>3
  <2>3. PICK row : row = [at |-> t, task |-> kind.task, model |-> kind.model, trace |-> kind.trace,
                          args |-> kind.args, prompt |-> kind.prompt, cost |-> kind.cost]
    OBVIOUS
  <2>4. row \in CallRows
    BY <2>2, <2>3, WasteAssumption DEF CallRows, Of
  <2>5. traffic' = Append(traffic, row) /\ fitness' = fitness
    BY <1>2, <2>1, <2>3 DEF WasteCall
  <2> QED BY <2>4, <2>5 DEF WasteInv
<1>3. CASE UNCHANGED wasteVars
  BY <1>3 DEF wasteVars, WasteInv
<1> QED BY <1>1, <1>2, <1>3 DEF WasteNext

LEMMA TrafficIs ==
  ASSUME WasteInv
  PROVE  \E n \in Nat : /\ DOMAIN traffic = 1 .. n
                        /\ \A i \in 1 .. n : traffic[i].cost \in Nat /\ traffic[i].at \in Nat
<1>1. PICK n \in Nat : n = Len(traffic) /\ DOMAIN traffic = 1 .. n
  BY DEF WasteInv
<1>2. \A i \in 1 .. n : traffic[i] \in CallRows
  BY <1>1 DEF WasteInv
<1>3. \A i \in 1 .. n : traffic[i].cost \in Nat /\ traffic[i].at \in Nat
  BY <1>2 DEF CallRows
<1> QED BY <1>1, <1>3

LEMMA CallsCost ==
  ASSUME WasteInv, NEW S \in SUBSET DOMAIN traffic
  PROVE  IsFiniteSet(S) /\ Cardinality(S) \in Nat /\ SpentOn(S) \in Nat
<1>1. PICK n \in Nat : /\ DOMAIN traffic = 1 .. n
                       /\ \A i \in 1 .. n : traffic[i].cost \in Nat
  BY TrafficIs
<1>2. IsFiniteSet(S) /\ Cardinality(S) \in Nat
  BY <1>1, UpTo
<1>3. PICK f : f = [i \in DOMAIN traffic |-> traffic[i].cost]
  OBVIOUS
<1>4. \A i \in S : f[i] \in Nat
  BY <1>1, <1>3
<1>5. SumFunctionOnSet(f, S) \in Nat
  BY <1>2, <1>4, SumNat
<1> QED BY <1>2, <1>3, <1>5 DEF SpentOn

(* Of the models at some places of a list, the cheapest.                     *)
LEMMA LeastIs ==
  ASSUME NEW S \in SUBSET Nat, S # {}
  PROVE  Min(S) \in S /\ \A n \in S : Min(S) <= n
<1>1. \E x \in S : \A y \in S : x <= y
  BY LeastNumber
<1> QED BY <1>1 DEF Min

LEMMA CheapestIs ==
  ASSUME NEW I \in SUBSET Nat, I # {}, NEW models,
         \A i \in I : Catalog[models[i]].cost \in Nat
  PROVE  \E k \in I : /\ Cheapest(models, I) = models[k]
                      /\ \A j \in I : Catalog[models[k]].cost <= Catalog[models[j]].cost
<1>1. PICK C : C = {Catalog[models[i]].cost : i \in I}
  OBVIOUS
<1>2. C \in SUBSET Nat /\ C # {}
  BY <1>1
<1>3. Min(C) \in C /\ \A n \in C : Min(C) <= n
  BY <1>2, LeastIs
<1>4. PICK K : K = {i \in I : Catalog[models[i]].cost = Min(C)}
  OBVIOUS
<1>5. K \in SUBSET Nat /\ K # {}
  BY <1>1, <1>3, <1>4
<1>6. Min(K) \in K
  BY <1>5, LeastIs
<1>7. Cheapest(models, I) = models[Min(K)]
  BY <1>1, <1>4 DEF Cheapest
<1>8. Min(K) \in I /\ Catalog[models[Min(K)]].cost = Min(C)
  BY <1>4, <1>6
<1> QED BY <1>1, <1>3, <1>7, <1>8

LEMMA PricesAre ==
  ASSUME NEW m, Known(m)
  PROVE  Catalog[m].tier \in 1 .. 3 /\ Catalog[m].cost \in Nat /\ Catalog[m].cost > 0 /\ m # NoModel
<1>1. m \in DOMAIN Catalog
  BY DEF Known
<1>2. Catalog[m].tier \in 1 .. 3 /\ Catalog[m].cost \in Nat \ {0} /\ m # NoModel
  BY <1>1, TiersAssumption
<1> QED BY <1>2

\* A lower tier has a cheaper model, so its cheapest is cheaper.
LEMMA LowerTierIsCheaper ==
  ASSUME NEW m, Known(m), NEW tier \in Catalog[m].tier + 1 .. 3
  PROVE  /\ Known(CheapestByTier[tier])
         /\ Catalog[CheapestByTier[tier]].cost < Catalog[m].cost
<1>1. m \in DOMAIN Catalog /\ tier \in 1 .. 3 /\ Catalog[m].cost \in Nat
  BY PricesAre DEF Known
<1>2. PICK i \in OfTier(tier) : Catalog[ModelOrder[i]].cost < Catalog[m].cost
  BY <1>1, TiersAssumption
<1>3. OfTier(tier) \in SUBSET Nat /\ \A j \in OfTier(tier) : Known(ModelOrder[j])
  BY TiersAssumption DEF OfTier
<1>4. \A j \in OfTier(tier) : Catalog[ModelOrder[j]].cost \in Nat
  BY <1>3, PricesAre
<1>5. PICK I : I = OfTier(tier)
  OBVIOUS
<1>6. PICK k \in I : /\ Cheapest(ModelOrder, I) = ModelOrder[k]
                     /\ \A j \in I : Catalog[ModelOrder[k]].cost <= Catalog[ModelOrder[j]].cost
  BY <1>2, <1>3, <1>4, <1>5, CheapestIs
<1>7. CheapestByTier[tier] = ModelOrder[k]
  BY <1>1, <1>5, <1>6 DEF CheapestByTier
<1>8. Catalog[ModelOrder[k]].cost <= Catalog[ModelOrder[i]].cost
  BY <1>2, <1>5, <1>6
<1> QED BY <1>1, <1>2, <1>3, <1>4, <1>5, <1>7, <1>8

LEMMA HeuristicGoesDown ==
  ASSUME NEW task, NEW tier \in 1 .. 3
  PROVE  HeuristicTier(task, tier) \in {0} \cup (tier + 1 .. 3)
BY DEF HeuristicTier

LEMMA QualifiedIs ==
  ASSUME WasteInv, NEW task, NEW m, Known(m), NEW threshold, Qualified(task, m, threshold) # {}
  PROVE  \E k \in Qualified(task, m, threshold) :
           /\ CheapestQualified(task, m, threshold) = fitness[k].model
           /\ Known(fitness[k].model) /\ Catalog[fitness[k].model].cost < Catalog[m].cost
           /\ \A j \in Qualified(task, m, threshold) :
                Catalog[fitness[k].model].cost <= Catalog[fitness[j].model].cost
<1>1. PICK I : I = Qualified(task, m, threshold)
  OBVIOUS
<1>2. I \in SUBSET Nat /\ I # {} /\ I \subseteq DOMAIN fitness
  BY <1>1 DEF WasteInv, Qualified
<1>3. \A i \in I : Known(fitness[i].model) /\ Catalog[fitness[i].model].cost < Catalog[m].cost
  BY <1>1 DEF Qualified
<1>4. PICK models : models = [i \in DOMAIN fitness |-> fitness[i].model]
  OBVIOUS
<1>5. \A i \in I : models[i] = fitness[i].model
  BY <1>2, <1>4
<1>6. \A i \in I : Catalog[models[i]].cost \in Nat
  BY <1>3, <1>5, PricesAre
<1>7. PICK k \in I : /\ Cheapest(models, I) = models[k]
                     /\ \A j \in I : Catalog[models[k]].cost <= Catalog[models[j]].cost
  BY <1>2, <1>6, CheapestIs
<1>8. CheapestQualified(task, m, threshold) = models[k]
  BY <1>1, <1>2, <1>4, <1>7 DEF CheapestQualified
<1> QED BY <1>1, <1>3, <1>5, <1>7, <1>8

LEMMA SuggestionIs ==
  ASSUME WasteInv, NEW task, NEW m, NEW threshold,
         SuggestAlternative(task, m, threshold).model # NoModel
  PROVE  LET s == SuggestAlternative(task, m, threshold)
         IN  /\ Known(m) /\ Known(s.model) /\ Catalog[s.model].cost < Catalog[m].cost
             /\ s.source = "fitness" => Qualified(task, m, threshold) # {}
             /\ Qualified(task, m, threshold) # {} => s.model = CheapestQualified(task, m, threshold)
<1>1. Known(m)
  BY DEF SuggestAlternative
<1>2. PICK q : q = CheapestQualified(task, m, threshold)
  OBVIOUS
<1>3. PICK tier : tier = HeuristicTier(task, Catalog[m].tier)
  OBVIOUS
<1>4. SuggestAlternative(task, m, threshold) =
        IF q # NoModel THEN [model |-> q, source |-> "fitness"]
        ELSE IF tier # 0 THEN [model |-> CheapestByTier[tier], source |-> "heuristic"]
        ELSE [model |-> NoModel, source |-> "none"]
  BY <1>1, <1>2, <1>3 DEF SuggestAlternative
<1>5. CASE Qualified(task, m, threshold) # {}
  <2>1. Known(q) /\ Catalog[q].cost < Catalog[m].cost
    BY <1>1, <1>2, <1>5, QualifiedIs
  <2>2. q # NoModel
    BY <2>1, PricesAre
  <2> QED BY <1>1, <1>2, <1>4, <1>5, <2>1, <2>2
<1>6. CASE Qualified(task, m, threshold) = {}
  <2>1. q = NoModel
    BY <1>2, <1>6 DEF CheapestQualified
  <2>2. tier # 0 /\ SuggestAlternative(task, m, threshold) = [model |-> CheapestByTier[tier], source |-> "heuristic"]
    BY <1>4, <2>1
  <2>3. tier \in Catalog[m].tier + 1 .. 3
    BY <1>1, <1>3, <2>2, PricesAre, HeuristicGoesDown
  <2>4. /\ Known(CheapestByTier[tier])
        /\ Catalog[CheapestByTier[tier]].cost < Catalog[m].cost
    BY <1>1, <2>3, LowerTierIsCheaper
  <2> QED BY <1>1, <1>6, <2>2, <2>4
<1> QED BY <1>5, <1>6

(* What another model saves.                                                 *)
LEMMA PartBelow ==
  ASSUME NEW c \in Nat, NEW a \in Nat, NEW b \in Nat, a < b
  PROVE  (c * a) \div b \in 0 .. c
<1>1. PICK x \in Nat : x = c * a
  OBVIOUS
<1>2. x \div b \in Nat /\ b * (x \div b) <= x
  OBVIOUS
<1>3. c * a <= c * b
  OBVIOUS
<1>4. c * b = b * c
  OBVIOUS
<1>5. b * (x \div b) <= b * c
  <2>1. PICK y \in Int, z \in Int : y = b * (x \div b) /\ z = b * c
    BY <1>2
  <2> QED BY <1>1, <1>2, <1>3, <1>4, <2>1
<1>6. x \div b <= c
  BY <1>2, <1>5, Cancelled
<1> QED BY <1>1, <1>2, <1>6

LEMMA SavedIs ==
  ASSUME WasteInv, NEW row, NEW m, Known(m), Known(row[2]), Catalog[m].cost < Catalog[row[2]].cost
  PROVE  Saved(row, m) \in 0 .. SpentOn(RowCalls(row))
<1>1. RowCalls(row) \in SUBSET DOMAIN traffic
  BY DEF RowCalls
<1>2. PICK c \in Nat : c = SpentOn(RowCalls(row))
  BY <1>1, CallsCost
<1>3. PICK a \in Nat, b \in Nat : a = Catalog[m].cost /\ b = Catalog[row[2]].cost /\ a < b
  BY PricesAre
<1>4. Saved(row, m) = c - (c * a) \div b
  BY <1>2, <1>3 DEF Saved
<1>5. (c * a) \div b \in 0 .. c
  BY <1>3, PartBelow
<1> QED BY <1>2, <1>4, <1>5

LEMMA SavedGrows ==
  ASSUME WasteInv, NEW row, NEW m, NEW n, Known(m), Known(n), Known(row[2]),
         Catalog[m].cost <= Catalog[n].cost
  PROVE  Saved(row, n) <= Saved(row, m)
<1>1. RowCalls(row) \in SUBSET DOMAIN traffic
  BY DEF RowCalls
<1>2. PICK c \in Nat : c = SpentOn(RowCalls(row))
  BY <1>1, CallsCost
<1>3. PICK a \in Nat, d \in Nat, b \in Nat : /\ a = Catalog[m].cost /\ d = Catalog[n].cost
                                          /\ b = Catalog[row[2]].cost /\ a <= d /\ b > 0
  BY PricesAre
<1>4. PICK x \in Nat, y \in Nat : x = c * a /\ y = c * d
  OBVIOUS
<1>5. x <= y
  BY <1>3, <1>4
<1>6. /\ x \div b \in Nat /\ y \div b \in Nat
      /\ b * (x \div b) <= x /\ y <= b * (y \div b) + (b - 1)
  BY <1>3
<1>7. x \div b <= y \div b
  BY <1>3, <1>5, <1>6, QuotientGrows
<1>8. Saved(row, m) = c - x \div b /\ Saved(row, n) = c - y \div b
  BY <1>2, <1>3, <1>4 DEF Saved
<1> QED BY <1>6, <1>7, <1>8

LEMMA AdviceIsCheaper == WasteInv => AdviceSaves
<1> SUFFICES ASSUME WasteInv, NEW row \in DOMAIN WasteScore
             PROVE  /\ Catalog[SuggestAlternative(row[1], row[2], ScoreThreshold).model].cost
                          < Catalog[row[2]].cost
                    /\ WasteScore[row] \in 0..SpentOn(RowCalls(row))
  BY DEF AdviceSaves
<1>1. PICK m : m = SuggestAlternative(row[1], row[2], ScoreThreshold).model
  OBVIOUS
<1>2. m # NoModel /\ WasteScore[row] = Saved(row, m)
  BY <1>1 DEF WasteScore
<1>3. Known(row[2]) /\ Known(m) /\ Catalog[m].cost < Catalog[row[2]].cost
  BY <1>1, <1>2, SuggestionIs
<1>4. Saved(row, m) \in 0..SpentOn(RowCalls(row))
  BY <1>3, SavedIs
<1> QED BY <1>1, <1>2, <1>3, <1>4

\* Who measures well for the report measures well for the score.
LEMMA OverkillIsScored == WasteInv => ScoreCoversOverkill
<1> SUFFICES ASSUME WasteInv, NEW row \in DOMAIN DetectModelOverkill
             PROVE  row \in DOMAIN WasteScore /\ WasteScore[row] >= DetectModelOverkill[row]
  BY DEF ScoreCoversOverkill
<1>1. PICK s, t : /\ s = SuggestAlternative(row[1], row[2], DetailThreshold)
                  /\ t = SuggestAlternative(row[1], row[2], ScoreThreshold)
  OBVIOUS
<1>2. row \in UsageRows /\ s.source = "fitness" /\ DetectModelOverkill[row] = Saved(row, s.model)
  BY <1>1 DEF DetectModelOverkill
<1>3. PICK Q, R : /\ Q = Qualified(row[1], row[2], DetailThreshold)
                  /\ R = Qualified(row[1], row[2], ScoreThreshold)
  OBVIOUS
<1>4. Q \subseteq R
  BY <1>3 DEF Qualified, WasteInv, DetailThreshold, ScoreThreshold
<1>5. Known(row[2]) /\ CheapestQualified(row[1], row[2], DetailThreshold) # NoModel
      /\ s.model = CheapestQualified(row[1], row[2], DetailThreshold)
  BY <1>1, <1>2 DEF SuggestAlternative
<1>6. Q # {} /\ R # {}
  BY <1>3, <1>4, <1>5 DEF CheapestQualified
<1>7. PICK i \in Q : s.model = fitness[i].model /\ Known(fitness[i].model)
  BY <1>3, <1>5, <1>6, QualifiedIs
<1>8. PICK k \in R : /\ CheapestQualified(row[1], row[2], ScoreThreshold) = fitness[k].model
                    /\ Known(fitness[k].model)
                    /\ \A j \in R : Catalog[fitness[k].model].cost <= Catalog[fitness[j].model].cost
  BY <1>3, <1>5, <1>6, QualifiedIs
<1>9. fitness[k].model # NoModel
  BY <1>8, PricesAre
<1>10. t.model = fitness[k].model
  BY <1>1, <1>5, <1>8, <1>9 DEF SuggestAlternative
<1>11. row \in DOMAIN WasteScore /\ WasteScore[row] = Saved(row, t.model)
  BY <1>1, <1>2, <1>9, <1>10 DEF WasteScore
<1>12. Catalog[t.model].cost <= Catalog[s.model].cost
  BY <1>4, <1>7, <1>8, <1>10
<1>13. Saved(row, s.model) <= Saved(row, t.model)
  BY <1>5, <1>7, <1>8, <1>10, <1>12, SavedGrows
<1>14. Saved(row, s.model) \in Int /\ Saved(row, t.model) \in Int
  <2>1. Catalog[s.model].cost < Catalog[row[2]].cost /\ Catalog[t.model].cost < Catalog[row[2]].cost
    BY <1>3, <1>7, <1>8, <1>10 DEF Qualified
  <2>2. SpentOn(RowCalls(row)) \in Nat
    BY CallsCost DEF RowCalls
  <2> QED BY <1>5, <1>7, <1>8, <1>10, <2>1, <2>2, SavedIs
<1> QED BY <1>2, <1>11, <1>13, <1>14

LEMMA MissesWereCacheable == WasteInv => MissesAreCacheable
<1> SUFFICES ASSUME WasteInv, NEW f \in DetectCacheMisses, NEW i \in f.calls,
                    ~(\A j \in f.calls : i <= j)
             PROVE  \E j \in f.calls : j < i /\ traffic[i].at - traffic[j].at <= CacheWindow
  BY DEF MissesAreCacheable
<1>1. PICK S \in PromptDuplicates : f = [calls |-> S, savings |-> CacheSavings(S)]
  BY DEF DetectCacheMisses
<1>2. f.calls = S /\ S \subseteq DOMAIN traffic
  BY <1>1 DEF PromptDuplicates, Grouped
<1>3. \A j \in S : j \in Int
  BY <1>2, TrafficIs
<1>4. PICK j \in S : ~(i <= j)
  BY <1>2
<1>5. traffic[i].at - traffic[j].at <= CacheWindow
  BY <1>1, <1>2, <1>4 DEF PromptDuplicates
<1>6. j < i
  BY <1>2, <1>3, <1>4
<1> QED BY <1>2, <1>4, <1>5, <1>6

(* Runs of one hash.                                                         *)
IsRun(f, h) ==
  f = [i \in 0..Len(h) |-> IF i = 0 THEN 0
                            ELSE IF i > 1 /\ h[i] = h[i - 1] THEN f[i - 1] + 1 ELSE 1]
LEMMA RunsAre ==
  ASSUME NEW T, NEW h \in Seq(T)
  PROVE  LET runs == Runs(h)
         IN  /\ runs \in [0 .. Len(h) -> Nat] /\ runs[0] = 0
             /\ \A i \in 1 .. Len(h) :
                  runs[i] = IF i > 1 /\ h[i] = h[i - 1] THEN runs[i - 1] + 1 ELSE 1
<1>1. PICK N \in Nat : N = Len(h)
  OBVIOUS
<1> DEFINE step == [i \in 1 .. N |-> [x \in Nat |-> IF i > 1 /\ h[i] = h[i - 1] THEN x + 1 ELSE 1]]
<1>2. step \in [1 .. N -> [Nat -> Nat]] /\ 0 \in Nat
  OBVIOUS
<1>3. \A i \in 1 .. N, x \in Nat : step[i][x] = IF i > 1 /\ h[i] = h[i - 1] THEN x + 1 ELSE 1
  OBVIOUS
<1> HIDE DEF step
<1>4. PICK f : IsOrbit(f, N, Nat, 0, step)
  BY <1>2, RecursionExists
<1>5. f \in [0 .. N -> Nat] /\ f[0] = 0 /\ \A i \in 1 .. N : f[i] = step[i][f[i - 1]]
  BY <1>4 DEF IsOrbit
<1>6. ASSUME NEW i \in 0 .. N
      PROVE  f[i] = IF i = 0 THEN 0
                    ELSE IF i > 1 /\ h[i] = h[i - 1] THEN f[i - 1] + 1 ELSE 1
  <2>1. CASE i = 0
    BY <1>5, <2>1
  <2>2. CASE i # 0
    <3>1. i \in 1 .. N /\ f[i - 1] \in Nat
      BY <1>5, <2>2
    <3> QED BY <1>3, <1>5, <2>2, <3>1
  <2> QED BY <2>1, <2>2
<1>7. IsRun(f, h)
  BY <1>1, <1>5, <1>6 DEF IsRun
<1>8. Runs(h) = CHOOSE r : IsRun(r, h)
  BY DEF Runs, IsRun
<1>9. IsRun(Runs(h), h)
  BY <1>7, <1>8
<1>10. PICK r : r = Runs(h) /\ IsRun(r, h)
  BY <1>9
<1>11. DOMAIN r = 0 .. N /\ \A i \in 0 .. N :
          r[i] = IF i = 0 THEN 0 ELSE IF i > 1 /\ h[i] = h[i - 1] THEN r[i - 1] + 1 ELSE 1
  BY <1>1, <1>10 DEF IsRun
<1>12. r[0] = 0 /\ \A i \in 1 .. N : r[i] = IF i > 1 /\ h[i] = h[i - 1] THEN r[i - 1] + 1 ELSE 1
  BY <1>11
<1> DEFINE F == {i \in 0 .. N : r[i] \in Nat}
<1>13. 0 \in F /\ \A i \in 1 .. N : i - 1 \in F => i \in F
  BY <1>12
<1>14. 0 .. N \subseteq F
  <2> HIDE DEF F
  <2> QED BY <1>13, RangeInduction
<1>15. r \in [0 .. N -> Nat]
  <2>1. r = [i \in 0 .. N |-> r[i]]
    BY <1>1, <1>10 DEF IsRun
  <2> QED BY <1>14, <2>1
<1> QED BY <1>1, <1>10, <1>12, <1>15

LEMMA RunsGrow ==
  ASSUME NEW N \in Nat, NEW runs \in [0 .. N -> Nat], NEW h, runs[0] = 0,
         \A i \in 1 .. N : runs[i] = IF i > 1 /\ h[i] = h[i - 1] THEN runs[i - 1] + 1 ELSE 1
  PROVE  \A i \in 0 .. N : runs[i] <= i
<1> DEFINE F == {i \in 0 .. N : runs[i] <= i}
<1>1. 0 \in F
  OBVIOUS
<1>2. ASSUME NEW i \in 1 .. N, i - 1 \in F
      PROVE  i \in F
  <2>1. runs[i - 1] <= i - 1 /\ runs[i - 1] \in Nat
    BY <1>2
  <2> QED BY <2>1
<1>3. 0 .. N \subseteq F
  <2> HIDE DEF F
  <2> QED BY <1>1, <1>2, RangeInduction
<1> QED BY <1>3

LEMMA LongestRun ==
  ASSUME NEW T, NEW h \in Seq(T)
  PROVE  FindLoopLength(h) >= LoopIterations <=>
           \E i \in 1..Len(h) - 2 : h[i] = h[i + 1] /\ h[i + 1] = h[i + 2]
<1>1. PICK N \in Nat : N = Len(h)
  OBVIOUS
<1>2. PICK runs : runs = Runs(h)
  OBVIOUS
<1>3. /\ runs \in [0 .. N -> Nat] /\ runs[0] = 0
      /\ \A i \in 1 .. N : runs[i] = IF i > 1 /\ h[i] = h[i - 1] THEN runs[i - 1] + 1 ELSE 1
  BY <1>1, <1>2, RunsAre
<1>4. \A i \in 0 .. N : runs[i] \in 0 .. N
  <2>1. \A i \in 0 .. N : runs[i] <= i
    BY <1>3, RunsGrow
  <2>2. \A i \in 0 .. N : runs[i] \in Nat
    BY <1>3
  <2> QED BY <2>1, <2>2
<1>5. PICK R \in SUBSET (0 .. N) : R = {runs[i] : i \in 0 .. N}
  BY <1>4
<1>6. R # {}
  <2>1. 0 \in 0 .. N
    OBVIOUS
  <2>2. runs[0] \in R
    BY <1>5, <2>1
  <2> QED BY <2>2
<1>7. Max(R) \in R /\ \A n \in R : n <= Max(R)
  BY <1>6, Greatest
<1>8. FindLoopLength(h) = Max(R)
  BY <1>1, <1>2, <1>5 DEF FindLoopLength
<1>9. FindLoopLength(h) >= 3 <=> \E i \in 0 .. N : runs[i] >= 3
  <2>1. \A i \in 0 .. N : runs[i] \in R
    BY <1>5
  <2>2. PICK k \in 0 .. N : Max(R) = runs[k]
    BY <1>5, <1>7
  <2>3. \A i \in 0 .. N : runs[i] \in Nat /\ runs[i] <= runs[k]
    BY <1>4, <1>7, <2>1, <2>2
  <2> QED BY <1>8, <2>2, <2>3
<1>10. ASSUME NEW i \in 0 .. N, runs[i] >= 3
       PROVE  \E j \in 1..N - 2 : h[j] = h[j + 1] /\ h[j + 1] = h[j + 2]
  <2>1. i \in 1 .. N /\ i - 1 \in 0 .. N /\ runs[i - 1] \in Nat
    BY <1>3, <1>10
  <2>2. i > 1 /\ h[i] = h[i - 1] /\ runs[i] = runs[i - 1] + 1
    BY <1>3, <1>10, <2>1
  <2>3. i - 1 \in 1 .. N /\ runs[i - 1] >= 2
    BY <1>10, <2>1, <2>2
  <2>4. i - 1 > 1 /\ h[i - 1] = h[(i - 1) - 1]
    BY <1>3, <2>3
  <2>5. i - 2 \in 1 .. N - 2 /\ (i - 1) - 1 = i - 2 /\ (i - 2) + 1 = i - 1 /\ (i - 2) + 2 = i
    BY <2>4
  <2> QED BY <2>2, <2>4, <2>5
<1>11. ASSUME NEW j \in 1..N - 2, h[j] = h[j + 1], h[j + 1] = h[j + 2]
       PROVE  \E i \in 0 .. N : runs[i] >= 3
  <2>1. /\ j \in 1 .. N /\ j + 1 \in 1 .. N /\ j + 2 \in 1 .. N /\ j + 2 \in 0 .. N
        /\ (j + 1) - 1 = j /\ (j + 2) - 1 = j + 1 /\ j - 1 \in 0 .. N
    OBVIOUS
  <2>2. runs[j - 1] \in Nat /\ runs[j] >= 1 /\ runs[j] \in Nat
    <3>1. runs[j - 1] \in Nat /\ runs[j] \in Nat
      BY <1>3, <2>1
    <3> QED BY <1>3, <2>1, <3>1
  <2>3. runs[j + 1] = runs[j] + 1
    BY <1>3, <1>11, <2>1
  <2>4. runs[j + 2] = runs[j + 1] + 1
    BY <1>3, <1>11, <2>1
  <2>5. runs[j + 2] >= 3
    BY <2>2, <2>3, <2>4
  <2> QED BY <2>1, <2>5
<1> QED BY <1>1, <1>9, <1>10, <1>11 DEF LoopIterations

(* The arguments of a trace's calls, in their order.                         *)
LEMMA HashesAre ==
  ASSUME WasteInv, NEW P \in SUBSET DOMAIN traffic
  PROVE  /\ HashesOf(P) \in Seq({traffic[i].args : i \in P}) /\ Len(HashesOf(P)) = Cardinality(P)
         /\ \A n \in 1 .. Cardinality(P) : Nth(P, n) \in P /\ HashesOf(P)[n] = traffic[Nth(P, n)].args
         /\ \A n, m \in 1 .. Cardinality(P) : Nth(P, n) = Nth(P, m) => n = m
<1>1. PICK N \in Nat : DOMAIN traffic = 1 .. N
  BY TrafficIs
<1>2. PICK c \in Nat : c = Cardinality(P)
  BY CallsCost
<1>3. \A n \in 1 .. c : Nth(P, n) \in P /\ Cardinality({k \in P : k <= Nth(P, n)}) = n
  BY <1>1, <1>2, NthExists
<1>4. PICK h : h = HashesOf(P)
  OBVIOUS
<1>5. h = [n \in 1 .. c |-> traffic[Nth(P, n)].args]
  BY <1>2, <1>4 DEF HashesOf, Nth
<1>6. PICK T : T = {traffic[i].args : i \in P}
  OBVIOUS
<1>7. \A n \in 1 .. c : traffic[Nth(P, n)].args \in T
  BY <1>3, <1>6
<1>8. h \in Seq(T) /\ Len(h) = c /\ \A n \in 1 .. c : h[n] = traffic[Nth(P, n)].args
  BY <1>5, <1>7
<1>9. \A n, m \in 1 .. c : Nth(P, n) = Nth(P, m) => n = m
  BY <1>3
<1> QED BY <1>2, <1>3, <1>4, <1>6, <1>8, <1>9

LEMMA PatternsAre ==
  ASSUME WasteInv, NEW P \in GetTraceToolPatterns
  PROVE  /\ P \in SUBSET ToolCalls /\ P \in SUBSET DOMAIN traffic
         /\ Cardinality(P) \in Nat /\ Cardinality(P) >= 3
         /\ \A a \in P, j \in ToolCalls : traffic[j].trace = traffic[a].trace => j \in P
<1>1. PICK f : f = [i \in ToolCalls |-> traffic[i].trace]
  OBVIOUS
<1>2. PICK k \in ToolCalls : P = {i \in ToolCalls : f[i] = f[k]}
  BY <1>1 DEF GetTraceToolPatterns, Grouped
<1>3. P = {i \in ToolCalls : traffic[i].trace = traffic[k].trace}
  BY <1>1, <1>2
<1>4. ToolCalls \in SUBSET DOMAIN traffic
  BY DEF ToolCalls
<1>5. Cardinality(P) \in Nat
  BY <1>3, <1>4, CallsCost
<1>6. Cardinality(P) >= 3
  BY DEF GetTraceToolPatterns, LoopIterations
<1> QED BY <1>3, <1>4, <1>5, <1>6

(* What findings save.                                                       *)
LEMMA PartOf ==
  ASSUME NEW s \in Nat, NEW n \in Nat, n > 0
  PROVE  /\ s \div n \in Nat /\ s \div n <= s
         /\ n >= 3 => (2 * s) \div n \in Nat /\ (s > 0 => (2 * s) \div n < s)
<1>1. s \div n \in Nat /\ n * (s \div n) <= s
  OBVIOUS
<1>2. PICK q \in Nat : q = s \div n /\ n * q <= s
  BY <1>1
<1>3. q <= n * q
  OBVIOUS
<1>4. q <= s
  <2>1. PICK x \in Nat : x = n * q
    OBVIOUS
  <2> QED BY <1>2, <1>3, <2>1
<1>5. ASSUME n >= 3
      PROVE  (2 * s) \div n \in Nat /\ (s > 0 => (2 * s) \div n < s)
  <2>1. PICK x \in Nat : x = 2 * s
    OBVIOUS
  <2>2. x \div n \in Nat /\ n * (x \div n) <= x
    BY <2>1
  <2>3. PICK p \in Nat : p = x \div n /\ n * p <= x
    BY <2>2
  <2>4. 3 * p <= n * p
    BY <1>5
  <2>5. 3 * p <= 2 * s
    <3>1. PICK y \in Nat : y = n * p
      OBVIOUS
    <3> QED BY <2>1, <2>3, <2>4, <3>1
  <2>6. s > 0 => p < s
    BY <2>5
  <2> QED BY <2>1, <2>3, <2>6
<1> QED BY <1>2, <1>4, <1>5

LEMMA LoopSavingsAre ==
  ASSUME WasteInv, NEW P \in GetTraceToolPatterns
  PROVE  LoopSavings(P) \in Int /\ (LoopSavings(P) > 0 <=> SpentOn(P) > 0)
<1>1. PICK s \in Nat, n \in Nat : s = SpentOn(P) /\ n = Cardinality(P) /\ n >= 3
  BY PatternsAre, CallsCost
<1>2. (2 * s) \div n \in Nat /\ (s > 0 => (2 * s) \div n < s)
  BY <1>1, PartOf
<1>3. LoopSavings(P) = s - (2 * s) \div n
  BY <1>1 DEF LoopSavings
<1> QED BY <1>1, <1>2, <1>3

LEMMA DuplicatesAre ==
  ASSUME WasteInv, NEW S \in GetDuplicateToolCalls
  PROVE  S \in SUBSET DOMAIN traffic /\ RepeatSavings(S) \in Nat
<1>1. S \in SUBSET DOMAIN traffic /\ Cardinality(S) >= 2
  BY DEF GetDuplicateToolCalls, Grouped, ToolCalls
<1>2. PICK s \in Nat, n \in Nat : s = SpentOn(S) /\ n = Cardinality(S) /\ n >= 2
  BY <1>1, CallsCost
<1>3. s \div n \in Nat /\ s \div n <= s
  BY <1>2, PartOf
<1>4. RepeatSavings(S) = s - s \div n
  BY <1>2 DEF RepeatSavings
<1> QED BY <1>1, <1>2, <1>3, <1>4

LEMMA MissesAre ==
  ASSUME WasteInv, NEW S \in PromptDuplicates
  PROVE  S \in SUBSET DOMAIN traffic /\ CacheSavings(S) \in Int
<1>1. S \in SUBSET DOMAIN traffic /\ Cardinality(S) >= 2
  BY DEF PromptDuplicates, Grouped
<1>2. PICK s \in Nat, n \in Nat : s = SpentOn(S) /\ n = Cardinality(S) /\ n >= 2
  BY <1>1, CallsCost
<1>3. PICK c \in Nat : c = s \div n
  BY <1>2, PartOf
<1>4. c \div 10 \in Nat
  OBVIOUS
<1>5. CacheSavings(S) = (n - 1) * (c - c \div 10)
  BY <1>2, <1>3 DEF CacheSavings
<1>6. PICK x \in Int, y \in Int : x = n - 1 /\ y = c - c \div 10
  BY <1>2, <1>4
<1>7. x * y \in Int
  OBVIOUS
<1> QED BY <1>1, <1>5, <1>6, <1>7

LEMMA SumAtLeast ==
  ASSUME NEW S, IsFiniteSet(S), NEW fun, \A x \in S : fun[x] \in Nat, NEW x \in S
  PROVE  fun[x] <= SumFunctionOnSet(fun, S)
<1>1. \A y \in S : fun[y] \in Int
  OBVIOUS
<1>2. SumFunctionOnSet(fun, S) = fun[x] + SumFunctionOnSet(fun, S \ {x})
  BY <1>1, SumSplit
<1>3. IsFiniteSet(S \ {x}) /\ \A y \in S \ {x} : fun[y] \in Nat
  BY FS_RemoveElement
<1>4. SumFunctionOnSet(fun, S \ {x}) \in Nat
  BY <1>3, SumNat
<1> QED BY <1>2, <1>4

LEMMA ImageFinite ==
  ASSUME NEW S, IsFiniteSet(S), NEW f, NEW T, T = {f[x] : x \in S}
  PROVE  IsFiniteSet(T)
<1>1. PICK g : g = [x \in S |-> f[x]]
  OBVIOUS
<1>2. g \in Surjection(S, T)
  BY <1>1 DEF Surjection
<1> QED BY <1>2, FS_Surjection

LEMMA TotalIs ==
  ASSUME NEW F, IsFiniteSet(F), \A f \in F : f.savings \in Nat
  PROVE  Total(F) \in Nat /\ \A f \in F : f.savings <= Total(F)
<1>1. PICK g : g = [f \in F |-> f.savings]
  OBVIOUS
<1>2. \A f \in F : g[f] \in Nat /\ g[f] = f.savings
  BY <1>1
<1>3. Total(F) = SumFunctionOnSet(g, F)
  BY <1>1 DEF Total
<1>4. SumFunctionOnSet(g, F) \in Nat
  BY <1>2, SumNat
<1>5. \A f \in F : g[f] <= SumFunctionOnSet(g, F)
  BY <1>2, SumAtLeast
<1> QED BY <1>2, <1>3, <1>4, <1>5

LEMMA CallSetsFinite ==
  ASSUME WasteInv, NEW G, G \subseteq SUBSET DOMAIN traffic
  PROVE  IsFiniteSet(G)
<1>1. PICK n \in Nat : DOMAIN traffic = 1 .. n
  BY TrafficIs
<1>2. IsFiniteSet(1 .. n)
  BY FS_Interval
<1>3. IsFiniteSet(SUBSET (1 .. n))
  BY <1>2, FS_SUBSET
<1> QED BY <1>1, <1>3, FS_Subset

LEMMA FindingsFinite ==
  ASSUME WasteInv, NEW G, G \subseteq SUBSET DOMAIN traffic, NEW s, NEW F,
         F = {[calls |-> S, savings |-> s[S]] : S \in G}
  PROVE  IsFiniteSet(F)
<1>1. PICK f : f = [S \in G |-> [calls |-> S, savings |-> s[S]]]
  OBVIOUS
<1>2. F = {f[S] : S \in G}
  BY <1>1
<1>3. IsFiniteSet(G)
  BY CallSetsFinite
<1> QED BY <1>2, <1>3, ImageFinite

LEMMA OverkillIs ==
  ASSUME WasteInv
  PROVE  /\ IsFiniteSet(DOMAIN DetectModelOverkill)
         /\ \A row \in DOMAIN DetectModelOverkill : DetectModelOverkill[row] \in Nat
<1>1. IsFiniteSet(DOMAIN traffic)
  BY CallsCost
<1>2. IsFiniteSet(UsageRows)
  <2>1. PICK f : f = [i \in DOMAIN traffic |-> <<traffic[i].task, traffic[i].model>>]
    OBVIOUS
  <2>2. UsageRows = {f[i] : i \in DOMAIN traffic}
    BY <2>1 DEF UsageRows
  <2> QED BY <1>1, <2>2, ImageFinite
<1>3. DOMAIN DetectModelOverkill \in SUBSET UsageRows
  BY DEF DetectModelOverkill
<1>4. ASSUME NEW row \in DOMAIN DetectModelOverkill
      PROVE  DetectModelOverkill[row] \in Nat
  <2>1. PICK s : s = SuggestAlternative(row[1], row[2], DetailThreshold)
    OBVIOUS
  <2>2. DetectModelOverkill[row] = Saved(row, s.model) /\ Saved(row, s.model) > 0 /\ s.source = "fitness"
    BY <2>1 DEF DetectModelOverkill
  <2>3. s.model # NoModel
    BY <2>1, <2>2 DEF SuggestAlternative
  <2>4. Known(row[2]) /\ Known(s.model) /\ Catalog[s.model].cost < Catalog[row[2]].cost
    BY <2>1, <2>3, SuggestionIs
  <2>5. SpentOn(RowCalls(row)) \in Nat
    BY CallsCost DEF RowCalls
  <2>6. Saved(row, s.model) \in 0 .. SpentOn(RowCalls(row))
    BY <2>4, SavedIs
  <2> QED BY <2>2, <2>5, <2>6
<1> QED BY <1>2, <1>3, <1>4, FS_Subset

LEMMA SavingsCover ==
  ASSUME WasteInv, NEW f \in DetectAgentLoops, NEW g \in DetectRedundantCalls
  PROVE  Analyze.savings >= f.savings + g.savings
<1>1. Total(DetectRedundantCalls) \in Nat /\ g.savings \in Nat /\ g.savings <= Total(DetectRedundantCalls)
  <2>1. PICK G : G = GetDuplicateToolCalls
    OBVIOUS
  <2>2. G \subseteq SUBSET DOMAIN traffic /\ \A S \in G : RepeatSavings(S) \in Nat
    BY <2>1, DuplicatesAre
  <2>3. PICK s : s = [S \in G |-> RepeatSavings(S)]
    OBVIOUS
  <2>4. DetectRedundantCalls = {[calls |-> S, savings |-> s[S]] : S \in G}
    BY <2>1, <2>3 DEF DetectRedundantCalls
  <2>5. IsFiniteSet(DetectRedundantCalls)
    BY <2>2, <2>4, FindingsFinite
  <2>6. \A h \in DetectRedundantCalls : h.savings \in Nat
    BY <2>2, <2>3, <2>4
  <2> QED BY <2>5, <2>6, TotalIs
<1>2. Total(DetectAgentLoops) \in Nat /\ f.savings \in Nat /\ f.savings <= Total(DetectAgentLoops)
  <2>1. PICK G : G = {P \in GetTraceToolPatterns : /\ FindLoopLength(HashesOf(P)) >= LoopIterations
                                                   /\ LoopSavings(P) > 0}
    OBVIOUS
  <2>2. G \subseteq SUBSET DOMAIN traffic /\ \A S \in G : LoopSavings(S) \in Nat
    BY <2>1, PatternsAre, LoopSavingsAre
  <2>3. PICK s : s = [S \in G |-> LoopSavings(S)]
    OBVIOUS
  <2>4. DetectAgentLoops = {[calls |-> S, savings |-> s[S]] : S \in G}
    BY <2>1, <2>3 DEF DetectAgentLoops
  <2>5. IsFiniteSet(DetectAgentLoops)
    BY <2>2, <2>4, FindingsFinite
  <2>6. \A h \in DetectAgentLoops : h.savings \in Nat
    BY <2>2, <2>3, <2>4
  <2> QED BY <2>5, <2>6, TotalIs
<1>3. Total(DetectCacheMisses) \in Nat
  <2>1. PICK G : G = {D \in PromptDuplicates : CacheSavings(D) > 0}
    OBVIOUS
  <2>2. G \subseteq SUBSET DOMAIN traffic /\ \A S \in G : CacheSavings(S) \in Nat
    BY <2>1, MissesAre
  <2>3. PICK s : s = [S \in G |-> CacheSavings(S)]
    OBVIOUS
  <2>4. DetectCacheMisses = {[calls |-> S, savings |-> s[S]] : S \in G}
    BY <2>1, <2>3 DEF DetectCacheMisses
  <2>5. IsFiniteSet(DetectCacheMisses)
    BY <2>2, <2>4, FindingsFinite
  <2>6. \A h \in DetectCacheMisses : h.savings \in Nat
    BY <2>2, <2>3, <2>4
  <2> QED BY <2>5, <2>6, TotalIs
<1>4. SumFunctionOnSet(DetectModelOverkill, DOMAIN DetectModelOverkill) \in Nat
  BY OverkillIs, SumNat
<1>5. Analyze.savings = SumFunctionOnSet(DetectModelOverkill, DOMAIN DetectModelOverkill)
        + Total(DetectRedundantCalls) + Total(DetectCacheMisses) + Total(DetectAgentLoops)
  BY DEF Analyze
<1> QED BY <1>1, <1>2, <1>3, <1>4, <1>5

LEMMA LoopsAre == WasteInv => LoopsAreRuns
<1> SUFFICES ASSUME WasteInv, NEW P \in GetTraceToolPatterns
             PROVE  LET h == HashesOf(P)
                        looping == \E i \in 1..Len(h) - 2 : h[i] = h[i + 1] /\ h[i + 1] = h[i + 2]
                    IN  /\ looping /\ SpentOn(P) > 0 <=> \E f \in DetectAgentLoops : f.calls = P
                        /\ \A f \in DetectAgentLoops : f.calls = P =>
                              \E g \in DetectRedundantCalls :
                                  g.calls \subseteq P /\ Analyze.savings >= f.savings + g.savings
  BY DEF LoopsAreRuns
<1> DEFINE h == HashesOf(P)
           c == Cardinality(P)
           looping == \E i \in 1..Len(h) - 2 : h[i] = h[i + 1] /\ h[i + 1] = h[i + 2]
<1>1. /\ P \in SUBSET ToolCalls /\ P \in SUBSET DOMAIN traffic
      /\ c \in Nat /\ c >= 3
      /\ \A a \in P, j \in ToolCalls : traffic[j].trace = traffic[a].trace => j \in P
  BY PatternsAre
<1>2. /\ h \in Seq({traffic[i].args : i \in P}) /\ Len(h) = c
      /\ \A n \in 1 .. c : Nth(P, n) \in P /\ h[n] = traffic[Nth(P, n)].args
      /\ \A n, m \in 1 .. c : Nth(P, n) = Nth(P, m) => n = m
  BY <1>1, HashesAre
<1>3. FindLoopLength(h) >= LoopIterations <=> looping
  <2> HIDE DEF h
  <2> QED BY <1>2, LongestRun
<1>4. (\E f \in DetectAgentLoops : f.calls = P) <=>
        FindLoopLength(h) >= LoopIterations /\ LoopSavings(P) > 0
  <2>1. ASSUME NEW f \in DetectAgentLoops, f.calls = P
        PROVE  FindLoopLength(h) >= LoopIterations /\ LoopSavings(P) > 0
    <3>1. PICK S \in GetTraceToolPatterns :
            /\ FindLoopLength(HashesOf(S)) >= LoopIterations /\ LoopSavings(S) > 0
            /\ f = [calls |-> S, savings |-> LoopSavings(S)]
      BY DEF DetectAgentLoops
    <3>2. S = P
      BY <2>1, <3>1
    <3> QED BY <3>1, <3>2
  <2>2. ASSUME FindLoopLength(h) >= LoopIterations, LoopSavings(P) > 0
        PROVE  \E f \in DetectAgentLoops : f.calls = P
    <3>1. PICK f : f = [calls |-> P, savings |-> LoopSavings(P)]
      OBVIOUS
    <3>2. f \in DetectAgentLoops
      BY <2>2, <3>1 DEF DetectAgentLoops
    <3>3. f.calls = P
      BY <3>1
    <3> QED BY <3>2, <3>3
  <2> QED BY <2>1, <2>2
<1>5. LoopSavings(P) > 0 <=> SpentOn(P) > 0
  BY LoopSavingsAre
<1>6. ASSUME NEW f \in DetectAgentLoops, f.calls = P
      PROVE  \E g \in DetectRedundantCalls :
                g.calls \subseteq P /\ Analyze.savings >= f.savings + g.savings
  <2> HIDE DEF h, c
  <2>1. PICK i \in 1 .. c - 2 : h[i] = h[i + 1]
    BY <1>2, <1>3, <1>4, <1>6
  <2>2. i \in 1 .. c /\ i + 1 \in 1 .. c /\ i # i + 1
    BY <1>1, <2>1
  <2>3. PICK a \in P, b \in P : a # b /\ traffic[a].args = traffic[b].args
    BY <1>2, <2>1, <2>2
  <2>4. PICK k : k = [j \in ToolCalls |-> <<traffic[j].trace, traffic[j].args>>]
    OBVIOUS
  <2>5. PICK S : S = {j \in ToolCalls : k[j] = k[a]}
    OBVIOUS
  <2>6. a \in ToolCalls /\ b \in ToolCalls
    BY <1>1
  <2>7. \A j \in S : j \in ToolCalls /\ traffic[j].trace = traffic[a].trace
    BY <2>4, <2>5, <2>6
  <2>8. S \subseteq P
    BY <1>1, <2>7
  <2>9. traffic[a].trace = traffic[b].trace
    <3>1. PICK f1 : f1 = [j \in ToolCalls |-> traffic[j].trace]
      OBVIOUS
    <3>2. PICK k1 \in ToolCalls : P = {j \in ToolCalls : f1[j] = f1[k1]}
      BY <3>1 DEF GetTraceToolPatterns, Grouped
    <3> QED BY <2>6, <3>1, <3>2
  <2>10. {a, b} \subseteq S
    BY <2>3, <2>4, <2>5, <2>6, <2>9
  <2>11. Cardinality(S) >= 2
    <3>1. IsFiniteSet(S) /\ Cardinality(S) \in Nat
      BY <1>1, <2>8, CallsCost
    <3>2. Cardinality({a, b}) = 2
      <4>1. IsFiniteSet({a}) /\ Cardinality({a}) = 1 /\ {a} \cup {b} = {a, b} /\ b \notin {a}
        BY <2>3, FS_Singleton
      <4> QED BY <4>1, FS_AddElement
    <3>3. Cardinality({a, b}) <= Cardinality(S)
      BY <2>10, <3>1, FS_Subset
    <3> QED BY <3>1, <3>2, <3>3
  <2>12. S \in GetDuplicateToolCalls
    BY <2>4, <2>5, <2>6, <2>11 DEF GetDuplicateToolCalls, Grouped
  <2>13. PICK g \in DetectRedundantCalls : g.calls = S
    <3>1. PICK g : g = [calls |-> S, savings |-> RepeatSavings(S)]
      OBVIOUS
    <3>2. g \in DetectRedundantCalls
      BY <2>12, <3>1 DEF DetectRedundantCalls
    <3>3. g.calls = S
      BY <3>1
    <3> QED BY <3>2, <3>3
  <2> QED BY <2>8, <2>13, SavingsCover
<1> QED BY <1>3, <1>4, <1>5, <1>6

LEMMA WasteHolds ==
  WasteInv => AdviceSaves /\ ScoreCoversOverkill /\ LoopsAreRuns /\ MissesAreCacheable
BY AdviceIsCheaper, OverkillIsScored, LoopsAre, MissesWereCacheable

(* Advice on spending: what is called waste could have been saved, and every  *)
(* model the waste reports advise is cheaper. What a budget suggests ends and *)
(* returns to no dearer tier; each step of it is cheaper but at two models.   *)
THEOREM AdviceIsSound == Spec => []AdviceHolds
<1>1. Init => WasteInv /\ BudgetInv
  BY WasteStarts, BudgetsStart DEF Init
<1>2. (WasteInv /\ BudgetInv) /\ [Next]_vars => (WasteInv /\ BudgetInv)'
  <2> SUFFICES ASSUME WasteInv, BudgetInv, [Next]_vars  PROVE WasteInv' /\ BudgetInv'
    OBVIOUS
  <2>1. (WasteNext \/ UNCHANGED wasteVars) /\ (BudgetsNext \/ UNCHANGED budgetVars)
    BY DEF Next, vars, components
  <2> QED BY <2>1, WasteKept, BudgetsKept
<1>3. WasteInv /\ BudgetInv => AdviceHolds
  BY WasteHolds, BudgetsHold DEF AdviceHolds
<1> QED BY <1>1, <1>2, <1>3, PTL DEF Spec
=============================================================================
