------------------------- MODULE ValidatorRegistry -------------------------
(***************************************************************************)
(* The in-memory registry of validators (validators/registry.py): who is   *)
(* registered, with which stake. A partial function of the addresses.      *)
(***************************************************************************)
EXTENDS Integers, Sequences, FiniteSets, TLC

CONSTANTS
    Members,   \* addresses
    Deposit,      \* what each address stakes when it registers
    MinStake,     \* min_stake
    SlashPercent, \* slash_percentage
    MaxDepartures \* bound: deregistrations

ASSUME StakeAssumption ==
    /\ Deposit \in [Members -> Nat] /\ MinStake \in Nat \ {0}
    /\ SlashPercent \in 1..100 /\ MaxDepartures \in Nat

VARIABLES
    validators, \* _validators: address -> its ValidatorInfo
    departures  \* counts the deregistrations

registryVars == <<validators, departures>>

NewInfo(a) == [stake |-> Deposit[a], active |-> TRUE, rewards |-> 0, slashes |-> 0, done |-> 0]
Registered == DOMAIN validators
Active == {a \in Registered : validators[a].active}

RegistryInit ==
    /\ validators = [a \in {b \in Members : Deposit[b] >= MinStake} |-> NewInfo(a)]
    /\ departures = 0

\* The bodies of the methods that change a registered validator's entry.
Cut(info, amount) ==
    LET actual == IF amount < info.stake THEN amount ELSE info.stake
    IN  [info EXCEPT !.stake = @ - actual, !.slashes = @ + actual,
                     !.active = @ /\ info.stake - actual >= MinStake]
Penalty(info) == (info.stake * SlashPercent) \div 100
CutAll(known, losers) ==
    [a \in DOMAIN known |->
        IF a \in losers /\ Penalty(known[a]) > 0 THEN Cut(known[a], Penalty(known[a])) ELSE known[a]]

Register(a) ==
    /\ a \notin Registered /\ Deposit[a] >= MinStake
    /\ validators' = [b \in Registered \cup {a} |-> IF b = a THEN NewInfo(a) ELSE validators[b]]
    /\ UNCHANGED departures
Deregister(a) ==
    /\ a \in Registered /\ departures < MaxDepartures
    /\ validators' = [b \in Registered \ {a} |-> validators[b]]
    /\ departures' = departures + 1

\* A validator may take part exactly while what is left of its stake reaches the
\* minimum, and every unit it lost since it registered was recorded as slashed:
\* a later reward or registration of another never revives it.
ActiveIffStaked ==
    \A a \in Registered :
        /\ validators[a].active <=> validators[a].stake >= MinStake
        /\ validators[a].stake + validators[a].slashes = Deposit[a]
=============================================================================
