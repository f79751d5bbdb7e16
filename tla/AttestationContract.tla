------------------------ MODULE AttestationContract ------------------------
(***************************************************************************)
(* AgentProofAttestation.sol: a registry of attestations by organisation   *)
(* and nonce, with an owner who grants and revokes the attestor role.      *)
(*                                                                         *)
(* A call is one step; a call that reverts changes nothing and is no step. *)
(***************************************************************************)
EXTENDS AttestationRecords

CONSTANTS
  Accounts,      \* addresses other than address(0)
  InitialOwner,
  ZeroAddress,
  MaxNonce       \* bound on the attestations of an organisation

ASSUME ContractAssumption ==
  /\ InitialOwner \in Accounts
  /\ ZeroAddress \notin Accounts
  /\ MaxNonce \in Nat

VARIABLES owner, attestors, latestNonce, attestations

contractVars == <<owner, attestors, latestNonce, attestations>>

-----------------------------------------------------------------------------
(* The storage of the registry, and what one record does to it.             *)

Ledger == [nonce |-> latestNonce, att |-> attestations]

ExpectedPrev(L, o) ==
  IF L.nonce[o] = 0 THEN ZERO_HASH ELSE compute_chain_hash(L.att[o][L.nonce[o]])

CanAttest(L, in) == in.end > in.start /\ in.prev = ExpectedPrev(L, in.org)

Record(in, n) ==
  [org |-> in.org, start |-> in.start, end |-> in.end, body |-> in.body,
   prev |-> in.prev, nonce |-> n]

(* _attest: the record goes under the next nonce.                           *)
Attested(L, in) ==
  LET n == L.nonce[in.org] + 1
      f == L.att[in.org] IN
    [nonce |-> [L.nonce EXCEPT ![in.org] = n],
     att   |-> [L.att EXCEPT ![in.org] =
                  [k \in DOMAIN f \cup {n} |-> IF k = n THEN Record(in, n) ELSE f[k]]]]

(* batchAttest: the ledger after the first i inputs.                        *)
LedgerAfter(ins) ==
  LET L[i \in 0 .. Len(ins)] ==
        IF i = 0 THEN Ledger ELSE Attested(L[i - 1], ins[i])
  IN L

(* One input that reverts reverts the whole batch.                          *)
CanAttestAll(ins) ==
  LET L == LedgerAfter(ins) IN
    \A i \in 1 .. Len(ins) : CanAttest(L[i - 1], ins[i])

Commit(L) == latestNonce' = L.nonce /\ attestations' = L.att

-----------------------------------------------------------------------------
ContractInit ==
  /\ owner = InitialOwner
  /\ attestors = {InitialOwner}
  /\ latestNonce = [o \in Orgs |-> 0]
  /\ attestations = [o \in Orgs |-> <<>>]

GrantAttestor(caller, a) ==
  /\ caller = owner
  /\ a # ZeroAddress
  /\ attestors' = attestors \cup {a}
  /\ UNCHANGED <<owner, latestNonce, attestations>>

RevokeAttestor(caller, a) ==
  /\ caller = owner
  /\ attestors' = attestors \ {a}
  /\ UNCHANGED <<owner, latestNonce, attestations>>

TransferOwnership(caller, a) ==
  /\ caller = owner
  /\ a # ZeroAddress
  /\ owner' = a
  /\ UNCHANGED <<attestors, latestNonce, attestations>>

(* attest, and batchAttest of one.                                          *)
Attest(caller, in) ==
  /\ caller \in attestors
  /\ CanAttest(Ledger, in)
  /\ Commit(Attested(Ledger, in))
  /\ UNCHANGED <<owner, attestors>>

(* Mutant: every input is linked to the record the batch started from.      *)
MutBatchAttestOldLinks(caller, ins) ==
  /\ caller \in attestors
  /\ \A i \in 1 .. Len(ins) : CanAttest(Ledger, ins[i])
  /\ Commit(LedgerAfter(ins)[Len(ins)])
  /\ UNCHANGED <<owner, attestors>>

BatchAttest(caller, ins) ==
  /\ caller \in attestors
  /\ CanAttestAll(ins)
  /\ Commit(LedgerAfter(ins)[Len(ins)])
  /\ UNCHANGED <<owner, attestors>>

-----------------------------------------------------------------------------
(* What a caller may send. The hashes worth naming are zero and those of    *)
(* the latest records; any other is refused like one of these.              *)
Hashes ==
  {ZERO_HASH} \cup {ExpectedPrev(Ledger, o) : o \in Orgs}

Inputs ==
  [org : {o \in Orgs : latestNonce[o] < MaxNonce},
   start : Times, end : Times, body : Bodies, prev : Hashes]

(* The second input of a batch may be linked to the first.                  *)
BatchOfTwo(caller, in) ==
  \E o \in Orgs, h \in {in.prev, compute_chain_hash(Record(in, latestNonce[in.org] + 1))} :
    /\ latestNonce[o] + (IF o = in.org THEN 1 ELSE 0) < MaxNonce
    /\ BatchAttest(caller, <<in, [in EXCEPT !.org = o, !.prev = h]>>)

CallRegistry(caller) ==
  \/ \E a \in Accounts \cup {ZeroAddress} :
       \/ GrantAttestor(caller, a)
       \/ RevokeAttestor(caller, a)
       \/ TransferOwnership(caller, a)
  \/ \E in \in Inputs : Attest(caller, in) \/ BatchOfTwo(caller, in)

ContractNext == \E caller \in Accounts : CallRegistry(caller)

ContractSpec == ContractInit /\ [][ContractNext]_contractVars

-----------------------------------------------------------------------------
ContractTypeOK ==
  /\ owner \in Accounts
  /\ attestors \subseteq Accounts
  /\ latestNonce \in [Orgs -> 0 .. MaxNonce]
  /\ \A o \in Orgs : \A n \in DOMAIN attestations[o] : IsRecord(attestations[o][n])

(* The records of an organisation are those up to its latest nonce.         *)
history ==
  [o \in Orgs |-> [n \in 1 .. latestNonce[o] |-> attestations[o][n]]]

(* Whoever holds the attestor role, and however roles change hands, the      *)
(* registry is an append-only chain in which every record is linked to its   *)
(* predecessor, also inside a batch.                                         *)
Chain == INSTANCE AttestationChain WITH chain <- history
RefinesChain == Chain!ChainSpec
=============================================================================
