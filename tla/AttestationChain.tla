-------------------------- MODULE AttestationChain --------------------------
(***************************************************************************)
(* What every attestation provider promises: for each organisation a       *)
(* history of records that only grows at its end, numbered from 1, each    *)
(* record carrying the hash of the one before it.                          *)
(***************************************************************************)
EXTENDS AttestationRecords

VARIABLE chain   \* the history of each organisation

(* The hashes that record n of a history may carry.                         *)
PrevHashes(c, n) ==
  IF n = 1 THEN {ZERO_HASH, EmptyHash} ELSE {compute_chain_hash(c[n - 1])}

(* A history as an auditor accepts it.                                      *)
Linked(c) ==
  \A n \in 1 .. Len(c) : c[n].nonce = n /\ c[n].prev \in PrevHashes(c, n)

Extends(c, d) == Len(c) <= Len(d) /\ \A n \in 1 .. Len(c) : d[n] = c[n]

ChainInit == chain = [o \in Orgs |-> <<>>]

(* One submission or one batch: records are added, none is changed.         *)
Extend ==
  /\ DOMAIN chain' = Orgs
  /\ \A o \in Orgs :
       /\ Extends(chain[o], chain'[o])
       /\ Linked(chain'[o])
       /\ \A n \in 1 .. Len(chain'[o]) : chain'[o][n].org = o

ChainSpec == ChainInit /\ [][Extend]_chain
=============================================================================
