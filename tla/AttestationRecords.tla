------------------------- MODULE AttestationRecords -------------------------
(***************************************************************************)
(* The attestation record shared by the contract, the providers and the    *)
(* scheduler, and the hash that links a record to its predecessor.         *)
(*                                                                         *)
(* The three commitments of a record (metrics, benchmark, Merkle root) are *)
(* one body. The hash is collision-free: it is the tuple of what is hashed. *)
(***************************************************************************)
EXTENDS Integers, Sequences

CONSTANTS
  Orgs,    \* org_id_hash values
  Times,   \* timestamps, in whole seconds
  Bodies   \* metrics_hash, benchmark_hash and merkle_root together

(* bytes32(0), and the empty string that the in-memory provider also takes  *)
(* as the predecessor of a first record.                                    *)
ZERO_HASH == <<>>
EmptyHash == <<"">>

(* abi.encodePacked of the linked fields: the submission time is left out.  *)
compute_chain_hash(r) == <<r.org, r.start, r.end, r.body, r.prev, r.nonce>>

(* What a record is made of; prev is any hash.                              *)
IsRecord(r) ==
  /\ DOMAIN r = {"org", "start", "end", "body", "prev", "nonce"}
  /\ r.org \in Orgs
  /\ r.start \in Times /\ r.end \in Times
  /\ r.body \in Bodies
  /\ r.nonce \in Nat

=============================================================================
