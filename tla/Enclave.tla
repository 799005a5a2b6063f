------------------------------- MODULE Enclave -------------------------------
(***************************************************************************)
(* The data of the enclave signer (src/enclave/src/lib.rs) and the pure    *)
(* part of its three requests, shared by every module in which a signer    *)
(* takes part: Signer drives it with arbitrary clients, Funding and        *)
(* Transfer with the wallets of this repository.                           *)
(*                                                                         *)
(* Abstractions.                                                           *)
(*  - Tagged SHA-256 hashes are injective constructors: equal hashes have  *)
(*    equal inputs.                                                        *)
(*  - A random 32-byte handoff token is the number of the draw it came     *)
(*    from, so no two draws collide; the all-zero INITIAL_HANDOFF is 0,    *)
(*    which no draw returns.  A signing key is the number of its draw too. *)
(*  - A BIP340 signature is the pair of the key and the message signed:    *)
(*    signing is deterministic in the code (sign_schnorr_no_aux_rand).     *)
(*  - Option<(SignRequest, SignResponse)> is the empty set or a singleton. *)
(***************************************************************************)
EXTENDS Naturals, FiniteSets

CONSTANTS
  LIMIT,     \* const generic of Signer: coins one process registers
  MaxCount   \* the largest signature_count (u64::MAX in the code)

ASSUME LimitAssumption == LIMIT \in Nat
ASSUME MaxCountAssumption == MaxCount \in Nat

INITIAL_HANDOFF == 0

CapabilityHash(capability) == [hash_of |-> capability]

Authorization(coin_id, hash, handoff) ==
  [coin_id |-> coin_id, capability_hash |-> hash, handoff |-> handoff]

-----------------------------------------------------------------------------
(* Some definitions stand next to a mutated form of themselves (a dropped  *)
(* test, a missing assignment).  Nothing uses these forms: PROJECT.json    *)
(* names the property that fails when one of them takes the place of its   *)
(* neighbour.                                                              *)

(* What a request spends and what its response creates. *)

Consumed(request) ==
  Authorization(request.coin_id,
                CapabilityHash(request.current_capability),
                request.current_handoff)

Produced(request, response) ==
  Authorization(request.coin_id, request.next_capability_hash,
                response.next_handoff)

-----------------------------------------------------------------------------
(* The coin a registration inserts. *)
NewCoin(coin_id, hash, key) ==
  [signing_key     |-> key,
   authorization   |-> Authorization(coin_id, hash, INITIAL_HANDOFF),
   signature_count |-> 0,
   last            |-> {}]

(* CoinStatus: what a wallet is told of a coin. *)
StatusOf(coin) ==
  [signing_pubkey  |-> coin.signing_key,
   authorization   |-> coin.authorization,
   signature_count |-> coin.signature_count]

(* The one-entry retry cache holds the answer to this very request. *)
IsRetryOfMessage(coin, request) ==
  \E pair \in coin.last : pair.request.sighash = request.sighash

IsRetry(coin, request) == \E pair \in coin.last : pair.request = request

CachedResponse(coin) == (CHOOSE pair \in coin.last : TRUE).response

(* Every check sign makes on a request that is not a retry. *)
CanSignWithAnyCapability(coin, request) ==
  /\ request.current_handoff = coin.authorization.handoff
  /\ request.next_capability_hash # CapabilityHash(request.current_capability)
  /\ coin.signature_count < MaxCount

CanSignPastCount(coin, request) ==
  /\ Consumed(request) = coin.authorization
  /\ request.next_capability_hash # CapabilityHash(request.current_capability)
  /\ coin.signature_count <= MaxCount

CanSign(coin, request) ==
  /\ Consumed(request) = coin.authorization
  /\ request.next_capability_hash # CapabilityHash(request.current_capability)
  /\ coin.signature_count < MaxCount

(* The answer, with the handoff token drawn for it. *)
AnswerWithStaleHandoff(coin, request, handoff) ==
  [signature    |-> [key |-> coin.signing_key, sighash |-> request.sighash],
   next_handoff |-> request.current_handoff]

AnswerTo(coin, request, handoff) ==
  [signature    |-> [key |-> coin.signing_key, sighash |-> request.sighash],
   next_handoff |-> handoff]

(* The three fields sign assigns together, in one locked section. *)
SignedCoinWithoutCache(coin, request, response) ==
  [signing_key     |-> coin.signing_key,
   authorization   |-> Produced(request, response),
   signature_count |-> coin.signature_count + 1,
   last            |-> coin.last]

SignedCoinWithoutRotation(coin, request, response) ==
  [signing_key     |-> coin.signing_key,
   authorization   |-> coin.authorization,
   signature_count |-> coin.signature_count + 1,
   last            |-> {[request |-> request, response |-> response]}]

SignedCoin(coin, request, response) ==
  [signing_key     |-> coin.signing_key,
   authorization   |-> Produced(request, response),
   signature_count |-> coin.signature_count + 1,
   last            |-> {[request |-> request, response |-> response]}]
=============================================================================
