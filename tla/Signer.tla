-------------------------------- MODULE Signer --------------------------------
(***************************************************************************)
(* The enclave process: src/enclave/src/lib.rs.  Each request is handled   *)
(* under one mutex, so one handler is one action.  The clients are         *)
(* arbitrary: any request that can be written down may arrive at any time, *)
(* which covers lost answers, retries, duplicated, delayed and reordered   *)
(* requests, and any number of wallets that race for the same coin.  A     *)
(* request that the code answers with an error, and a status request,      *)
(* change nothing.  A restart loses every coin: the process keeps its      *)
(* state in memory only.                                                   *)
(***************************************************************************)
EXTENDS Enclave

CONSTANTS
  CoinId, Capability, Sighash,
  MaxKeys    \* bound: signing keys drawn over all the boots of the process

ASSUME MaxKeysAssumption == MaxKeys \in Nat

VARIABLES
  coins,     \* Signer::coins of the running process
  keys,      \* signing keys drawn so far, in every boot
  drawn,     \* handoff tokens drawn so far, in every boot
  issued     \* history: every answer sign has given, with its signature count

vars == <<coins, keys, drawn, issued>>

CapabilityHashes == {CapabilityHash(capability) : capability \in Capability}

SignRequest ==
  [coin_id              : CoinId,
   current_capability   : Capability,
   current_handoff      : Nat,
   next_capability_hash : CapabilityHashes,
   sighash              : Sighash]

SignResponse ==
  [signature : [key : Nat, sighash : Sighash], next_handoff : Nat]

Coin ==
  [signing_key     : Nat,
   authorization   : [coin_id         : CoinId,
                      capability_hash : CapabilityHashes,
                      handoff         : Nat],
   signature_count : 0 .. MaxCount,
   last            : SUBSET [request : SignRequest, response : SignResponse]]

Answer == [number : Nat, request : SignRequest, response : SignResponse]

KeyOf(answer) == answer.response.signature.key

-----------------------------------------------------------------------------
(* Signer::new: the map of a freshly booted process is empty. *)
NoCoins == [coin_id \in {} |-> {}]

Init ==
  /\ coins = NoCoins
  /\ keys = 0
  /\ drawn = 0
  /\ issued = {}

(* Writes one entry of the map. *)
Insert(coin_id, coin) ==
  coins' = [id \in DOMAIN coins \cup {coin_id} |->
              IF id = coin_id THEN coin ELSE coins[id]]

(* Whether register inserts a coin.  A coin the process already has keeps   *)
(* its state, whatever hash the request carries; a full map refuses.       *)
AdmitsAnyone(coin_id) == Cardinality(DOMAIN coins \ {coin_id}) < LIMIT

Admits(coin_id) ==
  coin_id \notin DOMAIN coins /\ Cardinality(DOMAIN coins) < LIMIT

(* register: a new coin, with a fresh signing key. *)
Register(coin_id, hash) ==
  /\ Admits(coin_id)
  /\ keys < MaxKeys
  /\ keys' = keys + 1
  /\ Insert(coin_id, NewCoin(coin_id, hash, keys + 1))
  /\ UNCHANGED <<drawn, issued>>

(* The answers for one signature count of a coin. *)
Record(number, request, response) ==
  issued' = issued \cup
    {[number |-> number, request |-> request, response |-> response]}

(* sign, the request of the last transition again: the cached answer. *)
RetrySign(request) ==
  /\ request.coin_id \in DOMAIN coins
  /\ LET coin == coins[request.coin_id]
     IN  /\ IsRetry(coin, request)
         /\ Record(coin.signature_count, request, CachedResponse(coin))
  /\ UNCHANGED <<coins, keys, drawn>>

(* sign, a request that spends the current authorization: one signature,   *)
(* a fresh handoff, and authorization, count and cache move together.      *)
Sign(request) ==
  /\ request.coin_id \in DOMAIN coins
  /\ LET coin     == coins[request.coin_id]
         response == AnswerTo(coin, request, drawn + 1)
     IN  /\ ~ IsRetry(coin, request)
         /\ CanSign(coin, request)
         /\ Insert(request.coin_id, SignedCoin(coin, request, response))
         /\ Record(coin.signature_count + 1, request, response)
  /\ drawn' = drawn + 1
  /\ UNCHANGED keys

(* The workload restarts: nothing is stored. *)
Restart ==
  /\ coins' = NoCoins
  /\ UNCHANGED <<keys, drawn, issued>>

(* Any request a client can write down; no handoff is guessed before it is *)
(* drawn.                                                                  *)
Requests ==
  [coin_id              : CoinId,
   current_capability   : Capability,
   current_handoff      : 0 .. drawn,
   next_capability_hash : CapabilityHashes,
   sighash              : Sighash]

Next ==
  \/ \E coin_id \in CoinId, hash \in CapabilityHashes : Register(coin_id, hash)
  \/ \E request \in Requests : RetrySign(request)
  \/ \E request \in Requests : Sign(request)
  \/ Restart

Spec == Init /\ [][Next]_vars

-----------------------------------------------------------------------------
TypeOK ==
  /\ DOMAIN coins \subseteq CoinId
  /\ coins = [id \in DOMAIN coins |-> coins[id]]
  /\ \A id \in DOMAIN coins :
       coins[id] \in Coin /\ coins[id].authorization.coin_id = id
  /\ keys \in 0 .. MaxKeys
  /\ drawn \in Nat
  /\ issued \subseteq Answer

(* A process never holds more than LIMIT coins, however registrations of   *)
(* new and known coins and restarts are mixed (register's capacity test).  *)
CapacityBound == Cardinality(DOMAIN coins) <= LIMIT

(* No fork: one signing key never gives two different answers for one      *)
(* authorization, so of two owners that race with the same secrets at most *)
(* one gets a signature, and a retry gets the answer it lost and never a   *)
(* second signature (sign's authorization test and retry cache).           *)
NoFork ==
  \A a, b \in issued :
    KeyOf(a) = KeyOf(b) /\ Consumed(a.request) = Consumed(b.request) => a = b

(* The signatures of a registered coin are a chain: one for each count up  *)
(* to signature_count, each spends exactly the authorization its           *)
(* predecessor created, and the last created the current one.  A receiver  *)
(* relies on it when it compares signature_count with the history length.  *)
CountIsHistory ==
  \A id \in DOMAIN coins :
    LET coin == coins[id]
        made(n) == {a \in issued : KeyOf(a) = coin.signing_key /\ a.number = n}
    IN  /\ \A a \in issued :
             KeyOf(a) = coin.signing_key => a.number \in 1 .. coin.signature_count
        /\ \A n \in 1 .. coin.signature_count : \E a \in made(n) :
             /\ made(n) = {a}
             /\ IF n = coin.signature_count
                THEN Produced(a.request, a.response) = coin.authorization
                ELSE \A b \in made(n + 1) :
                       Produced(a.request, a.response) = Consumed(b.request)

(* A lost answer can always be fetched again: as long as the process lives *)
(* the request of the latest signature is answered from the cache with the *)
(* very answer that was issued (the assignment to coin.last).              *)
LatestIsRecoverable ==
  \A id \in DOMAIN coins : \A a \in issued :
    /\ KeyOf(a) = coins[id].signing_key
    /\ a.number = coins[id].signature_count
    => /\ IsRetry(coins[id], a.request)
       /\ CachedResponse(coins[id]) = a.response

(* A former owner stays locked out: an authorization that was spent is     *)
(* never the current one again, even when a capability is reused (the      *)
(* fresh next_handoff of sign).                                            *)
SpentStaysSpent ==
  \A id \in DOMAIN coins : \A a \in issued :
    KeyOf(a) = coins[id].signing_key
      => Consumed(a.request) # coins[id].authorization

(* A registered coin keeps its signing key and never goes back: only a     *)
(* restart, which loses every coin at once, removes it.  A registration    *)
(* that is sent again does not reset it (register's early return).         *)
KeepsCoin(id) ==
  /\ id \in DOMAIN coins'
  /\ coins'[id].signing_key = coins[id].signing_key
  /\ coins'[id].signature_count >= coins[id].signature_count

RegistrationIsSticky ==
  [][coins' = NoCoins \/ \A id \in DOMAIN coins : KeepsCoin(id)]_vars
=============================================================================
