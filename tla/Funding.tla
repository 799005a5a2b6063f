------------------------------- MODULE Funding -------------------------------
(***************************************************************************)
(* One wallet registers a coin and funds it from its own deposit:          *)
(* `coin register` (register_coin) and `coin fund` with an explorer        *)
(* (fund_coin_explorer) in src/wallet/src/cli.rs, over the journal of      *)
(* src/wallet-core/src/state.rs, against the enclave signer and the chain. *)
(*                                                                         *)
(* One command runs at a time (the store's file lock).  It works on a copy *)
(* of the wallet and saves it at the points of the code.  Between any two  *)
(* steps it may stop: a crash, a timeout or an error.  A request it left   *)
(* behind stays in the network and may still be handled, at any later      *)
(* time or never; its answer is lost.  The signer may restart at any time. *)
(*                                                                         *)
(* Abstractions.  Attempt n of begin_funding draws capability n and        *)
(* withdrawal key n (capability 0 is the registered one), and its recovery *)
(* transaction has sighash n.  Verifying an enclave signature compares its *)
(* key with the one the wallet pinned at registration.  Amounts, fees and  *)
(* policy flags are those of the first run (a rerun with others is refused *)
(* with no change).                                                        *)
(***************************************************************************)
EXTENDS Enclave

CONSTANTS
  MaxBoots,   \* bound: boots of the signer process
  MaxTries    \* bound: attempts begin_funding draws

ASSUME FundingBounds == MaxBoots \in Nat \ {0} /\ MaxTries \in Nat

(* A signer can sign at all (MaxCount is u64::MAX in the code). *)
ASSUME SigningAssumption == MaxCount > 0

VARIABLES
  coins, drawn, boots,     \* the signer; a boot draws one key for the coin
  net,                     \* requests on their way to the signer
  reply,                   \* its answer to the request of this command
  disk,                    \* wallet.enc
  mem,                     \* the copy the running command works on
  pc, status,              \* the command: next step, last status it read
  source,                  \* the deposit this funding spends
  funding,                 \* the funding transaction, as the network sees it
  tries                    \* attempts begin_funding drew

signer == <<coins, drawn, boots>>
chain  == <<source, funding>>
vars   == <<signer, net, reply, disk, mem, pc, status, chain, tries>>

COIN == "coin"

-----------------------------------------------------------------------------
(* The wallet state.  enclave_key is CoinKeys.enclave_pubkey, 0 without a  *)
(* coin; stage is FundingStage, "none" without a funding journal.          *)
EmptyWallet ==
  [pending     |-> "none",   \* none, registration, prepared, responded
   attempt     |-> 0,
   response    |-> {},
   enclave_key |-> 0,
   stage       |-> "none",
   capability  |-> 0,
   handoff     |-> INITIAL_HANDOFF,
   history     |-> {},
   withdrawal  |-> 0]

(* The exact SignRequest attempt n journals. *)
AttemptRequest(n) ==
  [coin_id              |-> COIN,
   current_capability   |-> 0,
   current_handoff      |-> INITIAL_HANDOFF,
   next_capability_hash |-> CapabilityHash(n),
   sighash              |-> n]

NoStatus == [signing_pubkey |-> 0]

Init ==
  /\ coins = [id \in {} |-> {}]
  /\ drawn = 0
  /\ boots = 1
  /\ net = {}
  /\ reply = {}
  /\ disk = EmptyWallet
  /\ mem = EmptyWallet
  /\ pc = "idle"
  /\ status = NoStatus
  /\ source = "confirmed"
  /\ funding = "unknown"
  /\ tries = 0

-----------------------------------------------------------------------------
(* Steps of a command. *)

Goto(from, to) == pc = from /\ pc' = to

(* WalletStore::save of the working copy. *)
Save(wallet) == disk' = wallet /\ mem' = wallet

(* The command ends. *)
Done == reply' = {} /\ status' = NoStatus

(* A command may crash or time out before any of its steps.  It leaves its *)
(* requests behind, and nobody waits for the answer any more.              *)
Abandoned(messages) == {[m EXCEPT !.awaited = FALSE] : m \in messages}

Stop ==
  /\ pc # "idle"
  /\ pc' = "idle"
  /\ mem' = disk
  /\ net' = Abandoned(net)
  /\ Done
  /\ UNCHANGED <<signer, disk, chain, tries>>

(* The status a command reads now; refused for a coin the signer does not  *)
(* have.                                                                   *)
Registered == COIN \in DOMAIN coins

ReadStatus ==
  /\ Registered
  /\ status' = StatusOf(coins[COIN])

Send(method, n) ==
  net' = net \cup {[method |-> method, attempt |-> n, awaited |-> TRUE]}

-----------------------------------------------------------------------------
(* coin register *)

(* begin_registration and its save, or the saved registration again. *)
StartRegister ==
  /\ pc = "idle"
  /\ disk.enclave_key = 0
  /\ Save([disk EXCEPT !.pending = "registration"])
  /\ pc' = "register"
  /\ UNCHANGED <<signer, net, reply, status, chain, tries>>

SendRegister ==
  /\ Goto("register", "await_register")
  /\ Send("register", 0)
  /\ UNCHANGED <<signer, reply, disk, mem, status, chain, tries>>

(* complete_registration: the answer is for this fresh coin. *)
FreshRegistration(answer) ==
  /\ answer.signature_count = 0
  /\ answer.authorization =
       Authorization(COIN, CapabilityHash(0), INITIAL_HANDOFF)

FinishRegister ==
  /\ Goto("await_register", "idle")
  /\ \E answer \in reply :
       /\ FreshRegistration(answer)
       /\ Save([mem EXCEPT !.pending     = "none",
                           !.enclave_key = answer.signing_pubkey])
  /\ Done
  /\ UNCHANGED <<signer, net, chain, tries>>

-----------------------------------------------------------------------------
(* coin fund *)

(* No funding journal yet: a run may draw an attempt. *)
FreshUntilSecured(wallet) == wallet.stage \in {"none", "Prepared"}

Fresh(wallet) == wallet.stage = "none"

(* The step at which a run of `coin fund` enters the journal it loaded. *)
EntryPoint(wallet) ==
  CASE Fresh(wallet)                -> "prepare"
    [] wallet.pending = "prepared"  -> "check"
    [] wallet.pending = "responded" -> "secure"
    [] OTHER                        -> "broadcast"

StartFund ==
  /\ pc = "idle"
  /\ disk.enclave_key # 0
  /\ pc' = EntryPoint(disk)
  /\ UNCHANGED <<signer, net, reply, disk, mem, status, chain, tries>>

(* The status begin_funding is given is read before the deposit is. *)
ReadInitialStatus ==
  /\ Goto("prepare", "select_source")
  /\ ReadStatus
  /\ UNCHANGED <<signer, net, reply, disk, mem, chain, tries>>

(* WalletCoin::verify_live_status and the count test of begin_funding. *)
LiveAndUnsigned(wallet) ==
  /\ status.signing_pubkey = wallet.enclave_key
  /\ status.authorization =
       Authorization(COIN, CapabilityHash(wallet.capability), wallet.handoff)
  /\ status.signature_count = 0

CanBegin == source = "confirmed" /\ Fresh(mem) /\ LiveAndUnsigned(mem)

(* begin_funding builds the funding transaction and the recovery attempt,  *)
(* and both are saved before anything leaves the wallet.                   *)
BeginFunding ==
  /\ Goto("select_source", "check")
  /\ CanBegin
  /\ tries < MaxTries
  /\ tries' = tries + 1
  /\ Save([mem EXCEPT !.pending = "prepared",
                      !.attempt = tries + 1,
                      !.stage   = "Prepared"])
  /\ UNCHANGED <<signer, net, reply, status, chain>>

(* A prepared attempt: is the signer after it (attempt_committed), or      *)
(* before it (attempt_uncommitted)?                                        *)
NeverCommitted(now) == FALSE

Committed(now) ==
  now.signing_pubkey = mem.enclave_key /\ now.signature_count = 1

Uncommitted(now) ==
  /\ now.signing_pubkey = mem.enclave_key
  /\ now.signature_count = 0
  /\ now.authorization =
       Authorization(COIN, CapabilityHash(0), INITIAL_HANDOFF)

FindCommitted ==
  /\ Goto("check", "sign")
  /\ ReadStatus
  /\ Committed(status')
  /\ UNCHANGED <<signer, net, reply, disk, mem, chain, tries>>

FindUncommitted ==
  /\ Goto("check", "check_source")
  /\ ReadStatus
  /\ Uncommitted(status')
  /\ UNCHANGED <<signer, net, reply, disk, mem, chain, tries>>

(* validate_explorer_prepared_funding: the deposit is still there. *)
CheckSource ==
  /\ Goto("check_source", "sign")
  /\ source = "confirmed"
  /\ UNCHANGED <<signer, net, reply, disk, mem, status, chain, tries>>

SendSign ==
  /\ Goto("sign", "await_sign")
  /\ Send("sign", mem.attempt)
  /\ UNCHANGED <<signer, reply, disk, mem, status, chain, tries>>

(* record_sign_response and its save. *)
RecordResponse ==
  /\ Goto("await_sign", "secure")
  /\ \E answer \in reply :
       Save([mem EXCEPT !.pending = "responded", !.response = {answer}])
  /\ Done
  /\ UNCHANGED <<signer, net, chain, tries>>

(* verify_status, verify_sign_response and complete_recovery. *)
AnswerIsLive(wallet, now, response) ==
  /\ now.signing_pubkey = wallet.enclave_key
  /\ now.signature_count = 1
  /\ now.authorization =
       Produced(AttemptRequest(wallet.attempt), response)
  /\ response.signature =
       [key |-> wallet.enclave_key, sighash |-> wallet.attempt]

(* The status complete_funding_recovery is given. *)
ReadFinalStatus ==
  /\ Goto("secure", "complete")
  /\ ReadStatus
  /\ UNCHANGED <<signer, net, reply, disk, mem, chain, tries>>

(* complete_funding_recovery: the recovery and the rotated secrets become  *)
(* durable together.                                                       *)
SecuredWithOldHandoff(wallet, response) ==
  [wallet EXCEPT !.pending    = "none",
                 !.response   = {},
                 !.stage      = "RecoverySecured",
                 !.capability = wallet.attempt,
                 !.history    = {response.signature},
                 !.withdrawal = wallet.attempt]

Secured(wallet, response) ==
  [wallet EXCEPT !.pending    = "none",
                 !.response   = {},
                 !.stage      = "RecoverySecured",
                 !.capability = wallet.attempt,
                 !.handoff    = response.next_handoff,
                 !.history    = {response.signature},
                 !.withdrawal = wallet.attempt]

SecureInMemory ==
  /\ Goto("complete", "broadcast")
  /\ \E response \in mem.response :
       /\ AnswerIsLive(mem, status, response)
       /\ mem' = Secured(mem, response)
  /\ UNCHANGED <<signer, net, reply, disk, status, chain, tries>>

SecureRecovery ==
  /\ Goto("complete", "broadcast")
  /\ \E response \in mem.response :
       /\ AnswerIsLive(mem, status, response)
       /\ Save(Secured(mem, response))
  /\ UNCHANGED <<signer, net, reply, status, chain, tries>>

(* funding_transaction and broadcast_exact: found already, or accepted by  *)
(* the network.  The stages from which funding may be broadcast.           *)
MayBroadcast(wallet) == wallet.stage \in {"RecoverySecured", "Broadcast"}

SubmittedOnce ==
  \/ mem.stage = "Broadcast" /\ UNCHANGED funding
  \/ mem.stage = "RecoverySecured" /\ source = "confirmed" /\ funding' = "mempool"

Submitted ==
  \/ funding # "unknown" /\ UNCHANGED funding
  \/ funding = "unknown" /\ source = "confirmed" /\ funding' = "mempool"

BroadcastFunding ==
  /\ Goto("broadcast", "mark")
  /\ MayBroadcast(mem)
  /\ Submitted
  /\ UNCHANGED <<signer, net, reply, disk, mem, status, source, tries>>

(* mark_funding_broadcast. *)
MarkBroadcast ==
  /\ Goto("mark", "idle")
  /\ Save([mem EXCEPT !.stage = "Broadcast"])
  /\ Done
  /\ UNCHANGED <<signer, net, chain, tries>>

(* A command ends when one of its checks fails. *)
CheckFails ==
  \/ pc \in {"prepare", "check", "secure"} /\ ~ Registered
  \/ pc = "await_register" /\ \E answer \in reply : ~ FreshRegistration(answer)
  \/ pc = "select_source" /\ ~ CanBegin
  \/ /\ pc = "check" /\ Registered
     /\ LET now == StatusOf(coins[COIN]) IN ~ Committed(now) /\ ~ Uncommitted(now)
  \/ pc = "check_source" /\ source # "confirmed"
  \/ pc = "complete" /\
       \E response \in mem.response : ~ AnswerIsLive(mem, status, response)
  \/ pc = "broadcast" /\ funding = "unknown" /\ source # "confirmed"

Refuse ==
  /\ CheckFails
  /\ pc' = "idle"
  /\ mem' = disk
  /\ Done
  /\ UNCHANGED <<signer, net, disk, chain, tries>>

-----------------------------------------------------------------------------
(* The signer. *)

Answered(message, answer) ==
  /\ net' = net \ {message}
  /\ reply' = IF message.awaited THEN {answer} ELSE reply

(* A signer that answers the registration of a coin only once. *)
HandleFirstRegister(message) ==
  /\ message.method = "register"
  /\ ~ Registered
  /\ coins' = [id \in {COIN} |-> NewCoin(COIN, CapabilityHash(0), boots)]
  /\ Answered(message, StatusOf(coins'[COIN]))
  /\ UNCHANGED <<drawn, boots, disk, mem, pc, status, chain, tries>>

HandleRegister(message) ==
  /\ message.method = "register"
  /\ coins' = IF Registered
              THEN coins
              ELSE [id \in {COIN} |-> NewCoin(COIN, CapabilityHash(0), boots)]
  /\ Answered(message, StatusOf(coins'[COIN]))
  /\ UNCHANGED <<drawn, boots, disk, mem, pc, status, chain, tries>>

HandleSign(message) ==
  /\ message.method = "sign"
  /\ Registered
  /\ LET coin    == coins[COIN]
         request == AttemptRequest(message.attempt)
     IN  \/ /\ IsRetry(coin, request)
            /\ Answered(message, CachedResponse(coin))
            /\ UNCHANGED <<coins, drawn>>
         \/ /\ ~ IsRetry(coin, request)
            /\ CanSign(coin, request)
            /\ LET response == AnswerTo(coin, request, drawn + 1)
               IN  /\ coins' = [id \in {COIN} |->
                                  SignedCoin(coin, request, response)]
                   /\ Answered(message, response)
            /\ drawn' = drawn + 1
  /\ UNCHANGED <<boots, disk, mem, pc, status, chain, tries>>

(* Any other request gets an error, which ends the command that waits for  *)
(* the answer.                                                             *)
RefuseSign(message) ==
  /\ message.method = "sign"
  /\ ~ /\ Registered
       /\ LET request == AttemptRequest(message.attempt)
          IN  IsRetry(coins[COIN], request) \/ CanSign(coins[COIN], request)
  /\ net' = net \ {message}
  /\ IF message.awaited
     THEN pc' = "idle" /\ mem' = disk /\ Done
     ELSE UNCHANGED <<pc, mem, reply, status>>
  /\ UNCHANGED <<signer, disk, chain, tries>>

Restart ==
  /\ boots < MaxBoots
  /\ boots' = boots + 1
  /\ coins' = [id \in {} |-> {}]
  /\ UNCHANGED <<drawn, net, reply, disk, mem, pc, status, chain, tries>>

-----------------------------------------------------------------------------
(* The chain. *)

Confirm ==
  /\ funding = "mempool"
  /\ funding' = "confirmed"
  /\ source' = "spent"
  /\ UNCHANGED <<signer, net, reply, disk, mem, pc, status, tries>>

Evict ==
  /\ funding = "mempool"
  /\ funding' = "unknown"
  /\ UNCHANGED <<signer, net, reply, disk, mem, pc, status, source, tries>>

(* The deposit goes away: a reorganisation, or a spend the wallet did not  *)
(* make.                                                                   *)
LoseSource ==
  /\ source = "confirmed"
  /\ source' = "gone"
  /\ funding' = "unknown"
  /\ UNCHANGED <<signer, net, reply, disk, mem, pc, status, tries>>

Wallet ==
  \/ StartRegister \/ SendRegister \/ FinishRegister
  \/ StartFund \/ ReadInitialStatus \/ BeginFunding
  \/ FindCommitted \/ FindUncommitted \/ CheckSource \/ SendSign \/ RecordResponse
  \/ ReadFinalStatus \/ SecureRecovery \/ BroadcastFunding \/ MarkBroadcast
  \/ Refuse

Handle ==
  \E message \in net :
    HandleRegister(message) \/ HandleSign(message) \/ RefuseSign(message)

Next == Wallet \/ Stop \/ Handle \/ Restart \/ Confirm \/ Evict \/ LoseSource

Spec == Init /\ [][Next]_vars

(* An operator who reruns an interrupted command (wallet/README.md,        *)
(* "Interrupted operations"), and a signer that answers what reaches it.   *)
FairSpec == Spec /\ WF_vars(Wallet) /\ WF_vars(Handle)

-----------------------------------------------------------------------------
Wallets ==
  [pending     : {"none", "registration", "prepared", "responded"},
   attempt     : 0 .. MaxTries,
   response    : SUBSET [signature    : [key : 1 .. MaxBoots,
                                         sighash : 1 .. MaxTries],
                         next_handoff : 1 .. MaxBoots],
   enclave_key : 0 .. MaxBoots,
   stage       : {"none", "Prepared", "RecoverySecured", "Broadcast"},
   capability  : 0 .. MaxTries,
   handoff     : 0 .. MaxBoots,
   history     : SUBSET [key : 1 .. MaxBoots, sighash : 1 .. MaxTries],
   withdrawal  : 0 .. MaxTries]

(* Between two commands no work is left unsaved and no answer is waited    *)
(* for.                                                                    *)
TypeOK ==
  /\ disk \in Wallets
  /\ mem \in Wallets
  /\ DOMAIN coins \subseteq {COIN}
  /\ boots \in 1 .. MaxBoots
  /\ drawn \in 0 .. MaxBoots
  /\ net \subseteq [method  : {"register", "sign"},
                    attempt : 0 .. MaxTries,
                    awaited : BOOLEAN]
  /\ source \in {"confirmed", "spent", "gone"}
  /\ funding \in {"unknown", "mempool", "confirmed"}
  /\ pc = "idle" => mem = disk /\ reply = {} /\ \A m \in net : ~ m.awaited

(* The recovery the saved wallet holds: signed by the signer it pinned,    *)
(* and paying to a key it owns.                                            *)
HoldsRecovery(wallet) ==
  /\ wallet.withdrawal # 0
  /\ wallet.history =
       {[key |-> wallet.enclave_key, sighash |-> wallet.withdrawal]}

(* "A crash before RecoverySecured cannot broadcast": whenever the network *)
(* has the funding transaction, the wallet on disk holds a recovery for    *)
(* it, signed by the pinned signer, although answers are lost, requests    *)
(* come late and are handled by another boot of the signer, and commands   *)
(* stop between any two saves.                                             *)
RecoveryBeforeFunding == funding # "unknown" => HoldsRecovery(disk)

(* An interrupted attempt can be finished: while the pinned signer lives,  *)
(* it has either not signed, and is ready for exactly the journaled        *)
(* request, or signed, and its cache answers exactly the journaled         *)
(* request, with the answer the journal holds if it holds one.             *)
AttemptIsRecoverable ==
  disk.pending \in {"prepared", "responded"} /\ Registered =>
    LET coin    == coins[COIN]
        request == AttemptRequest(disk.attempt)
    IN  coin.signing_key = disk.enclave_key =>
          \/ /\ disk.pending = "prepared"
             /\ coin.signature_count = 0
             /\ CanSign(coin, request)
          \/ /\ IsRetry(coin, request)
             /\ \A response \in disk.response :
                  response.signature.key = coin.signing_key
                    => response = CachedResponse(coin)

(* A funded wallet owns the coin: while the pinned signer lives, the saved *)
(* capability and handoff are the pair it accepts next, and its count is   *)
(* the length of the wallet's history.                                     *)
SecuredWalletOwnsCoin ==
  /\ disk.stage \in {"RecoverySecured", "Broadcast"}
  /\ Registered
  /\ coins[COIN].signing_key = disk.enclave_key
  => /\ coins[COIN].signature_count = Cardinality(disk.history)
     /\ coins[COIN].authorization =
          Authorization(COIN, CapabilityHash(disk.capability), disk.handoff)

(* Commands stop being interrupted, except by a check that fails. *)
Uninterrupted ==
  <>[][Stop => Refuse \/ MarkBroadcast
         \/ \E message \in net : RefuseSign(message)]_vars

(* Rerunning an interrupted command finishes it: if the signer and the     *)
(* deposit live on and commands stop being interrupted, the coin ends up   *)
(* funded, wherever an earlier run was stopped and whatever it left in the *)
(* network.                                                                *)
FundingCompletes ==
  Uninterrupted =>
    <>(disk.stage = "Broadcast" \/ boots > 1 \/ source = "gone")

(* An evicted funding transaction is submitted again by a rerun, with no   *)
(* help from the signer, which may be gone.                                *)
EvictedFundingReturns ==
  Uninterrupted =>
    ((disk.stage = "Broadcast" /\ funding = "unknown")
       ~> (funding # "unknown" \/ source = "gone"))

-----------------------------------------------------------------------------
(* What funding promises: see SafeFunding. *)
Safe == INSTANCE SafeFunding WITH
  recovery <- HoldsRecovery(disk),
  deposit  <- CASE funding = "confirmed" -> "locked"
                [] funding = "mempool"   -> "offered"
                [] source = "gone"       -> "lost"
                [] OTHER                 -> "held"

(* Every step of the wallet, the signer and the chain is a step of         *)
(* SafeFunding or changes nothing in it.                                   *)
ImplementsSafeFunding == Safe!Spec
=============================================================================
