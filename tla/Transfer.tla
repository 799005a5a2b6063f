------------------------------- MODULE Transfer -------------------------------
(***************************************************************************)
(* A funded coin passes from wallet to wallet: `transfer request`,         *)
(* `coin sign` and `transfer accept` (create_transfer_request,             *)
(* sign_transfer and accept_transfer in src/wallet/src/cli.rs) over the    *)
(* journal of src/wallet-core/src/state.rs, against the enclave signer and *)
(* a chain that grows; and what `coin exit` means for it: which wallets    *)
(* may start one and whose recovery spends the coin.                       *)
(*                                                                         *)
(* Every wallet runs its own commands, one at a time (the store's lock),   *)
(* concurrently with the other wallets.  A command may stop before any of  *)
(* its steps; the request it left behind may be handled at any later time, *)
(* or never, and its answer is lost.  The signer may restart, and may then *)
(* register the coin anew for a late register request.                     *)
(*                                                                         *)
(* Abstractions.  A wallet asks for a coin at most once in its life (it    *)
(* never holds a second one), so its request, the capability and the       *)
(* withdrawal key it draws are named by the wallet.  A recovery is the     *)
(* enclave signature in it, over the receiver and the delay; a signature   *)
(* of another key than the pinned one fails to verify.  Requests for other *)
(* coins, amounts or networks are refused with no change.  A change of the *)
(* working copy and the save that follows it, and the last read before     *)
(* them, are one step: no other process sees the difference, and a stop in *)
(* between is a stop before.                                               *)
(***************************************************************************)
EXTENDS Enclave, Sequences

CONSTANTS
  Wallet,
  First,            \* the wallet that funded the coin
  Unindexed,        \* wallets on a Bitcoin Core without the funding transaction
  DELAY_STEP,       \* blocks between two recoveries
  InitialDelay,     \* delay of the first recovery
  MinReaction,      \* min_reaction_blocks, of every wallet
  MinConfirmations, \* min_confirmations, of every wallet
  MaxBlocks,        \* bound: confirmations of the funding output
  MaxBoots          \* bound: boots of the signer

(* "none" stands for no wallet, and "initial" for the capability of the    *)
(* first registration, which no transfer uses.                             *)
ASSUME WalletAssumption ==
  /\ First \in Wallet /\ Unindexed \subseteq Wallet
  /\ {"none", "initial"} \cap Wallet = {}

(* begin_transfer_request refuses a margin below DELAY_STEP. *)
ASSUME DelayAssumption ==
  /\ DELAY_STEP \in Nat \ {0}
  /\ InitialDelay \in Nat
  /\ MinReaction \in Nat
  /\ MinReaction >= DELAY_STEP
  /\ MinConfirmations \in Nat

ASSUME TransferBounds == MaxBlocks \in Nat /\ MaxBoots \in Nat \ {0}

VARIABLES
  coins, drawn, boots,  \* the signer
  signed,               \* history: the signatures of the first boot, in order
  net,                  \* sign requests on their way to the signer
  wallet,               \* each wallet.enc
  run,                  \* each wallet's running command
  requests,             \* wallets whose request file exists
  envelopes,            \* transfer packages written
  confirmations,        \* of the funding output
  spender               \* the wallet whose recovery spent it, if any

signer == <<coins, drawn, boots, signed>>
files  == <<requests, envelopes>>
chain  == <<confirmations, spender>>
vars   == <<signer, net, wallet, run, files, chain>>

COIN == "coin"
KEY  == 1               \* the key drawn in the first boot, which wallets pin
none == "none"

-----------------------------------------------------------------------------
(* Recoveries and requests. *)

Recovery(to, delay) ==
  [key |-> KEY, sighash |-> [to |-> to, delay |-> delay]]

Delay(recovery) == recovery.sighash.delay

Receiver(recovery) == recovery.sighash.to

Latest(history) == history[Len(history)]

(* prepare_recovery: owner from passes the coin on to wallet to. *)
SignRequest(from, handoff, to, delay) ==
  [coin_id              |-> COIN,
   current_capability   |-> from,
   current_handoff      |-> handoff,
   next_capability_hash |-> CapabilityHash(to),
   sighash              |-> [to |-> to, delay |-> delay]]

-----------------------------------------------------------------------------
(* The state of one wallet.  A wallet with a coin has an owned recovery    *)
(* (withdrawal_recovery_index, withdrawal_secret); one that owns the coin  *)
(* also has current_capability and current_handoff.                        *)
EmptyWallet ==
  [incoming |-> FALSE,         \* a pending transfer request
   history  |-> << >>,         \* empty without a coin
   own      |-> 0,             \* withdrawal_recovery_index
   owner    |-> FALSE,         \* current_capability is Some
   handoff  |-> INITIAL_HANDOFF,
   pending  |-> none,          \* none, prepared, responded
   attempt  |-> {},            \* RecoveryAttempt: the exact request
   response |-> {},
   outgoing |-> {},            \* the package this wallet sent
   exit     |-> FALSE]         \* a saved exit journal

(* The wallet of a completed `coin fund`: see Funding. *)
FundedWallet ==
  [EmptyWallet EXCEPT !.history = <<Recovery(First, InitialDelay)>>,
                      !.own     = 1,
                      !.owner   = TRUE,
                      !.handoff = 1]

FundedCoin ==
  LET request == SignRequest("initial", INITIAL_HANDOFF, First, InitialDelay)
  IN  SignedCoin(NewCoin(COIN, CapabilityHash("initial"), KEY), request,
                 [signature    |-> Recovery(First, InitialDelay),
                  next_handoff |-> 1])

NoStatus == [signing_pubkey |-> 0]

Idle == [pc |-> "idle", to |-> none, status |-> NoStatus, reply |-> {},
         package |-> {}]

Init ==
  /\ coins = [id \in {COIN} |-> FundedCoin]
  /\ drawn = 1
  /\ boots = 1
  /\ signed = <<Recovery(First, InitialDelay)>>
  /\ net = {}
  /\ wallet = [w \in Wallet |-> IF w = First THEN FundedWallet ELSE EmptyWallet]
  /\ run = [w \in Wallet |-> Idle]
  /\ requests = {}
  /\ envelopes = {}
  /\ confirmations = 0
  /\ spender = none

HasCoin(w) == wallet[w].own # 0

OwnRecovery(w) == wallet[w].history[wallet[w].own]

-----------------------------------------------------------------------------
(* Steps of a command of wallet w. *)

At(w, step) == run[w].pc = step

Goto(w, step) == run' = [run EXCEPT ![w].pc = step]

Save(w, state) == wallet' = [wallet EXCEPT ![w] = state]

End(w) == run' = [run EXCEPT ![w] = Idle]

(* The command crashes or times out. *)
Stop(w) ==
  /\ run[w].pc # "idle"
  /\ End(w)
  /\ net' = {[m EXCEPT !.awaited = m.awaited /\ m.from # w] : m \in net}
  /\ UNCHANGED <<signer, wallet, files, chain>>

(* A status request is refused for a coin the signer does not have. *)
Registered == COIN \in DOMAIN coins

ReadStatus(w, step, next) ==
  /\ At(w, step)
  /\ Registered
  /\ run' = [run EXCEPT ![w].pc = next, ![w].status = StatusOf(coins[COIN])]
  /\ UNCHANGED <<signer, net, wallet, files, chain>>

(* verify_observed_funding, on what the chain shows now; it wants the      *)
(* output unspent, and then every backend shows it.                        *)
FundingObserved == spender = none /\ confirmations >= MinConfirmations

(* require_reaction_margin. *)
HasReactionMargin(delay) == delay > confirmations + MinReaction

(* verify_history: what a wallet wants to see before it relies on a coin. *)
HistoryVerified(w, status, handoff, history) ==
  /\ status.signing_pubkey = KEY
  /\ status.authorization = Authorization(COIN, CapabilityHash(w), handoff)
  /\ status.signature_count = Len(history)
  /\ Receiver(Latest(history)) = w
  /\ \A i \in DOMAIN history : history[i].key = KEY
  /\ \A i \in 1 .. Len(history) - 1 :
       Delay(history[i]) = Delay(history[i + 1]) + DELAY_STEP
  /\ Delay(Latest(history)) > confirmations

-----------------------------------------------------------------------------
(* transfer request *)

(* begin_transfer_request; a repeated run writes the saved request again. *)
CreateRequest(w) ==
  /\ At(w, "idle")
  /\ ~ HasCoin(w)
  /\ Save(w, [wallet[w] EXCEPT !.incoming = TRUE])
  /\ requests' = requests \cup {w}
  /\ UNCHANGED <<signer, net, run, envelopes, chain>>

-----------------------------------------------------------------------------
(* coin sign *)

(* The receiver the journaled attempt is for. *)
AttemptFor(state, to) ==
  \E request \in state.attempt : request.sighash.to = to

(* No attempt is journaled: a new one may be drawn. *)
MayBegin(state) == state.pending = none

(* Where a run of `coin sign` for the request of wallet to enters the      *)
(* journal it loaded; nowhere when it refuses.                             *)
EntryPoint(state, to) ==
  IF \E package \in state.outgoing : package.to = to THEN {"write"}
  ELSE IF state.outgoing # {} \/ state.exit THEN {}
  ELSE CASE MayBegin(state)                                      -> {"begin"}
         [] state.pending = "prepared"  /\ AttemptFor(state, to) -> {"recheck"}
         [] state.pending = "responded" /\ AttemptFor(state, to) -> {"complete"}
         [] OTHER                                                -> {}

StartSign(w, to) ==
  /\ At(w, "idle")
  /\ HasCoin(w)
  /\ to \in requests
  /\ \E step \in EntryPoint(wallet[w], to) :
       run' = [run EXCEPT ![w].pc = step, ![w].to = to]
  /\ UNCHANGED <<signer, net, wallet, files, chain>>

(* The delay of the next recovery. *)
SameDelay(history) == Delay(Latest(history))

NextDelay(history) == Delay(Latest(history)) - DELAY_STEP

(* The checks of begin_transfer. *)
CanBegin(w) ==
  LET state == wallet[w]
  IN  /\ FundingObserved
      /\ MayBegin(state)
      /\ state.owner
      /\ HistoryVerified(w, run[w].status, state.handoff, state.history)
      /\ Delay(Latest(state.history)) >= DELAY_STEP
      /\ HasReactionMargin(NextDelay(state.history))
      /\ run[w].to # w

(* begin_transfer: the exact request is durable before it is sent. *)
BeginTransfer(w) ==
  LET state   == wallet[w]
      request == SignRequest(w, state.handoff, run[w].to, NextDelay(state.history))
  IN  /\ At(w, "observe")
      /\ CanBegin(w)
      /\ Save(w, [state EXCEPT !.pending = "prepared", !.attempt = {request}])
      /\ Goto(w, "recheck")
      /\ UNCHANGED <<signer, net, files, chain>>

(* attempt_committed and attempt_uncommitted. *)
Committed(state, status) ==
  status.signature_count = Len(state.history) + 1

Uncommitted(state, status) ==
  /\ status.signature_count = Len(state.history)
  /\ \A request \in state.attempt : status.authorization = Consumed(request)

(* The checks of validate_pending_transfer on an attempt the signer has    *)
(* not answered.                                                           *)
CanSendUnanswered(w) ==
  LET state == wallet[w]
  IN  /\ run[w].status.signing_pubkey = KEY
      /\ Uncommitted(state, run[w].status)
      /\ FundingObserved
      /\ HistoryVerified(w, run[w].status, state.handoff, state.history)
      /\ \A request \in state.attempt : HasReactionMargin(request.sighash.delay)

(* observe_funding comes first on every run.  A Bitcoin Core without an    *)
(* index has no answer once the funding output is spent.                   *)
FundingShown(w) == spender = none \/ w \notin Unindexed

(* The checks on any attempt: an answered one is only to be fetched.       *)
CanSend(w) ==
  /\ FundingShown(w)
  /\ \/ /\ run[w].status.signing_pubkey = KEY
        /\ Committed(wallet[w], run[w].status)
     \/ CanSendUnanswered(w)

ValidatePending(w) ==
  /\ At(w, "validate")
  /\ CanSend(w)
  /\ Goto(w, "send")
  /\ UNCHANGED <<signer, net, wallet, files, chain>>

SendSign(w) ==
  /\ At(w, "send")
  /\ \E request \in wallet[w].attempt :
       net' = net \cup {[from |-> w, request |-> request, awaited |-> TRUE]}
  /\ Goto(w, "await")
  /\ UNCHANGED <<signer, wallet, files, chain>>

(* record_sign_response. *)
RecordResponse(w) ==
  /\ At(w, "await")
  /\ \E answer \in run[w].reply :
       Save(w, [wallet[w] EXCEPT !.pending = "responded", !.response = {answer}])
  /\ run' = [run EXCEPT ![w].pc = "complete", ![w].reply = {}]
  /\ UNCHANGED <<signer, net, files, chain>>

(* verify_status, verify_sign_response and complete_recovery, on the       *)
(* status the signer reports now.                                          *)
AnswerIsLive(state, request, response) ==
  /\ Registered
  /\ LET status == StatusOf(coins[COIN])
     IN  /\ status.signing_pubkey = KEY
         /\ status.signature_count = Len(state.history) + 1
         /\ status.authorization = Produced(request, response)
  /\ response.signature = [key |-> KEY, sighash |-> request.sighash]

(* The package for the receiver. *)
PackageWithoutLatest(state, request, response) ==
  [to      |-> request.sighash.to,
   handoff |-> response.next_handoff,
   history |-> state.history]

Package(state, request, response) ==
  [to      |-> request.sighash.to,
   handoff |-> response.next_handoff,
   history |-> Append(state.history, response.signature)]

(* complete_transfer: the authority is given up and the package saved      *)
(* together; the sender keeps the recovery that pays to it.                *)
SentWithLatestKept(state, package) ==
  [state EXCEPT !.history  = <<Latest(package.history)>>,
                !.own      = 1,
                !.owner    = FALSE,
                !.handoff  = INITIAL_HANDOFF,
                !.pending  = none,
                !.attempt  = {},
                !.response = {},
                !.outgoing = {package}]

Sent(state, package) ==
  [state EXCEPT !.history  = <<state.history[state.own]>>,
                !.own      = 1,
                !.owner    = FALSE,
                !.handoff  = INITIAL_HANDOFF,
                !.pending  = none,
                !.attempt  = {},
                !.response = {},
                !.outgoing = {package}]

CompleteTransfer(w) ==
  LET state == wallet[w] IN
  /\ At(w, "complete")
  /\ \E request \in state.attempt, response \in state.response :
       /\ AnswerIsLive(state, request, response)
       /\ Save(w, Sent(state, Package(state, request, response)))
  /\ Goto(w, "write")
  /\ UNCHANGED <<signer, net, files, chain>>

(* write_json_destination of the saved package. *)
WritePackage(w) ==
  /\ At(w, "write")
  /\ envelopes' = envelopes \cup wallet[w].outgoing
  /\ End(w)
  /\ UNCHANGED <<signer, net, wallet, requests, chain>>

-----------------------------------------------------------------------------
(* transfer accept *)

(* A wallet that has a coin changes nothing, whether the package is the    *)
(* one it accepted or another one.                                         *)
StartAccept(w, package) ==
  /\ At(w, "idle")
  /\ ~ HasCoin(w)
  /\ wallet[w].incoming
  /\ package.to = w
  /\ run' = [run EXCEPT ![w].pc = "accept", ![w].package = {package}]
  /\ UNCHANGED <<signer, net, wallet, files, chain>>

(* The checks of accept_transfer. *)
CanAccept(w, package) ==
  /\ FundingObserved
  /\ HistoryVerified(w, run[w].status, package.handoff, package.history)
  /\ HasReactionMargin(Delay(Latest(package.history)))

(* accept_transfer and its save. *)
AcceptTransfer(w) ==
  /\ At(w, "accept_observe")
  /\ \E package \in run[w].package :
       /\ CanAccept(w, package)
       /\ Save(w, [wallet[w] EXCEPT !.incoming = FALSE,
                                    !.history  = package.history,
                                    !.own      = Len(package.history),
                                    !.owner    = TRUE,
                                    !.handoff  = package.handoff])
  /\ End(w)
  /\ UNCHANGED <<signer, net, files, chain>>

(* A command ends when one of its checks fails. *)
CheckFails(w) ==
  \/ run[w].pc \in {"begin", "recheck", "accept"} /\ ~ Registered
  \/ At(w, "observe") /\ ~ CanBegin(w)
  \/ At(w, "validate") /\ ~ CanSend(w)
  \/ At(w, "complete") /\
       \E request \in wallet[w].attempt, response \in wallet[w].response :
         ~ AnswerIsLive(wallet[w], request, response)
  \/ At(w, "accept_observe") /\
       \E package \in run[w].package : ~ CanAccept(w, package)

Refuse(w) ==
  /\ CheckFails(w)
  /\ End(w)
  /\ UNCHANGED <<signer, net, wallet, files, chain>>

-----------------------------------------------------------------------------
(* coin exit.  Only what a transfer can see of it: the journal, which no   *)
(* command removes, and the spend of the funding output.  A package is     *)
(* prepared only for a recovery whose delay has passed.                    *)

MayExitAnyTime(state) == TRUE

MayExit(state) == state.pending = none

PrepareExit(w) ==
  /\ At(w, "idle")
  /\ HasCoin(w)
  /\ MayExit(wallet[w])
  /\ ~ wallet[w].exit
  /\ confirmations >= 1
  /\ confirmations >= Delay(OwnRecovery(w))
  /\ spender = none
  /\ Save(w, [wallet[w] EXCEPT !.exit = TRUE])
  /\ UNCHANGED <<signer, net, run, files, chain>>

(* The saved package confirms; the recovery's BIP68 delay has passed. *)
ConfirmExit(w) ==
  /\ HasCoin(w)
  /\ wallet[w].exit
  /\ spender = none
  /\ confirmations >= Delay(OwnRecovery(w))
  /\ spender' = w
  /\ UNCHANGED <<signer, net, wallet, run, files, confirmations>>

Mine ==
  /\ confirmations < MaxBlocks
  /\ confirmations' = confirmations + 1
  /\ UNCHANGED <<signer, net, wallet, run, files, spender>>

-----------------------------------------------------------------------------
(* The signer. *)

Answered(message, answer) ==
  /\ net' = net \ {message}
  /\ run' = IF message.awaited
            THEN [run EXCEPT ![message.from].reply = {answer}]
            ELSE run

Retry(message) ==
  /\ Registered
  /\ IsRetry(coins[COIN], message.request)
  /\ Answered(message, CachedResponse(coins[COIN]))
  /\ UNCHANGED <<signer, wallet, files, chain>>

Sign(message) ==
  /\ Registered
  /\ LET coin     == coins[COIN]
         request  == message.request
         response == AnswerTo(coin, request, drawn + 1)
     IN  /\ ~ IsRetry(coin, request)
         /\ CanSign(coin, request)
         /\ coins' = [id \in {COIN} |-> SignedCoin(coin, request, response)]
         /\ Answered(message, response)
         /\ signed' = Append(signed, response.signature)
  /\ drawn' = drawn + 1
  /\ UNCHANGED <<boots, wallet, files, chain>>

(* Any other request gets an error, which ends the command that waits for  *)
(* the answer.                                                             *)
RefuseSign(message) ==
  /\ ~ /\ Registered
       /\ \/ IsRetry(coins[COIN], message.request)
          \/ CanSign(coins[COIN], message.request)
  /\ net' = net \ {message}
  /\ run' = IF message.awaited THEN [run EXCEPT ![message.from] = Idle] ELSE run
  /\ UNCHANGED <<signer, wallet, files, chain>>

Restart ==
  /\ boots < MaxBoots
  /\ boots' = boots + 1
  /\ coins' = [id \in {} |-> {}]
  /\ UNCHANGED <<drawn, signed, net, wallet, run, files, chain>>

(* The first wallet's registration, late, in a later boot. *)
LateRegister ==
  /\ boots > 1
  /\ ~ Registered
  /\ coins' = [id \in {COIN} |->
                 NewCoin(COIN, CapabilityHash("initial"), boots)]
  /\ UNCHANGED <<drawn, boots, signed, net, wallet, run, files, chain>>

Step(w) ==
  \/ \E to \in Wallet : StartSign(w, to)
  \/ ReadStatus(w, "begin", "observe")
  \/ BeginTransfer(w)
  \/ ReadStatus(w, "recheck", "validate")
  \/ ValidatePending(w)
  \/ SendSign(w)
  \/ RecordResponse(w)
  \/ CompleteTransfer(w)
  \/ WritePackage(w)
  \/ \E package \in envelopes : StartAccept(w, package)
  \/ ReadStatus(w, "accept", "accept_observe")
  \/ AcceptTransfer(w)
  \/ Refuse(w)

Handle ==
  \E message \in net : Retry(message) \/ Sign(message) \/ RefuseSign(message)

Next ==
  \/ \E w \in Wallet :
       Step(w) \/ Stop(w) \/ CreateRequest(w) \/ PrepareExit(w) \/ ConfirmExit(w)
  \/ Handle \/ Restart \/ LateRegister \/ Mine

Spec == Init /\ [][Next]_vars

(* Operators who rerun an interrupted command, for the request it was for  *)
(* (wallet/README.md, "Interrupted operations"), and a signer that answers *)
(* what reaches it.                                                        *)
FairSpec ==
  /\ Spec
  /\ \A w \in Wallet : WF_vars(Step(w))
  /\ WF_vars(Handle)

-----------------------------------------------------------------------------
Signatures ==
  [key     : 1 .. MaxBoots,
   sighash : [to : Wallet, delay : 0 .. InitialDelay]]

(* A wallet has a pending attempt only while it owns the coin, and a       *)
(* wallet with no running command waits for no answer.                     *)
TypeOK ==
  /\ DOMAIN coins \subseteq {COIN}
  /\ drawn \in Nat
  /\ boots \in 1 .. MaxBoots
  /\ \A i \in DOMAIN signed : signed[i] \in Signatures
  /\ \A w \in Wallet :
       LET state == wallet[w]
       IN  /\ \A i \in DOMAIN state.history : state.history[i] \in Signatures
           /\ state.own \in DOMAIN state.history \/ state = [EmptyWallet EXCEPT
                                                  !.incoming = state.incoming]
           /\ state.pending \in {none, "prepared", "responded"}
           /\ Cardinality(state.attempt) = IF state.pending = none THEN 0 ELSE 1
           /\ Cardinality(state.response) =
                IF state.pending = "responded" THEN 1 ELSE 0
           /\ state.pending # none => state.owner
           /\ run[w].pc = "idle" =>
                run[w] = Idle /\ \A m \in net : m.from = w => ~ m.awaited
  /\ requests \subseteq Wallet
  /\ confirmations \in 0 .. MaxBlocks
  /\ spender \in Wallet \cup {none}

(* The signer the wallets pinned is still running. *)
Live == Registered /\ coins[COIN].signing_key = KEY

(* What can spend the signer's current authorization. *)
Holder(w) ==
  /\ wallet[w].owner
  /\ wallet[w].history = signed
  /\ coins[COIN].authorization =
       Authorization(COIN, CapabilityHash(w), wallet[w].handoff)

InTransit(w) ==
  /\ wallet[w].owner
  /\ \E request \in wallet[w].attempt :
       /\ IsRetry(coins[COIN], request)
       /\ Append(wallet[w].history,
                 CachedResponse(coins[COIN]).signature) = signed

InPackage(w) ==
  \E package \in wallet[w].outgoing :
    /\ package.history = signed
    /\ coins[COIN].authorization =
         Authorization(COIN, CapabilityHash(package.to), package.handoff)

(* The coin is never stranded and never owned twice: as long as the signer *)
(* lives, its current authorization and the complete list of signatures it *)
(* gave are in one wallet, or can be fetched from its cache by the one     *)
(* sender that asked, or are in a saved package; and at most one wallet    *)
(* holds or passes on the coin.  Signed recoveries no wallet knows of do   *)
(* not exist.                                                              *)
AuthorityIsAccountedFor ==
  Live =>
    /\ \E w \in Wallet : Holder(w) \/ InTransit(w) \/ InPackage(w)
    /\ Cardinality({w \in Wallet : Holder(w) \/ InTransit(w)}) <= 1

(* A newer owner's recovery matures first: every signature the signer gave *)
(* is for a delay at least DELAY_STEP below the one before, and the wallet *)
(* with the authority can exit DELAY_STEP blocks before any former owner.  *)
NewestMaturesFirst ==
  /\ \A i, j \in DOMAIN signed :
       i < j => Delay(signed[i]) >= Delay(signed[j]) + DELAY_STEP
  /\ \A v, w \in Wallet :
       HasCoin(v) /\ v # w /\ Live /\ Holder(w) =>
         Delay(OwnRecovery(v)) >= Delay(OwnRecovery(w)) + DELAY_STEP

(* An owner that has started to exit cannot lose the coin to a transfer:   *)
(* no sign request of this wallet, not even one an interrupted command     *)
(* left in the network, can still be accepted by the signer.               *)
ExitingOwnerKeepsCoin ==
  \A w \in Wallet :
    wallet[w].exit /\ wallet[w].owner /\ Live =>
      /\ Holder(w)
      /\ \A m \in net : ~ CanSign(coins[COIN], m.request)

(* Whoever has owned the coin keeps the recovery that pays to it, through  *)
(* transfers, crashes and retries.                                         *)
RecoveryIsKept ==
  [][\A w \in Wallet : HasCoin(w) =>
       HasCoin(w)' /\ OwnRecovery(w)' = OwnRecovery(w)]_vars

(* Operators who do not interrupt every run.                               *)
Uninterrupted ==
  <>[][\A w \in Wallet : Stop(w) => Refuse(w) \/ WritePackage(w)
         \/ \E message \in net : RefuseSign(message)]_vars

Delivered(w) == \E package \in envelopes : package \in wallet[w].outgoing

(* A signed transfer reaches the receiver: once the signer has answered,   *)
(* rerunning `coin sign` writes the package, also when blocks have passed  *)
(* and a former owner spends the coin meanwhile, unless the signer         *)
(* restarts or the sender's backend no longer shows the funding.           *)
PackageIsDelivered ==
  Uninterrupted =>
    \A w \in Wallet :
      (Live /\ InTransit(w)) ~> (boots > 1 \/ Delivered(w) \/ ~ FundingShown(w))

(* wallet/README.md, "Interrupted operations": "The wallet queries live    *)
(* status and, if the count advanced, retries the exact journaled request  *)
(* against the enclave's latest-response cache."                           *)
AdvancedTransferIsRetried ==
  Uninterrupted =>
    \A w \in Wallet :
      (Live /\ InTransit(w)) ~> (boots > 1 \/ Delivered(w))

(* PROTOCOL.md: "Unknown signer state for an existing coin means transfers *)
(* stop. The latest already secured recovery remains usable."              *)
SecuredRecoveryRemainsUsable ==
  Uninterrupted =>
    \A w \in Wallet :
      (boots > 1 /\ HasCoin(w)) ~> (MayExit(wallet[w]) \/ spender # none)

-----------------------------------------------------------------------------
(* What a statechain promises: see Statechain.  A position is held when a  *)
(* wallet has its recovery.                                                *)
Abstract == INSTANCE Statechain WITH
  grants  <- [i \in DOMAIN signed |-> signed[i].sighash],
  held    <- {i \in DOMAIN signed :
                \E w \in Wallet : HasCoin(w) /\ OwnRecovery(w) = signed[i]},
  blocks  <- confirmations,
  settled <- IF spender = none THEN 0
             ELSE CHOOSE i \in DOMAIN signed :
                    signed[i] = OwnRecovery(spender)

(* Every step of the wallets, the signer and the chain is a step of        *)
(* Statechain or changes nothing in it.                                    *)
ImplementsStatechain == Abstract!Spec
=============================================================================
