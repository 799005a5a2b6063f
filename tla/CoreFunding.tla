---------------------------- MODULE CoreFunding ----------------------------
(***************************************************************************)
(* `coin fund` through a Bitcoin Core wallet (fund_coin in                 *)
(* src/wallet/src/cli.rs, Core in src/wallet/src/services.rs).             *)
(*                                                                         *)
(* The coin, the journal, the signer, the network and the chain are those  *)
(* of Funding; what differs is the deposit.  It belongs to a Core wallet,  *)
(* which selects it, and which other commands of the operator may spend    *)
(* from as long as nothing reserves it.  Core locks what it selects in     *)
(* memory; the wallet journals the transaction and then upgrades the lock  *)
(* to one that survives a restart of Core.                                 *)
(*                                                                         *)
(* Abstraction: the Core wallet has one deposit that can pay for the coin. *)
(* Core itself is external: `lockunspent`, `gettransaction` and            *)
(* `sendrawtransaction` are modelled from how services.rs uses them.       *)
(***************************************************************************)
EXTENDS Funding

VARIABLES
  lock,      \* Core's lock on the deposit: none, memory or persistent
  walletTx   \* Core's wallet holds the funding transaction

core     == <<lock, walletTx>>
coreVars == <<vars, core>>

CoreInit == Init /\ lock = "none" /\ walletTx = FALSE

(* Core selects a deposit, or lets the operator spend it, if it is not     *)
(* locked and no transaction of the wallet spends it.                      *)
Reserved == lock # "none" \/ walletTx

-----------------------------------------------------------------------------
(* Where a run of `coin fund` enters the journal it loaded. *)
ReentersSelection(wallet) ==
  CASE wallet.stage \in {"RecoverySecured", "Broadcast"} -> "broadcast"
    [] wallet.pending = "prepared"  -> "check"
    [] wallet.pending = "responded" -> "secure"
    [] OTHER                        -> "prepare"

CoreEntryPoint(wallet) ==
  IF wallet.pending = "prepared" THEN "check"
  ELSE IF wallet.pending = "responded" THEN "secure"
  ELSE IF Fresh(wallet) THEN "prepare"
  ELSE IF wallet.stage = "Prepared" THEN "validate"
  ELSE "broadcast"

StartCoreFund ==
  /\ pc = "idle"
  /\ disk.enclave_key # 0
  /\ pc' = CoreEntryPoint(disk)
  /\ UNCHANGED <<signer, net, reply, disk, mem, status, chain, tries, core>>

(* Core::prepare_funding: `walletcreatefundedpsbt` with lockUnspents picks *)
(* the deposit and locks it in memory; the transaction is finalized.       *)
CanSelect == CanBegin /\ ~ Reserved

SelectInputs ==
  /\ Goto("select_source", "journal")
  /\ CanSelect
  /\ lock' = "memory"
  /\ UNCHANGED <<signer, net, reply, disk, mem, status, chain, tries, walletTx>>

(* The funding transaction is saved, without an attempt. *)
JournalFunding ==
  /\ Goto("journal", "validate")
  /\ Save([mem EXCEPT !.stage = "Prepared"])
  /\ UNCHANGED <<signer, net, reply, status, chain, tries, core>>

(* Core::validate_prepared_funding: the inputs are locked persistently,    *)
(* whoever held the lock so far, and the mempool would take the            *)
(* transaction.                                                            *)
OnlyTested == source = "confirmed" /\ UNCHANGED lock

ValidatePreparedFunding == source = "confirmed" /\ lock' = "persistent"

ValidateJournal ==
  /\ Goto("validate", "attempt")
  /\ ValidatePreparedFunding
  /\ UNCHANGED <<signer, net, reply, disk, mem, status, chain, tries, walletTx>>

ReadAttemptStatus ==
  /\ Goto("attempt", "begin")
  /\ ReadStatus
  /\ UNCHANGED <<signer, net, reply, disk, mem, chain, tries, core>>

(* The recovery attempt is drawn and saved. *)
JournalAttempt ==
  /\ Goto("begin", "check")
  /\ LiveAndUnsigned(mem)
  /\ tries < MaxTries
  /\ tries' = tries + 1
  /\ Save([mem EXCEPT !.pending = "prepared", !.attempt = tries + 1])
  /\ UNCHANGED <<signer, net, reply, status, chain, core>>

(* finish_pending_funding_recovery validates again before it first asks    *)
(* the enclave to sign.                                                    *)
CheckLockedSource ==
  /\ Goto("check_source", "sign")
  /\ ValidatePreparedFunding
  /\ UNCHANGED <<signer, net, reply, disk, mem, status, chain, tries, walletTx>>

(* Core::broadcast_funding: known already; evicted, and sent again; or     *)
(* never sent, and locked and sent.  Once its wallet holds the transaction *)
(* Core counts the deposit as spent and drops the lock.                    *)
BroadcastThroughCore ==
  /\ Goto("broadcast", "mark")
  /\ MayBroadcast(mem)
  /\ Submitted
  /\ walletTx' = TRUE
  /\ lock' = "none"
  /\ UNCHANGED <<signer, net, reply, disk, mem, status, source, tries>>

CoreCheckFails ==
  \/ CheckFails
  \/ pc = "attempt" /\ ~ Registered
  \/ pc = "select_source" /\ ~ CanSelect
  \/ pc = "validate" /\ source # "confirmed"
  \/ pc = "begin" /\ ~ LiveAndUnsigned(mem)

RefuseCore ==
  /\ CoreCheckFails
  /\ pc' = "idle"
  /\ mem' = disk
  /\ Done
  /\ UNCHANGED <<signer, net, disk, chain, tries, core>>

-----------------------------------------------------------------------------
(* Core and its operator. *)

CoreRestart ==
  /\ lock = "memory"
  /\ lock' = "none"
  /\ UNCHANGED <<vars, walletTx>>

(* README.md, "Interrupted operations": the wallet still reports only      *)
(* `registered` and Core shows a locked input.                             *)
OperatorUnlock ==
  /\ pc = "idle"
  /\ disk.stage = "none"
  /\ lock = "memory"
  /\ lock' = "none"
  /\ UNCHANGED <<vars, walletTx>>

(* Another payment from the same Core wallet selects the deposit. *)
OperatorSpend == ~ Reserved /\ LoseSource /\ UNCHANGED core

CoreWallet ==
  \/ StartCoreFund \/ SelectInputs \/ JournalFunding \/ ValidateJournal
  \/ ReadAttemptStatus \/ JournalAttempt \/ CheckLockedSource
  \/ BroadcastThroughCore \/ RefuseCore
  \/ /\ \/ StartRegister \/ SendRegister \/ FinishRegister
        \/ ReadInitialStatus \/ FindCommitted \/ FindUncommitted \/ SendSign
        \/ RecordResponse \/ ReadFinalStatus \/ SecureRecovery \/ MarkBroadcast
     /\ UNCHANGED core

CoreNext ==
  \/ CoreWallet
  \/ (Stop \/ Handle \/ Restart \/ Confirm \/ Evict \/ LoseSource) /\ UNCHANGED core
  \/ CoreRestart \/ OperatorUnlock \/ OperatorSpend

CoreSpec == CoreInit /\ [][CoreNext]_coreVars

(* An operator who reruns the command, and who unlocks what a stopped run  *)
(* left locked; a signer that answers.                                     *)
FairCoreSpec ==
  /\ CoreSpec
  /\ WF_coreVars(CoreWallet)
  /\ WF_coreVars(Handle /\ UNCHANGED core)
  /\ SF_coreVars(OperatorUnlock)

-----------------------------------------------------------------------------
(* The signer may have seen, or will see, a request to sign the recovery.  *)
Asked ==
  \/ disk.pending = "responded" \/ disk.stage \in {"RecoverySecured", "Broadcast"}
  \/ \E message \in net : message.method = "sign"
  \/ Registered /\ coins[COIN].signature_count > 0

(* From the moment the signer may be asked, until the deposit is spent or  *)
(* lost to the chain, no other payment of the Core wallet can take it:     *)
(* neither a restart of Core nor a stopped command nor a rerun that finds  *)
(* its attempt committed leaves it unreserved.                             *)
AskedFundingIsReserved == Asked /\ source = "confirmed" => Reserved

(* Commands stop being interrupted, except by a check that fails. *)
CoreUninterrupted ==
  <>[][Stop => RefuseCore \/ MarkBroadcast
         \/ \E message \in net : RefuseSign(message)]_coreVars

(* Rerunning `coin fund` finishes it, although a stopped run may leave the *)
(* deposit locked with nothing journaled, or journaled with the lock gone. *)
CoreFundingCompletes ==
  CoreUninterrupted =>
    <>(disk.stage = "Broadcast" \/ boots > 1 \/ source = "gone")

=============================================================================
