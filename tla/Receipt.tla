-------------------------------- MODULE Receipt -------------------------------
(***************************************************************************)
(* The commands that only look: `receipt export`, `receipt verify` and     *)
(* `coin status` (export_receipt, verify_receipt, coin_status in           *)
(* src/wallet/src/cli.rs), and what they conclude from verify_public_history *)
(* (src/wallet-core/src/validation.rs) and verify_history                  *)
(* (src/client/src/lib.rs).                                                *)
(*                                                                         *)
(* Each reads the signer, then the confirmations, then the spender of the  *)
(* funding output, in calls of their own, while other wallets move the     *)
(* coin on, blocks are mined and recoveries are posted.  Receipts are      *)
(* files: they grow old and may be edited.                                 *)
(*                                                                         *)
(* The signer signs whatever the current secrets of the coin ask for.  A   *)
(* copy of the holder's wallet directory has those secrets too: it may     *)
(* have recoveries of any delay and receiver signed, in any order, and     *)
(* other transactions, and hand the coin over with any list of them.       *)
(*                                                                         *)
(* Abstractions.  The steps of a transfer are in Transfer; here a transfer *)
(* is the signature, its completion by the sender and the acceptance.  The *)
(* authorization of the signer is drawn anew by every signature, so a      *)
(* status is the number of signatures and whose capability comes next; a   *)
(* capability that was used before is, with its new handoff, no wallet's.  *)
(* A recovery that verifies is one the signer signed in canonical form.    *)
(* One look is in progress at a time, for looks do not affect one another. *)
(***************************************************************************)
EXTENDS Delays, SequencesExt

CONSTANTS
  Wallet,
  First,             \* the wallet that funded the coin
  InitialDelay,
  Margins,           \* reaction margins of wallets, requests and auditors
  ForeignDelays,     \* delays of what a copy has signed
  MinConfirmations,
  MaxBlocks,         \* bound on the confirmations
  MaxSignatures,     \* bound on the signatures of the coin
  none, copy         \* nobody; a restored copy of a wallet directory

ASSUME ReceiptAssumption ==
  /\ First \in Wallet /\ none \notin Wallet /\ copy \notin Wallet
  /\ InitialDelay \in 1 .. MaxU16 /\ Margins \subseteq U32
  /\ ForeignDelays \subseteq 1 .. MaxU16
  /\ MinConfirmations \in Nat /\ MaxBlocks \in U32 /\ MaxSignatures \in Nat

VARIABLES
  signed,          \* everything the signer signed for the coin, in order
  holder,          \* whose capability the signer accepts
  wallet,          \* each wallet.enc
  package,         \* the package in transit
  confirmations, spent,
  receipt,         \* a receipt file
  look,            \* the command in progress
  report           \* what it printed, when it has just ended

chain == <<confirmations, spent>>
coin  == <<signed, holder, wallet, package>>
vars  == <<coin, chain, receipt, look, report>>

(* A transaction the signer signed: a canonical recovery, or another one. *)
Signature(to, delay, canonical) ==
  [to |-> to, delay |-> delay, canonical |-> canonical]

(* pending is the signature a transfer asked for, until it is complete. *)
EmptyWallet == [history |-> << >>, owner |-> FALSE, pending |-> {}]

(* A command, and the answers it has had so far. *)
Look(kind, w, margin, history, count) ==
  [kind |-> kind, wallet |-> w, margin |-> margin, history |-> history,
   count |-> count, step |-> "signer",
   signed |-> << >>, holder |-> none, confirmations |-> 0]

Idle == [Look(none, none, 0, << >>, 0) EXCEPT !.step = "idle"]

Init ==
  /\ signed = <<Signature(First, InitialDelay, TRUE)>>
  /\ holder = First
  /\ wallet = [w \in Wallet |->
                 IF w = First
                 THEN [history |-> signed, owner |-> TRUE, pending |-> {}]
                 ELSE EmptyWallet]
  /\ package = {}
  /\ confirmations = 0
  /\ spent = FALSE
  /\ receipt = {}
  /\ look = Idle
  /\ report = {}

DelaysOf(history) == [i \in DOMAIN history |-> history[i].delay]

(* A command holds the lock of its own wallet. *)
Locked(w) == look.wallet = w

-----------------------------------------------------------------------------
(* The coin moves. *)

(* verify_recovery for each. *)
Recoveries(history) == \A i \in DOMAIN history : history[i].canonical

(* What the signer says fits the wallet's secrets and history. *)
AnyStatus(w, count, holding, history) == TRUE

StatusMatches(w, count, holding, history) ==
  holding = w /\ count = Len(history)

VerifyHistory(w, count, holding, blocks, history) ==
  /\ StatusMatches(w, count, holding, history)
  /\ history # << >>
  /\ Last(history).to = w
  /\ Recoveries(history)
  /\ Ladder(blocks, DelaysOf(history))
  /\ RequireFutureDelay(blocks, Last(history).delay)

FundingVerified == ~ spent /\ confirmations >= MinConfirmations

(* Wallets that may wait for a transfer. *)
Receiver == {v \in Wallet : wallet[v] = EmptyWallet}

(* begin_transfer and the signature; the wallet keeps a pending operation. *)
Sign(w, v, margin) ==
  LET state == wallet[w] IN
  /\ ~ Locked(w)
  /\ state.owner /\ state.pending = {}
  /\ v \in Receiver \ {w}
  /\ FundingVerified
  /\ Len(signed) < MaxSignatures
  /\ VerifyHistory(w, Len(signed), holder, confirmations, state.history)
  /\ \E delay \in CheckedSub(Last(state.history).delay, DELAY_STEP) :
       /\ CanonicalDelay(delay)
       /\ RequireReactionMargin(confirmations, delay, margin)
       /\ signed' = Append(signed, Signature(v, delay, TRUE))
       /\ wallet' = [wallet EXCEPT ![w].pending = {Signature(v, delay, TRUE)}]
  /\ holder' = v
  /\ UNCHANGED <<package, chain, receipt, look>>

(* complete_transfer: the sender keeps the recovery it owns. *)
Sent(state) ==
  [history |-> <<Last(state.history)>>, owner |-> FALSE, pending |-> {}]

(* The signer reports what the answer produced: nothing was signed since.  *)
CompleteTransfer(w) ==
  LET state == wallet[w] IN
  /\ ~ Locked(w)
  /\ Len(signed) = Len(state.history) + 1
  /\ \E signature \in state.pending :
       package' = {[to      |-> signature.to,
                    history |-> Append(state.history, signature)]}
  /\ wallet' = [wallet EXCEPT ![w] = Sent(state)]
  /\ UNCHANGED <<signed, holder, chain, receipt, look>>

(* Lists of what was signed, with some left out, repeated or moved. *)
Histories == BoundedSeq(ToSet(signed), MaxSignatures)

(* A package comes from the sender, or from whoever else has the secrets,  *)
(* with any list.                                                          *)
Received(v) ==
  {p.history : p \in {q \in package : q.to = v}} \cup Histories

AcceptTransfer(v, history, margin) ==
  /\ ~ Locked(v)
  /\ FundingVerified
  /\ VerifyHistory(v, Len(signed), holder, confirmations, history)
  /\ RequireReactionMargin(confirmations, Last(history).delay, margin)
  /\ wallet' = [wallet EXCEPT ![v].history = history, ![v].owner = TRUE]
  /\ package' = {}
  /\ UNCHANGED <<signed, holder, chain, receipt, look>>

(* A copy of the holder's wallet, or another client with its secrets, has  *)
(* something signed: the enclave signs any digest, and the recovery as the *)
(* next capability may be a receiver's.                                    *)
Foreign ==
  [to : Receiver \cup {copy}, delay : ForeignDelays, canonical : {TRUE}]
    \cup {Signature(copy, 0, FALSE)}

SignElsewhere ==
  /\ Len(signed) < MaxSignatures
  /\ \E signature \in Foreign : signed' = Append(signed, signature)
  /\ holder' \in Receiver \cup {copy}
  /\ UNCHANGED <<wallet, package, chain, receipt, look>>

Mine ==
  /\ confirmations < MaxBlocks
  /\ confirmations' = confirmations + 1
  /\ UNCHANGED <<coin, spent, receipt, look>>

(* Somebody's mature recovery is posted. *)
Spend ==
  /\ ~ spent
  /\ \E i \in DOMAIN signed :
       signed[i].canonical /\ signed[i].delay <= confirmations
  /\ spent' = TRUE
  /\ UNCHANGED <<coin, confirmations, receipt, look>>

-----------------------------------------------------------------------------
(* Looking. *)

(* `receipt export` needs a coin with recoveries and nothing pending. *)
StartExport(w, margin) ==
  /\ look = Idle
  /\ wallet[w].history # << >> /\ wallet[w].pending = {}
  /\ look' = Look("export", w, margin, wallet[w].history, 0)
  /\ UNCHANGED <<coin, chain, receipt>>

(* The receipt is the one that was exported, however old, or an edited one *)
(* with other recoveries, or the same in another order, and the count that *)
(* goes with them.                                                         *)
Edited == {[history |-> history, count |-> Len(history)] : history \in Histories}

StartVerify(margin) ==
  /\ look = Idle
  /\ \E r \in receipt \cup Edited :
       look' = Look("verify", none, margin, r.history, r.count)
  /\ UNCHANGED <<coin, chain, receipt>>

StartStatus(w, margin) ==
  /\ look = Idle
  /\ wallet[w].history # << >>
  /\ look' = Look("status", w, margin, wallet[w].history, 0)
  /\ UNCHANGED <<coin, chain, receipt>>

At(step) == look.step = step

(* The signer answers; what it had signed by then is history. *)
ReadSigner ==
  /\ At("signer")
  /\ look' = [look EXCEPT !.step = "confirmations",
                          !.signed = signed, !.holder = holder]
  /\ UNCHANGED <<coin, chain, receipt>>

ReadConfirmations ==
  /\ At("confirmations")
  /\ look' = [look EXCEPT !.step = "outspend", !.confirmations = confirmations]
  /\ UNCHANGED <<coin, chain, receipt>>

Count == Len(look.signed)

(* verify_funding, of confirmations read before and the spender read now. *)
FundingSeen(minimum) == ~ spent /\ look.confirmations >= minimum

VerifyPublicHistory ==
  /\ Count = Len(look.history)
  /\ look.history # << >>
  /\ Recoveries(look.history)
  /\ Ladder(look.confirmations, DelaysOf(look.history))
  /\ RequireReactionMargin(look.confirmations, Last(look.history).delay, look.margin)

Finish(ok, current, owned, safe) ==
  /\ look' = Idle
  /\ report' = {[look |-> look, ok |-> ok, current |-> current, owned |-> owned,
                 safe |-> safe]}
  /\ UNCHANGED <<coin, chain>>

FinishExport ==
  /\ At("outspend") /\ look.kind = "export"
  /\ LET ok == FundingSeen(MinConfirmations) /\ VerifyPublicHistory
     IN  /\ Finish(ok, ok, FALSE, ok)
         /\ receipt' = IF ok THEN {[history |-> look.history, count |-> Count]} ELSE receipt

FinishVerify ==
  /\ At("outspend") /\ look.kind = "verify"
  /\ LET ok == /\ look.count = Count
               /\ FundingSeen(MinConfirmations)
               /\ VerifyPublicHistory
     IN  Finish(ok, ok, FALSE, ok)
  /\ UNCHANGED receipt

(* The funding wallet trusts its own funding without confirmations, and    *)
(* calls the coin owned once it has them.  A wallet that gave the coin     *)
(* away only compares counts.                                              *)
StatusOfOwner(w) ==
  LET ok == /\ FundingSeen(IF w = First THEN 0 ELSE MinConfirmations)
            /\ VerifyHistory(w, Count, look.holder, 0, look.history)
  IN  Finish(ok, ok, ok /\ look.confirmations >= MinConfirmations,
             ok /\ RequireReactionMargin(look.confirmations, Last(look.history).delay,
                                         look.margin))

StatusOfSender(w) ==
  LET ok == FundingSeen(IF w = First THEN 0 ELSE MinConfirmations)
  IN  Finish(ok, ok /\ Count = Len(look.history), FALSE, FALSE)

FinishStatus ==
  /\ At("outspend") /\ look.kind = "status"
  /\ IF wallet[look.wallet].owner
     THEN StatusOfOwner(look.wallet)
     ELSE StatusOfSender(look.wallet)
  /\ UNCHANGED receipt

Move ==
  \/ \E w, v \in Wallet, margin \in Margins : Sign(w, v, margin)
  \/ \E w \in Wallet : CompleteTransfer(w)
  \/ \E v \in Receiver, margin \in Margins :
       \E history \in Received(v) : AcceptTransfer(v, history, margin)
  \/ SignElsewhere \/ Mine \/ Spend

Start ==
  \/ \E w \in Wallet, margin \in Margins : StartExport(w, margin) \/ StartStatus(w, margin)
  \/ \E margin \in Margins : StartVerify(margin)

(* Only the end of a command prints something, before all else goes on. *)
Printed == report # {} /\ UNCHANGED <<coin, chain, receipt, look>>

Next ==
  \/ /\ \/ report = {} /\ (Move \/ Start \/ ReadSigner \/ ReadConfirmations)
        \/ Printed
     /\ report' = {}
  \/ FinishExport \/ FinishVerify \/ FinishStatus

Spec == Init /\ [][Next]_vars

-----------------------------------------------------------------------------
(* A receipt that is exported or verified, and a status that calls the     *)
(* local history current, show every transaction the signer had signed for *)
(* the coin when it was asked, each once: no copy of a wallet, no edited   *)
(* file and no race hides one.  They show them in the order of their       *)
(* delays, which a copy need not have asked for in that order.             *)
VerifiedIsComplete ==
  \A r \in report : r.ok /\ r.current =>
    /\ Len(r.look.history) = Len(r.look.signed)
    /\ ToSet(r.look.signed) \subseteq ToSet(r.look.history)

(* What is reported safe is safe in unbounded arithmetic: none of the      *)
(* recoveries that were signed matures within the margin of the            *)
(* confirmations that were read.                                           *)
VerifiedLeavesMargin ==
  \A r \in report : r.ok /\ r.safe =>
    \A i \in DOMAIN r.look.signed :
      r.look.signed[i].delay > r.look.confirmations + r.look.margin

(* A wallet that reports a coin as owned held it when the signer was       *)
(* asked, and its own recovery matures before every other.                 *)
OwnedReportIsTrue ==
  \A r \in report : r.ok /\ r.owned =>
    /\ r.look.holder = r.look.wallet
    /\ \E i \in DOMAIN r.look.signed :
         /\ r.look.signed[i].to = r.look.wallet
         /\ \A j \in DOMAIN r.look.signed \ {i} :
              r.look.signed[i].delay < r.look.signed[j].delay
=============================================================================
