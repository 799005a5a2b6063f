----------------------------- MODULE SourceSweep -----------------------------
(***************************************************************************)
(* The deposits of one wallet and the two commands that spend them:        *)
(* `coin source-sweep` (source_sweep in src/wallet/src/cli.rs, over the    *)
(* journal of src/wallet-core/src/funding.rs) and `coin fund` (see         *)
(* Funding), of which only what touches the deposits is here: the choice   *)
(* of a source, the last look at it before the recovery is signed, and the *)
(* broadcast.                                                              *)
(*                                                                         *)
(* One command runs at a time and may stop before any of its steps; what   *)
(* it posted may be taken at any later time.  Deposits arrive and are lost *)
(* to reorganisations, transactions are evicted and come back.             *)
(*                                                                         *)
(* Abstractions.  A transaction is what it spends and, for a sweep, the    *)
(* policy (destination, fee rate, fee limit) of the command: with these    *)
(* its bytes are fixed.  The list of confirmed, unspent deposits is read   *)
(* in one step, with the signer's status before it.  The signer does not   *)
(* restart (see Funding).  A transaction with min_confirmations is final.  *)
(***************************************************************************)
EXTENDS Naturals, FiniteSets

CONSTANTS
  Deposits,  \* outputs 1 .. Deposits may be paid to the deposit address, in
             \* the order of their amounts; output 0 is the funding's change
  Policy,
  MaxBatch   \* inputs of one sweep: 100

ASSUME SweepAssumption == Deposits \in Nat /\ MaxBatch \in Nat \ {0}

VARIABLES
  signer,      \* what it knows of the funding's recovery: asked, answered
  disk, mem,   \* the two journals in wallet.enc, and the command's copy
  pc, arg,     \* the command: next step, policy
  posted,      \* transactions on their way to the network
  arrived,     \* deposits that are confirmed
  status,      \* transactions the network has: mempool, confirmed, final
  sent         \* history: transactions ever posted

command == <<mem, pc, arg>>
vars    == <<signer, disk, command, posted, arrived, status, sent>>

none == "none"

Output == 0 .. Deposits

NoSweep == [stage |-> none, inputs |-> {}, policy |-> none]

NoFunding == [stage |-> none, inputs |-> {}]

SweepOf(journal) ==
  [by |-> "sweep", inputs |-> journal.inputs, policy |-> journal.policy]

FundingOf(journal) ==
  [by |-> "fund", inputs |-> journal.inputs, policy |-> none]

Init ==
  /\ signer = none
  /\ disk = [sweep |-> NoSweep, funding |-> NoFunding]
  /\ mem = disk
  /\ pc = "idle"
  /\ arg = none
  /\ posted = {}
  /\ arrived = {}
  /\ status = [t \in {} |-> none]
  /\ sent = {}

Observed(t) == t \in DOMAIN status

(* confirmed_source_utxos: what the explorer lists.  The change is there   *)
(* once the funding is confirmed.                                          *)
Unspent(o) ==
  /\ \/ o \in arrived
     \/ o = 0 /\ \E t \in DOMAIN status : t.by = "fund" /\ status[t] # "mempool"
  /\ \A t \in DOMAIN status : o \notin t.inputs

-----------------------------------------------------------------------------
(* Steps of a command. *)

Goto(from, to) == pc = from /\ pc' = to

Save(journals) == disk' = journals /\ mem' = journals

SaveSweep(journal) == Save([mem EXCEPT !.sweep = journal])

SaveFunding(journal) == Save([mem EXCEPT !.funding = journal])

End == pc' = "idle" /\ arg' = none

Stop ==
  /\ pc # "idle"
  /\ End
  /\ mem' = disk
  /\ UNCHANGED <<signer, disk, posted, arrived, status, sent>>

Post(t) == posted' = posted \cup {t} /\ sent' = sent \cup {t}

-----------------------------------------------------------------------------
(* coin source-sweep *)

StartSweep(policy) ==
  /\ pc = "idle"
  /\ arg' = policy
  /\ pc' = IF disk.sweep.stage = none THEN "gather" ELSE "look"
  /\ UNCHANGED <<signer, disk, mem, posted, arrived, status, sent>>

(* available_source_sweep_inputs: the largest outputs the funding journal  *)
(* does not spend.                                                         *)
AnyUnspent == {o \in Output : Unspent(o)}

Available == {o \in Output : Unspent(o) /\ o \notin mem.funding.inputs}

Largest(outputs) ==
  {o \in outputs : Cardinality({p \in outputs : p > o}) < MaxBatch}

Prepared ==
  [stage |-> "Prepared", inputs |-> Largest(Available), policy |-> arg]

(* The saved sweep is visible: it is recorded as observed.  (A prepared    *)
(* journal would be armed first; no prepared sweep is ever visible: see    *)
(* SentIsJournaled.)                                                       *)
RecordObserved(next) ==
  /\ Observed(SweepOf(mem.sweep))
  /\ SaveSweep([mem.sweep EXCEPT !.stage = "Observed"])
  /\ pc' = next

(* Once it is final, a run takes the next batch. *)
IsFinal(t) == status[t] = "final"

NextBatch ==
  /\ pc = "look"
  /\ RecordObserved("more")
  /\ IsFinal(SweepOf(mem.sweep))
  /\ UNCHANGED <<signer, arg, posted, arrived, status, sent>>

(* Until then there is nothing to do. *)
Wait ==
  /\ pc = "look"
  /\ RecordObserved("idle")
  /\ ~ IsFinal(SweepOf(mem.sweep))
  /\ arg' = none
  /\ UNCHANGED <<signer, posted, arrived, status, sent>>

PrepareNext ==
  /\ Goto("more", "validate")
  /\ Available # {}
  /\ SaveSweep(Prepared)
  /\ UNCHANGED <<signer, arg, posted, arrived, status, sent>>

(* A prepared sweep gives way to another policy; one that is armed or      *)
(* observed does not.                                                      *)
MayReplace(journal) ==
  journal.stage = "Prepared" /\ journal.policy # arg

KeepSweep ==
  /\ Goto("look", "validate")
  /\ ~ Observed(SweepOf(mem.sweep))
  /\ mem.sweep.policy = arg
  /\ UNCHANGED <<signer, disk, mem, arg, posted, arrived, status, sent>>

ReplaceSweep ==
  /\ Goto("look", "gather")
  /\ ~ Observed(SweepOf(mem.sweep))
  /\ MayReplace(mem.sweep)
  /\ UNCHANGED <<signer, disk, mem, arg, posted, arrived, status, sent>>

PrepareSweep ==
  /\ Goto("gather", "validate")
  /\ Available # {}
  /\ SaveSweep(Prepared)
  /\ UNCHANGED <<signer, arg, posted, arrived, status, sent>>

(* A second look at the chain: the sweep has appeared after all. *)
SweepAppeared ==
  /\ pc = "validate"
  /\ RecordObserved("idle")
  /\ arg' = none
  /\ UNCHANGED <<signer, posted, arrived, status, sent>>

(* validate_source_sweep_inputs. *)
InputsAvailable == \A o \in mem.sweep.inputs : Unspent(o)

(* arm_submission and its save. *)
ArmInMemory ==
  /\ Goto("validate", "send")
  /\ ~ Observed(SweepOf(mem.sweep))
  /\ InputsAvailable
  /\ mem' = [mem EXCEPT !.sweep.stage = "SubmissionArmed"]
  /\ UNCHANGED <<signer, disk, arg, posted, arrived, status, sent>>

ArmSweep ==
  /\ Goto("validate", "send")
  /\ ~ Observed(SweepOf(mem.sweep))
  /\ InputsAvailable
  /\ SaveSweep([mem.sweep EXCEPT !.stage = "SubmissionArmed"])
  /\ UNCHANGED <<signer, arg, posted, arrived, status, sent>>

SubmitOnce ==
  /\ Goto("send", "confirm")
  /\ IF SweepOf(mem.sweep) \in sent
     THEN UNCHANGED <<signer, posted, sent>>
     ELSE Post(SweepOf(mem.sweep))
  /\ UNCHANGED <<signer, disk, mem, arg, arrived, status>>

SubmitSweep ==
  /\ Goto("send", "confirm")
  /\ Post(SweepOf(mem.sweep))
  /\ UNCHANGED <<signer, disk, mem, arg, arrived, status>>

(* broadcast_exact ends with a look for the transaction. *)
ConfirmSweep ==
  /\ pc = "confirm"
  /\ RecordObserved("idle")
  /\ arg' = none
  /\ UNCHANGED <<signer, posted, arrived, status, sent>>

-----------------------------------------------------------------------------
(* coin fund *)

StartFund ==
  /\ pc = "idle"
  /\ pc' = CASE disk.funding.stage = none       -> "select"
             [] disk.funding.stage = "Prepared" -> "check_source"
             [] disk.funding.stage = "Secured"  -> "broadcast"
  /\ UNCHANGED <<signer, disk, mem, arg, posted, arrived, status, sent>>

(* The largest deposit the saved sweep does not spend. *)
SourceIn(outputs, o) ==
  /\ o \in outputs
  /\ \A p \in outputs : p <= o

AnySource(o) == SourceIn(AnyUnspent, o)

Source(o) ==
  SourceIn({p \in Output : Unspent(p) /\ p \notin mem.sweep.inputs}, o)

SelectSource ==
  /\ Goto("select", "check_source")
  /\ \E o \in Output :
       Source(o) /\ SaveFunding([stage |-> "Prepared", inputs |-> {o}])
  /\ UNCHANGED <<signer, arg, posted, arrived, status, sent>>

(* validate_explorer_prepared_funding: the source is still there. *)
SourceAvailable == \A o \in mem.funding.inputs : Unspent(o)

(* Until the signer has answered, the source is looked at before each      *)
(* request; what was answered is only to be fetched.                       *)
MayAsk == signer = "answered" \/ SourceAvailable

AskSigner ==
  /\ Goto("check_source", "secure")
  /\ MayAsk
  /\ signer' = IF signer = none THEN "asked" ELSE signer
  /\ UNCHANGED <<disk, mem, arg, posted, arrived, status, sent>>

(* The request is handled, at once or long after its command stopped. *)
SignerAnswers ==
  /\ signer = "asked"
  /\ signer' = "answered"
  /\ UNCHANGED <<disk, command, posted, arrived, status, sent>>

(* The answer and the recovery are saved. *)
SecureFunding ==
  /\ Goto("secure", "broadcast")
  /\ signer = "answered"
  /\ SaveFunding([mem.funding EXCEPT !.stage = "Secured"])
  /\ UNCHANGED <<signer, arg, posted, arrived, status, sent>>

BroadcastFunding ==
  /\ pc = "broadcast"
  /\ Post(FundingOf(mem.funding))
  /\ End
  /\ UNCHANGED <<signer, disk, mem, arrived, status>>

(* A command ends when one of its checks fails. *)
CheckFails ==
  \/ pc = "look" /\ ~ Observed(SweepOf(mem.sweep))
       /\ mem.sweep.policy # arg /\ ~ MayReplace(mem.sweep)
  \/ pc \in {"more", "gather"} /\ Available = {}
  \/ pc = "validate" /\ ~ Observed(SweepOf(mem.sweep))
       /\ ~ InputsAvailable
  \/ pc = "confirm" /\ ~ Observed(SweepOf(mem.sweep))
       /\ SweepOf(mem.sweep) \notin posted
  \/ pc = "select" /\ ~ \E o \in Output : Source(o)
  \/ pc = "check_source" /\ ~ MayAsk

Refuse ==
  /\ CheckFails
  /\ End
  /\ mem' = disk
  /\ UNCHANGED <<signer, disk, posted, arrived, status, sent>>

-----------------------------------------------------------------------------
(* The network. *)

Set(t, value) ==
  [u \in DOMAIN status \cup {t} |-> IF u = t THEN value ELSE status[u]]

Without(lost) == [u \in DOMAIN status \ lost |-> status[u]]

Accept(t) ==
  /\ \A o \in t.inputs : Unspent(o)
  /\ posted' = posted \ {t}
  /\ status' = Set(t, "mempool")
  /\ UNCHANGED <<signer, disk, command, arrived, sent>>

Reject(t) ==
  /\ posted' = posted \ {t}
  /\ UNCHANGED <<signer, disk, command, arrived, status, sent>>

Handle ==
  \E t \in posted :
    Accept(t) \/ (Reject(t) /\ \E o \in t.inputs : ~ Unspent(o))

(* mempool, confirmed, final; a block may be undone before.  The funding   *)
(* is ahead of what spends its change.                                     *)
Confirm(t) ==
  LET next == IF status[t] = "mempool" THEN "confirmed" ELSE "final" IN
  /\ status[t] # "final"
  /\ 0 \in t.inputs => \A u \in DOMAIN status :
                         u.by = "fund" => status[u] \in {next, "final"}
  /\ status' = Set(t, next)
  /\ UNCHANGED <<signer, disk, command, posted, arrived, sent>>

(* What spends the change goes with the funding that makes it. *)
Dependents(t) ==
  {u \in DOMAIN status : u = t \/ (t.by = "fund" /\ 0 \in u.inputs)}

Undo(t) ==
  /\ status[t] = "confirmed"
  /\ status' = [Without(Dependents(t) \ {t}) EXCEPT ![t] = "mempool"]
  /\ UNCHANGED <<signer, disk, command, posted, arrived, sent>>

Evict(t) ==
  /\ status[t] = "mempool"
  /\ status' = Without(Dependents(t))
  /\ UNCHANGED <<signer, disk, command, posted, arrived, sent>>

Deposit(o) ==
  /\ o \notin arrived
  /\ arrived' = arrived \cup {o}
  /\ UNCHANGED <<signer, disk, command, posted, status, sent>>

LoseDeposit(o) ==
  /\ o \in arrived
  /\ \A t \in DOMAIN status : o \notin t.inputs
  /\ arrived' = arrived \ {o}
  /\ UNCHANGED <<signer, disk, command, posted, status, sent>>

Step ==
  \/ NextBatch \/ Wait \/ PrepareNext \/ KeepSweep \/ ReplaceSweep
  \/ PrepareSweep \/ SweepAppeared \/ ArmSweep \/ SubmitSweep \/ ConfirmSweep
  \/ SelectSource \/ AskSigner \/ SecureFunding \/ BroadcastFunding \/ Refuse

Chain ==
  \/ \E t \in DOMAIN status : Confirm(t) \/ Undo(t) \/ Evict(t)
  \/ \E o \in 1 .. Deposits : Deposit(o) \/ LoseDeposit(o)

Next ==
  \/ Step \/ Stop \/ StartFund \/ SignerAnswers \/ Handle \/ Chain
  \/ \E policy \in Policy : StartSweep(policy)
  \/ \E t \in posted : Reject(t)

Spec == Init /\ [][Next]_vars

(* An operator who reruns the sweep with the saved policy, and a signer    *)
(* that answers what reaches it.                                           *)
Rerun ==
  /\ disk.sweep.stage \in {"SubmissionArmed", "Observed"}
  /\ StartSweep(disk.sweep.policy)

FairSpec ==
  /\ Spec
  /\ WF_vars(Step) /\ SF_vars(Rerun)
  /\ WF_vars(Handle) /\ WF_vars(SignerAnswers)

-----------------------------------------------------------------------------
Armed(journal) == journal.stage \in {"SubmissionArmed", "Observed"}

(* The journals are well formed, and a command that is not running leaves  *)
(* no copy behind.                                                         *)
TypeOK ==
  /\ disk.sweep = NoSweep
       \/ /\ disk.sweep.stage \in {"Prepared", "SubmissionArmed", "Observed"}
          /\ disk.sweep.inputs \in (SUBSET Output) \ {{}}
          /\ Cardinality(disk.sweep.inputs) <= MaxBatch
          /\ disk.sweep.policy \in Policy
  /\ disk.funding = NoFunding
       \/ /\ disk.funding.stage \in {"Prepared", "Secured"}
          /\ Cardinality(disk.funding.inputs) = 1
  /\ signer \in {none, "asked", "answered"}
  /\ pc = "idle" => mem = disk /\ arg = none
  /\ posted \subseteq sent
  /\ DOMAIN status \subseteq sent

(* No deposit is promised twice: whatever was ever posted by either        *)
(* command, in however many runs, and whatever the journals hold, spends   *)
(* different deposits.  The recovery signed for the funding, in particular, *)
(* is never made worthless by a sweep of the funding's input.              *)
OneSpendPerDeposit ==
  LET promised == sent \cup (IF disk.funding.stage = none THEN {}
                             ELSE {FundingOf(disk.funding)})
                       \cup (IF Armed(disk.sweep) THEN {SweepOf(disk.sweep)}
                             ELSE {})
  IN  \A t, u \in promised : t # u => t.inputs \cap u.inputs = {}

(* A sweep that left the wallet and is not final is the saved one, armed   *)
(* before it was posted: it can be recognised, resubmitted byte for byte,  *)
(* and is never replaced.                                                  *)
SentIsJournaled ==
  \A t \in sent : t.by = "sweep" =>
    \/ Armed(disk.sweep) /\ SweepOf(disk.sweep) = t
    \/ Observed(t) /\ IsFinal(t)

(* From some time on nothing is undone, lost, stopped from outside, or     *)
(* rejected without a reason.                                              *)
Steady ==
  <>[][/\ Stop => \/ Refuse \/ Wait \/ SweepAppeared \/ ConfirmSweep
                  \/ BroadcastFunding
       /\ (\E t \in posted : Reject(t)) => Handle
       /\ ~ \E t \in DOMAIN status : Undo(t) \/ Evict(t)
       /\ ~ \E o \in 1 .. Deposits : LoseDeposit(o)]_vars

(* A sweep that was armed is seen through, also when it was evicted, if    *)
(* its inputs are still there.                                             *)
ArmedSweepReturns ==
  Steady =>
    (disk.sweep.stage \in {"SubmissionArmed", "Observed"}
       ~> \/ Observed(SweepOf(disk.sweep))
          \/ \E o \in disk.sweep.inputs : ~ Unspent(o))
=============================================================================
