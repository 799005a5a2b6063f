--------------------------------- MODULE Exit ---------------------------------
(***************************************************************************)
(* `coin exit`: exit_coin_journaled in src/wallet/src/cli.rs over the      *)
(* journal of src/wallet-core/src/exit.rs, with either chain backend.      *)
(* A wallet spends the funding output with its zero-fee recovery (the      *)
(* parent) and a child that pays for both and sends the coin to the        *)
(* destination of the command.                                             *)
(*                                                                         *)
(* The command reads the chain one request at a time, and the chain moves  *)
(* between the reads: packages are accepted, confirmed and evicted,        *)
(* somebody else mines the parent alone, recoveries of other owners        *)
(* compete for the output.  The command may stop before any of its steps;  *)
(* what it posted may still be taken at any later time.                    *)
(*                                                                         *)
(* Abstractions.  A package is its policy: the destination with the fee    *)
(* limit, and the fee rate; it fixes the child (build_exit_child is        *)
(* deterministic).  Confirmations never go back.  An explorer shows every  *)
(* transaction; Bitcoin Core shows a confirmed one only if it has it       *)
(* indexed, and otherwise no more than that an output is there.            *)
(***************************************************************************)
EXTENDS Naturals

CONSTANTS
  Destination, Rate, \* policies: a destination and fee limit, a fee rate
  Delay,             \* delay_blocks of the wallet's recovery
  OlderDelay,        \* of a former owner's
  NewerDelay,        \* of a later owner's
  MaxBlocks,         \* bound: confirmations of the funding output
  Setting            \* the wallets and backends considered: records of
                     \*   owner:  FALSE for a former owner, who knows its
                     \*           own recovery only
                     \*   core:   the backend is Bitcoin Core, no explorer
                     \*   hidden: what Core has no index of, once confirmed

ASSUME ExitAssumption ==
  /\ Delay \in Nat \ {0} /\ NewerDelay \in Nat /\ OlderDelay \in Nat
  /\ NewerDelay < Delay /\ Delay < OlderDelay
  /\ MaxBlocks \in Nat
  /\ Setting \subseteq [owner  : BOOLEAN,
                        core   : BOOLEAN,
                        hidden : SUBSET {"funding", "recovery", "child"}]
  /\ \A s \in Setting : s.hidden # {} => s.core

VARIABLES
  setting,        \* the wallet and its backend; never changes
  disk, mem,      \* the exit journal in wallet.enc, and the command's copy
  pc,             \* next step of the command
  arg,            \* its arguments
  site,           \* which observe_exit_package it is in
  seen,           \* what it has read from the chain
  posted,         \* submissions on their way to the network
  confirmations,  \* of the funding output
  spend,          \* the transaction that spends it
  child,          \* the child of the wallet's recovery
  sent, accepted, \* history: packages ever posted, ever taken
  standing        \* history: by whom the output was spent when the command
                  \* started, as long as that has not changed

command == <<mem, pc, arg, site, seen>>
chain   == <<setting, confirmations, spend, child, standing>>
history == <<sent, accepted>>
vars    == <<disk, command, posted, chain, history>>

IsOwner  == setting.owner
UsesCore == setting.core
Hidden   == setting.hidden

none == "none"

omitted == "omitted"   \* no --fee-rate: the recommended one

Package == [destination : Destination, rate : Rate]

Argument == [destination : Destination, rate : Rate \cup {omitted}]

NoPackage == [destination |-> none, rate |-> none]

NoJournal == [stage |-> none, package |-> NoPackage]

(* spent: the destination has spent what it received. *)
NoChild == [of |-> NoPackage, confirmed |-> FALSE, spent |-> FALSE]

NoArgument == [destination |-> none, rate |-> omitted]

Unseen == [child |-> FALSE, confirmations |-> 0]

(* The recoveries of others, and those of them in the wallet's history: a  *)
(* sender keeps only its own (complete_transfer).                          *)
Others == IF IsOwner THEN {"older"} ELSE {"older", "newer"}

Known == IF IsOwner THEN {"older"} ELSE {}

MaturesAt(recovery) ==
  CASE recovery = "own"   -> Delay
    [] recovery = "older" -> OlderDelay
    [] recovery = "newer" -> NewerDelay

Init ==
  /\ setting \in Setting
  /\ disk = NoJournal
  /\ mem = NoJournal
  /\ pc = "idle"
  /\ arg = NoArgument
  /\ site = none
  /\ seen = Unseen
  /\ posted = {}
  /\ confirmations = 0
  /\ spend = [by |-> none, confirmed |-> FALSE]
  /\ child = NoChild
  /\ sent = {}
  /\ accepted = {}
  /\ standing = none

-----------------------------------------------------------------------------
(* Steps of the command. *)

Goto(from, to) == pc = from /\ pc' = to

(* save_native of the working copy. *)
Save(journal) == disk' = journal /\ mem' = journal

Idle ==
  /\ pc' = "idle"
  /\ arg' = NoArgument
  /\ site' = none
  /\ seen' = Unseen

(* A crash, a timeout or an error of a request. *)
Stop ==
  /\ pc # "idle"
  /\ Idle
  /\ mem' = disk
  /\ posted' = {[m EXCEPT !.awaited = FALSE] : m \in posted}
  /\ UNCHANGED <<disk, chain, history>>

Armed(journal) == journal.stage \in {"SubmissionArmed", "Observed"}

(* validate_saved_exit_policy. *)
PolicyMatches(package, argument) ==
  /\ package.destination = argument.destination
  /\ argument.rate \in {omitted, package.rate}

(* A journal past Prepared is resumed before the funding is looked at. *)
ObservedIsFinal(journal) ==
  CASE journal.stage = "Observed"        -> "complete"
    [] journal.stage = "SubmissionArmed" -> "child"
    [] OTHER                             -> "funding"

EntryPoint(journal) == IF Armed(journal) THEN "child" ELSE "funding"

Start(argument) ==
  /\ pc = "idle"
  /\ Armed(disk) => PolicyMatches(disk.package, argument)
  /\ pc' = EntryPoint(disk)
  /\ arg' = argument
  /\ site' = "resume"
  /\ standing' = spend.by
  /\ UNCHANGED <<setting, disk, mem, seen, posted, confirmations, spend, child, history>>

(* What the backend shows the bytes of. *)
Raw(what, confirmed) == ~ confirmed \/ what \notin Hidden

(* Core proves a hidden transaction by its only output, if that is unspent *)
(* (observe_authorized_transaction); the wallet asks for the proof only    *)
(* when it may have posted the package.                                    *)
ChildVisible(package) ==
  child.of # NoPackage /\ child.of = package /\ Raw("child", child.confirmed)

ChildProved ==
  Armed(mem) /\ child.of = mem.package /\ child.confirmed /\ ~ child.spent

ParentVisible == spend.by = "own" /\ Raw("recovery", spend.confirmed)

ParentProved ==
  Armed(mem) /\ spend.by = "own" /\ spend.confirmed /\ child.of = NoPackage

(* observe_funding.  An explorer is asked for the funding transaction and  *)
(* then for its spender.  Core is asked whether the output is unspent, and *)
(* only if it is not for the other two.                                    *)
FundingShown == ~ UsesCore \/ spend.by = none \/ "funding" \notin Hidden

ReadFunding ==
  /\ pc = "funding"
  /\ confirmations >= 1
  /\ FundingShown
  /\ pc' = IF UsesCore /\ spend.by = none THEN "prepare" ELSE "spender"
  /\ seen' = [seen EXCEPT !.confirmations = confirmations]
  /\ UNCHANGED <<disk, mem, arg, site, posted, chain, history>>

(* The spender of a spent output: Core names one in the mempool; for a     *)
(* confirmed one the wallet looks for the recoveries it knows, and then    *)
(* for the package it armed.                                               *)
SpenderFound ==
  \/ ~ UsesCore
  \/ /\ spend.by # none
     /\ \/ Raw("recovery", spend.confirmed)
        \/ /\ spend.by = "own"
           /\ \/ ParentProved
              \/ ChildProved
              \/ Armed(mem) /\ ChildVisible(mem.package)

(* verify_exit_funding. *)
UnconfirmedIsHarmless ==
  SpenderFound /\ (spend.confirmed => spend.by = "own")

ExitFundingVerified ==
  /\ SpenderFound
  /\ \/ spend.by = none
     \/ spend.by = "own"
     \/ spend.by \in Known /\ ~ spend.confirmed

ReadSpender ==
  /\ Goto("spender", "prepare")
  /\ ExitFundingVerified
  /\ UNCHANGED <<disk, mem, arg, site, seen, posted, chain, history>>

(* A journal that is prepared only gives way to another policy. *)
NeedsPackage ==
  \/ mem.stage = none
  \/ mem.stage = "Prepared" /\ ~ PolicyMatches(mem.package, arg)

(* ExitJournal::prepare: the owned recovery must be final. *)
Final == seen.confirmations >= Delay

Prepare ==
  /\ Goto("prepare", "child")
  /\ NeedsPackage
  /\ Final
  /\ \E rate \in Rate :
       /\ arg.rate \in {omitted, rate}
       /\ Save([stage   |-> "Prepared",
                package |-> [destination |-> arg.destination, rate |-> rate]])
  /\ site' = "check"
  /\ UNCHANGED <<arg, seen, posted, chain, history>>

KeepPackage ==
  /\ Goto("prepare", "child")
  /\ ~ NeedsPackage
  /\ site' = "check"
  /\ UNCHANGED <<disk, mem, arg, seen, posted, chain, history>>

-----------------------------------------------------------------------------
(* observe_exit_package: the child is looked up, then the parent, then the *)
(* spender of a parent without a child.                                    *)

ReadChild ==
  /\ Goto("child", "parent")
  /\ seen' = [seen EXCEPT !.child = ChildVisible(mem.package) \/ ChildProved]
  /\ UNCHANGED <<disk, mem, arg, site, posted, chain, history>>

(* ExitPresence.complete. *)
CompleteWithParent(parent) == parent

Complete(parent) == parent /\ seen.child

(* With Core, an armed child that was seen stands for its parent. *)
NeverInferred == FALSE

Inferred == UsesCore /\ Armed(mem) /\ seen.child

ParentSeen == ParentVisible \/ ParentProved \/ Inferred

ReadParent ==
  LET parent == ParentSeen IN
  /\ pc = "parent"
  /\ seen.child => parent
  /\ pc' = CASE Complete(parent)             -> "complete"
             [] parent /\ ~ Complete(parent) -> "outspend"
             [] ~ parent                     -> "absent"
  /\ UNCHANGED <<disk, mem, arg, site, seen, posted, chain, history>>

ReadOutspend ==
  /\ Goto("outspend", "alone")
  /\ child.of = NoPackage
  /\ UNCHANGED <<disk, mem, arg, site, seen, posted, chain, history>>

(* mark_exit_observed.  (It arms a prepared journal first; no child of a   *)
(* prepared package is ever visible: see SentIsJournaled.)                 *)
MarkObserved ==
  /\ pc = "complete"
  /\ Save([mem EXCEPT !.stage = "Observed"])
  /\ Idle
  /\ UNCHANGED <<posted, chain, history>>

(* Nothing to resume: the funding is looked at. *)
Resubmit ==
  /\ Goto("absent", "funding")
  /\ site = "resume"
  /\ UNCHANGED <<disk, mem, arg, site, seen, posted, chain, history>>

(* arm_submission is durable before anything is posted. *)
MayArm ==
  \/ site = "resume" /\ pc = "alone"
  \/ site = "check" /\ Final

ArmInMemory ==
  /\ pc \in {"absent", "alone"}
  /\ MayArm
  /\ pc' = IF pc = "alone" THEN "send_child" ELSE "send_package"
  /\ mem' = [mem EXCEPT !.stage = "SubmissionArmed"]
  /\ UNCHANGED <<disk, arg, site, seen, posted, chain, history>>

Arm ==
  /\ pc \in {"absent", "alone"}
  /\ MayArm
  /\ pc' = IF pc = "alone" THEN "send_child" ELSE "send_package"
  /\ Save([mem EXCEPT !.stage = "SubmissionArmed"])
  /\ UNCHANGED <<arg, site, seen, posted, chain, history>>

(* submit_package, or broadcast_exact of a child whose parent is there. *)
AlwaysPackage(step) == "package"

Submission(step) == IF step = "send_child" THEN "child" ELSE "package"

Submit ==
  /\ pc \in {"send_child", "send_package"}
  /\ posted' = posted \cup
       {[kind |-> Submission(pc), package |-> mem.package, awaited |-> TRUE]}
  /\ sent' = sent \cup {mem.package}
  /\ pc' = "await"
  /\ UNCHANGED <<disk, mem, arg, site, seen, chain, accepted>>

(* A command ends when one of its checks fails. *)
CheckFails ==
  \/ pc = "funding" /\ (confirmations < 1 \/ ~ FundingShown)
  \/ pc = "spender" /\ ~ ExitFundingVerified
  \/ pc = "prepare" /\ NeedsPackage /\ ~ Final
  \/ pc = "parent" /\ seen.child /\ ~ ParentSeen
  \/ pc = "outspend" /\ child.of # NoPackage
  \/ pc \in {"absent", "alone"} /\ site = "confirm"

Refuse ==
  /\ CheckFails
  /\ Idle
  /\ mem' = disk
  /\ UNCHANGED <<disk, posted, chain, history>>

-----------------------------------------------------------------------------
(* The network. *)

(* The answer to the command that waits for it. *)
Answered(message, next) ==
  /\ posted' = posted \ {message}
  /\ IF ~ message.awaited
     THEN UNCHANGED command
     ELSE IF next = "error"
          THEN Idle /\ mem' = disk
          ELSE /\ pc' = next
               /\ site' = "confirm"
               /\ UNCHANGED <<setting, mem, arg, seen>>

(* A package is valid from the block on in which its parent is final, and  *)
(* replaces other recoveries that are not confirmed; a child alone needs   *)
(* its parent.                                                             *)
Acceptable(message) ==
  \/ /\ message.kind = "package"
     /\ confirmations >= Delay
     /\ ~ spend.confirmed
     /\ child.of \in {NoPackage, message.package}
  \/ /\ message.kind = "child"
     /\ spend.by = "own"
     /\ child.of \in {NoPackage, message.package}

Accept(message) ==
  /\ Acceptable(message)
  /\ spend' = [spend EXCEPT !.by = "own"]
  /\ child' = [child EXCEPT !.of = message.package]
  /\ accepted' = accepted \cup {message.package}
  /\ standing' = none
  /\ Answered(message, "child")
  /\ UNCHANGED <<setting, disk, confirmations, sent>>

(* It may reject anything.  broadcast_exact looks once more for the child. *)
Reject(message) ==
  /\ IF message.kind = "child" /\ ChildVisible(message.package)
     THEN Answered(message, "child")
     ELSE Answered(message, "error")
  /\ UNCHANGED <<disk, chain, history>>

Handle ==
  \E message \in posted :
    Accept(message) \/ (~ Acceptable(message) /\ Reject(message))

Mine ==
  /\ confirmations < MaxBlocks
  /\ confirmations' = confirmations + 1
  /\ UNCHANGED <<setting, disk, command, posted, spend, child, standing, history>>

ConfirmSpend ==
  /\ spend.by # none
  /\ ~ spend.confirmed
  /\ spend' = [spend EXCEPT !.confirmed = TRUE]
  /\ UNCHANGED <<setting, disk, command, posted, confirmations, child, standing, history>>

ConfirmChild ==
  /\ child.of # NoPackage
  /\ spend.confirmed
  /\ ~ child.confirmed
  /\ child' = [child EXCEPT !.confirmed = TRUE]
  /\ UNCHANGED <<setting, disk, command, posted, confirmations, spend, standing, history>>

SpendChild ==
  /\ child.confirmed
  /\ ~ child.spent
  /\ child' = [child EXCEPT !.spent = TRUE]
  /\ UNCHANGED <<setting, disk, command, posted, confirmations, spend, standing, history>>

(* Somebody who has the recovery gets a miner to take it without a fee. *)
MineParent ==
  /\ confirmations >= Delay
  /\ ~ spend.confirmed
  /\ spend.by # "own"
  /\ spend' = [by |-> "own", confirmed |-> TRUE]
  /\ standing' = none
  /\ UNCHANGED <<setting, disk, command, posted, confirmations, child, history>>

(* Another owner's recovery enters the mempool, alone or in place of the   *)
(* wallet's.                                                               *)
Compete(recovery) ==
  /\ confirmations >= MaturesAt(recovery)
  /\ ~ spend.confirmed
  /\ spend.by # recovery
  /\ spend' = [by |-> recovery, confirmed |-> FALSE]
  /\ child' = NoChild
  /\ standing' = none
  /\ UNCHANGED <<setting, disk, command, posted, confirmations, history>>

(* What is not confirmed may leave the mempool, a child with its parent. *)
Evict ==
  /\ ~ child.confirmed
  /\ child.of # NoPackage \/ (spend.by # none /\ ~ spend.confirmed)
  /\ child' = NoChild
  /\ spend' = IF spend.confirmed THEN spend ELSE [by |-> none, confirmed |-> FALSE]
  /\ standing' = none
  /\ UNCHANGED <<setting, disk, command, posted, confirmations, history>>

Step ==
  \/ ReadFunding \/ ReadSpender \/ Prepare \/ KeepPackage
  \/ ReadChild \/ ReadParent \/ ReadOutspend
  \/ MarkObserved \/ Resubmit \/ Arm \/ Submit \/ Refuse

Network ==
  \/ Handle
  \/ \E message \in posted : Reject(message)
  \/ Mine \/ ConfirmSpend \/ ConfirmChild \/ SpendChild \/ MineParent \/ Evict
  \/ \E recovery \in Others : Compete(recovery)

Next == Step \/ Stop \/ (\E argument \in Argument : Start(argument)) \/ Network

Spec == Init /\ [][Next]_vars

(* An operator who reruns the command with the saved policy, as            *)
(* wallet/README.md ("Interrupted operations") asks.                       *)
Rerun ==
  \E argument \in Argument :
    Armed(disk) /\ PolicyMatches(disk.package, argument) /\ Start(argument)

FairSpec == Spec /\ WF_vars(Step) /\ SF_vars(Rerun) /\ WF_vars(Handle)

-----------------------------------------------------------------------------
Journals ==
  [stage : {"Prepared", "SubmissionArmed", "Observed"}, package : Package]
    \cup {NoJournal}

(* The journal, the command and the chain are well formed; a command that  *)
(* is not running waits for nothing, and a child has its parent.           *)
TypeOK ==
  /\ disk \in Journals
  /\ mem \in Journals
  /\ arg \in Argument \cup {NoArgument}
  /\ site \in {none, "resume", "check", "confirm"}
  /\ seen \in [child : BOOLEAN, confirmations : 0 .. MaxBlocks]
  /\ spend \in [by : Others \cup {none, "own"}, confirmed : BOOLEAN]
  /\ child \in [of : Package \cup {NoPackage}, confirmed : BOOLEAN, spent : BOOLEAN]
  /\ child.of # NoPackage => spend.by = "own"
  /\ pc = "idle" => mem = disk /\ \A m \in posted : ~ m.awaited
  /\ \A m \in posted : m.awaited => pc = "await"

(* The coin goes to one destination: whatever the wallet has ever posted,  *)
(* in however many runs, stopped wherever, and however late the network    *)
(* takes it, is the package in its saved journal, which was armed first    *)
(* and which no policy replaces any more.                                  *)
SentIsJournaled ==
  \A package \in sent : Armed(disk) /\ disk.package = package

(* The journal says Observed only of a package the network has taken,      *)
(* although the chain is read in pieces and somebody else may have mined   *)
(* the parent.                                                             *)
ObservedWasAccepted == disk.stage = "Observed" => disk.package \in accepted

(* A former owner gives way to a newer one: a command that was started     *)
(* while a recovery the wallet does not know of (a newer owner's) was in   *)
(* the mempool, and finds it there, posts nothing.                         *)
NewerOwnerIsNotContested ==
  standing \in Others \ Known => \A m \in posted : ~ m.awaited

(* From some time on nothing is evicted, rejected without a reason or      *)
(* stopped from outside.                                                   *)
Steady ==
  <>[][/\ ~ Evict
       /\ Stop => Refuse \/ MarkObserved
       /\ (\E message \in posted : Reject(message)) => Handle]_vars

Lost == spend.by \in Others

(* Nothing on the chain tells Core any more that the child was there. *)
Unprovable == "child" \in Hidden /\ child.spent

(* An exit that was armed is seen through: rerunning the command records   *)
(* the package as observed, also when it was evicted before or its parent  *)
(* was mined without the child, unless another owner's recovery takes the  *)
(* output, or the destination spends it on before a Core without an index  *)
(* is asked.                                                               *)
ArmedExitIsObserved ==
  Steady => (disk.stage = "SubmissionArmed"
               ~> disk.stage = "Observed" \/ Lost \/ Unprovable)

(* A package that left the mempool, even after it was recorded as          *)
(* observed, is submitted again.                                           *)
EvictedExitReturns == Steady => (Armed(disk) ~> child.of # NoPackage \/ Lost)
=============================================================================
