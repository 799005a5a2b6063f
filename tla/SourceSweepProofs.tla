-------------------------- MODULE SourceSweepProofs --------------------------
(***************************************************************************)
(* Theorems about SourceSweep, for any number of deposits, set of policies *)
(* and batch size.                                                         *)
(*                                                                         *)
(* Neither property is inductive.  Inv adds which journals the two         *)
(* commands can hold at each step, that there is one funding transaction,  *)
(* that what spends its change is never ahead of it on the chain, and that *)
(* every sweep ever posted keeps clear of the deposits the journals and    *)
(* the other sweeps spend.                                                 *)
(***************************************************************************)
EXTENDS SourceSweep, FiniteSetTheorems, WellFoundedInduction, TLAPS

SweepJournals ==
  [stage  : {none, "Prepared", "SubmissionArmed", "Observed"},
   inputs : SUBSET Output,
   policy : Policy \cup {none}]

FundingJournals ==
  [stage : {none, "Prepared", "Secured"}, inputs : SUBSET Output]

Transactions ==
  [by : {"sweep", "fund"}, inputs : (SUBSET Output) \ {{}},
   policy : Policy \cup {none}]

(* A journal that is there spends something, one that is not does not. *)
JournalInv ==
  /\ mem = disk
  /\ disk \in [sweep : SweepJournals, funding : FundingJournals]
  /\ disk.sweep.stage = none <=> disk.sweep.inputs = {}
  /\ disk.funding.stage = none <=> disk.funding.inputs = {}
  /\ disk.sweep.inputs \cap disk.funding.inputs = {}

NetworkInv ==
  /\ sent \subseteq Transactions
  /\ posted \subseteq sent
  /\ DOMAIN status \subseteq sent
  /\ status \in [DOMAIN status -> {"mempool", "confirmed", "final"}]
  /\ arrived \subseteq 1 .. Deposits

(* What the command has found out before each of its steps. *)
ControlInv ==
  /\ pc \in {"idle", "look", "gather", "more", "validate", "send", "confirm",
             "select", "check_source", "secure", "broadcast"}
  /\ pc \in {"look", "gather", "more", "validate", "send", "confirm"} => arg \in Policy
  /\ pc \in {"look", "more", "validate", "send", "confirm"} =>
       disk.sweep.stage # none
  /\ pc = "gather" => ~ Armed(disk.sweep)
  /\ pc = "more" => /\ Observed(SweepOf(disk.sweep))
                    /\ IsFinal(SweepOf(disk.sweep))
  /\ pc \in {"send", "confirm"} => Armed(disk.sweep)
  /\ pc = "select" => disk.funding.stage = none
  /\ pc \in {"check_source", "secure"} => disk.funding.stage # none
  /\ pc = "broadcast" => disk.funding.stage = "Secured"

(* There is one funding transaction: a funding journal is not replaced. *)
FundInv ==
  \A t \in sent : t.by = "fund" =>
    disk.funding.stage # none /\ t = FundingOf(disk.funding)

(* What spends the change is final only after the funding that makes it. *)
OrderInv ==
  \A u \in DOMAIN status : 0 \in u.inputs =>
    \E f \in DOMAIN status :
      f.by = "fund" /\ (status[u] = "final" => status[f] = "final")

(* A sweep that was posted shares no input with another one, with the      *)
(* sweep that is saved, or with the funding.                               *)
ApartInv ==
  \A t \in sent : t.by = "sweep" =>
    /\ t # SweepOf(disk.sweep) => t.inputs \cap disk.sweep.inputs = {}
    /\ t.inputs \cap disk.funding.inputs = {}
    /\ \A u \in sent : u.by = "sweep" /\ u # t => t.inputs \cap u.inputs = {}

Inv ==
  /\ JournalInv /\ NetworkInv /\ ControlInv /\ FundInv /\ OrderInv /\ ApartInv
  /\ SentIsJournaled

-----------------------------------------------------------------------------
(* `SourceSweepInputs` are the largest outputs, at most a batch of them:   *)
(* when there is an output to sweep, the batch is not empty.               *)
LEMMA LargestIsNotEmpty ==
  ASSUME NEW outputs \in SUBSET Output, outputs # {}
  PROVE  Largest(outputs) # {}
<1> DEFINE Rest == {Deposits - o : o \in outputs}
<1>1. Deposits \in Nat /\ outputs \subseteq 0 .. Deposits
  BY SweepAssumption DEF Output
<1>2. Rest \subseteq Nat /\ Rest # {}
  <2>1. \A o \in outputs : Deposits - o \in Nat
    BY <1>1
  <2>2. PICK o \in outputs : TRUE
    OBVIOUS
  <2>3. Deposits - o \in Rest
    OBVIOUS
  <2> QED
    BY <2>1, <2>3
<1>3. PICK m \in Rest : \A n \in Rest : ~ (<<n, m>> \in OpToRel(<, Nat))
  <2> HIDE DEF Rest
  <2> QED BY <1>2, NatLessThanWellFounded, WFMin
<1>4. PICK o \in outputs : m = Deposits - o
  OBVIOUS
<1>5. \A p \in outputs : ~ (p > o)
  <2> SUFFICES ASSUME NEW p \in outputs, p > o PROVE FALSE
    OBVIOUS
  <2>1. Deposits - p \in Rest /\ Deposits - p < m
    BY <1>1, <1>4
  <2>2. <<Deposits - p, m>> \in Nat \X Nat
    BY <1>2, <2>1
  <2> QED
    BY <1>3, <2>1, <2>2 DEF OpToRel
<1>6. Cardinality({p \in outputs : p > o}) = 0
  <2>1. {p \in outputs : p > o} = {}
    BY <1>5
  <2> QED
    BY <2>1, FS_EmptySet
<1>7. 0 < MaxBatch
  BY SweepAssumption
<1> QED
  BY <1>6, <1>7 DEF Largest

LEMMA InitInv == Init => Inv
BY DEF Init, Inv, JournalInv, NetworkInv, ControlInv, FundInv, OrderInv,
       ApartInv, SentIsJournaled, SweepJournals, FundingJournals, NoSweep,
       NoFunding, Armed, none

(* The deposits a new sweep takes are spent by no transaction the network  *)
(* has, and by no funding that is journaled.                               *)
LEMMA AvailableIsFree ==
  ASSUME Inv, NEW o \in Available
  PROVE  /\ o \in Output
         /\ o \notin disk.funding.inputs
         /\ \A t \in DOMAIN status : o \notin t.inputs
BY DEF Available, Unspent, Inv, JournalInv

(* The two steps that prepare a sweep do so when every sweep ever posted   *)
(* is final.                                                               *)
LEMMA PreparedInv ==
  ASSUME Inv, arg \in Policy, Available # {}, SaveSweep(Prepared),
         pc' = "validate", UNCHANGED <<arg, posted, arrived, status, sent>>,
         \A t \in sent : t.by = "sweep" => Observed(t) /\ IsFinal(t)
  PROVE  Inv'
<1> DEFINE batch == Largest(Available)
           sweep == [stage |-> "Prepared", inputs |-> batch, policy |-> arg]
<1>1. batch \in SUBSET Available /\ Available \in SUBSET Output
  BY DEF Largest, Available
<1>2. batch # {}
  BY <1>1, LargestIsNotEmpty
<1>3. disk' = [disk EXCEPT !.sweep = sweep] /\ mem' = disk'
  BY DEF SaveSweep, Save, Prepared, Inv, JournalInv
<1> HIDE DEF batch
<1>4. /\ sweep \in SweepJournals
      /\ sweep.stage = "Prepared" /\ sweep.inputs = batch /\ sweep.policy = arg
  BY <1>1 DEF SweepJournals
<1> HIDE DEF sweep
<1>5. /\ disk'.sweep = sweep /\ disk'.funding = disk.funding
      /\ disk' \in [sweep : SweepJournals, funding : FundingJournals]
  BY <1>3, <1>4 DEF Inv, JournalInv
<1>6. \A o \in batch : /\ o \notin disk.funding.inputs
                       /\ \A t \in DOMAIN status : o \notin t.inputs
  BY <1>1, AvailableIsFree
<1>7. JournalInv'
  BY <1>2, <1>3, <1>4, <1>5, <1>6 DEF Inv, JournalInv, none
<1>8. NetworkInv' /\ OrderInv' /\ FundInv'
  BY <1>5 DEF Inv, NetworkInv, OrderInv, FundInv, FundingOf
<1>9. ControlInv'
  BY <1>4, <1>5 DEF Inv, ControlInv, Armed, none
<1>10. ApartInv'
  BY <1>4, <1>5, <1>6 DEF Inv, ApartInv, Observed, NetworkInv
<1>11. SentIsJournaled'
  BY DEF SentIsJournaled, Observed, IsFinal
<1> QED
  BY <1>7, <1>8, <1>9, <1>10, <1>11 DEF Inv

LEMMA PrepareNextInv == ASSUME Inv, PrepareNext PROVE Inv'
BY PreparedInv
   DEF PrepareNext, Goto, Inv, ControlInv, SentIsJournaled, Observed, IsFinal

LEMMA PrepareSweepInv == ASSUME Inv, PrepareSweep PROVE Inv'
BY PreparedInv DEF PrepareSweep, Goto, Inv, ControlInv, SentIsJournaled

(* Another stage on the saved sweep changes nothing of what it spends.     *)
LEMMA StageInv ==
  ASSUME Inv, disk.sweep.stage # none,
         NEW s \in {"SubmissionArmed", "Observed"},
         SaveSweep([mem.sweep EXCEPT !.stage = s])
  PROVE  /\ JournalInv' /\ Armed(disk.sweep)'
         /\ SweepOf(disk.sweep)' = SweepOf(disk.sweep)
         /\ disk'.sweep.inputs = disk.sweep.inputs
         /\ disk'.sweep.stage = s
         /\ disk'.funding = disk.funding
<1> DEFINE sweep == [disk.sweep EXCEPT !.stage = s]
<1>1. disk' = [disk EXCEPT !.sweep = sweep] /\ mem' = disk'
  BY DEF SaveSweep, Save, Inv, JournalInv
<1>2. /\ sweep \in SweepJournals
      /\ sweep.stage = s /\ sweep.inputs = disk.sweep.inputs
      /\ sweep.policy = disk.sweep.policy
  BY DEF SweepJournals, Inv, JournalInv
<1> HIDE DEF sweep
<1>3. /\ disk'.sweep = sweep /\ disk'.funding = disk.funding
      /\ disk' \in [sweep : SweepJournals, funding : FundingJournals]
  BY <1>1, <1>2 DEF Inv, JournalInv
<1> QED
  BY <1>1, <1>2, <1>3 DEF Inv, JournalInv, Armed, SweepOf, none

(* A sweep that is seen is recorded: the command is done, or goes on to    *)
(* the next batch if the sweep is final.                                   *)
LEMMA RecordInv ==
  ASSUME Inv, NEW next \in {"idle", "more"}, pc \in {"look", "validate", "confirm"},
         RecordObserved(next), next = "more" => IsFinal(SweepOf(mem.sweep)) /\ arg' = arg,
         UNCHANGED <<posted, arrived, status, sent>>
  PROVE  Inv'
<1>1. /\ disk.sweep.stage # none /\ Observed(SweepOf(disk.sweep)) /\ pc' = next
      /\ pc = "look" => arg \in Policy
  BY DEF RecordObserved, Inv, ControlInv, JournalInv
<1>2. /\ JournalInv' /\ Armed(disk.sweep)'
      /\ SweepOf(disk.sweep)' = SweepOf(disk.sweep)
      /\ disk'.sweep.inputs = disk.sweep.inputs
      /\ disk'.sweep.stage = "Observed"
      /\ disk'.funding = disk.funding
  BY <1>1, StageInv DEF RecordObserved
<1>3. NetworkInv' /\ OrderInv' /\ FundInv' /\ ApartInv'
  BY <1>2 DEF Inv, NetworkInv, OrderInv, FundInv, FundingOf, ApartInv
<1>4. ControlInv'
  BY <1>1, <1>2 DEF Inv, ControlInv, Observed, IsFinal, none, JournalInv
<1>5. SentIsJournaled'
  BY <1>2 DEF Inv, SentIsJournaled, Observed, IsFinal
<1> QED
  BY <1>2, <1>3, <1>4, <1>5 DEF Inv

LEMMA LookInv ==
  ASSUME Inv, NextBatch \/ Wait \/ SweepAppeared \/ ConfirmSweep PROVE Inv'
<1>1. CASE NextBatch
  <2>1. /\ pc = "look" /\ RecordObserved("more") /\ IsFinal(SweepOf(mem.sweep))
        /\ UNCHANGED <<arg, posted, arrived, status, sent>>
    BY <1>1 DEF NextBatch
  <2> QED
    BY <2>1, RecordInv
<1>2. CASE Wait \/ SweepAppeared \/ ConfirmSweep
  <2>1. /\ pc \in {"look", "validate", "confirm"} /\ RecordObserved("idle")
        /\ UNCHANGED <<posted, arrived, status, sent>>
    BY <1>2 DEF Wait, SweepAppeared, ConfirmSweep
  <2> QED
    BY <2>1, RecordInv
<1> QED
  BY <1>1, <1>2

LEMMA ArmSweepInv == ASSUME Inv, ArmSweep PROVE Inv'
<1>1. /\ disk.sweep.stage # none /\ pc' = "send" /\ arg \in Policy
      /\ SaveSweep([mem.sweep EXCEPT !.stage = "SubmissionArmed"])
      /\ UNCHANGED <<arg, posted, arrived, status, sent>>
  BY DEF ArmSweep, Goto, Inv, ControlInv
<1>2. /\ JournalInv' /\ Armed(disk.sweep)'
      /\ SweepOf(disk.sweep)' = SweepOf(disk.sweep)
      /\ disk'.sweep.inputs = disk.sweep.inputs
      /\ disk'.sweep.stage = "SubmissionArmed"
      /\ disk'.funding = disk.funding
  BY <1>1, StageInv
<1>3. NetworkInv' /\ OrderInv' /\ FundInv' /\ ApartInv'
  BY <1>1, <1>2 DEF Inv, NetworkInv, OrderInv, FundInv, FundingOf, ApartInv
<1>4. ControlInv'
  BY <1>1, <1>2 DEF Inv, ControlInv, none
<1>5. SentIsJournaled'
  BY <1>1, <1>2 DEF Inv, SentIsJournaled, Observed, IsFinal
<1> QED
  BY <1>2, <1>3, <1>4, <1>5 DEF Inv

(* What a journal that is there stands for. *)
LEMMA JournaledTransactions ==
  ASSUME Inv
  PROVE  /\ SweepOf(disk.sweep).by = "sweep"
         /\ SweepOf(disk.sweep).inputs = disk.sweep.inputs
         /\ FundingOf(disk.funding).by = "fund"
         /\ FundingOf(disk.funding).inputs = disk.funding.inputs
         /\ disk.sweep.stage # none => SweepOf(disk.sweep) \in Transactions
         /\ disk.funding.stage # none => FundingOf(disk.funding) \in Transactions
<1>1. /\ disk.sweep \in SweepJournals /\ disk.funding \in FundingJournals
      /\ disk.sweep.stage # none => disk.sweep.inputs \notin {{}}
      /\ disk.funding.stage # none => disk.funding.inputs \notin {{}}
  BY DEF Inv, JournalInv
<1>2. /\ disk.sweep.inputs \in SUBSET Output
      /\ disk.sweep.policy \in Policy \cup {none}
      /\ disk.funding.inputs \in SUBSET Output
  BY <1>1 DEF SweepJournals, FundingJournals
<1>3. disk.sweep.stage # none => SweepOf(disk.sweep) \in Transactions
  BY <1>1, <1>2 DEF SweepOf, Transactions
<1>4. disk.funding.stage # none => FundingOf(disk.funding) \in Transactions
  BY <1>1, <1>2 DEF FundingOf, Transactions
<1> QED
  BY <1>3, <1>4 DEF SweepOf, FundingOf

LEMMA SubmitSweepInv == ASSUME Inv, SubmitSweep PROVE Inv'
<1> DEFINE t == SweepOf(disk.sweep)
<1>1. /\ pc = "send" /\ pc' = "confirm" /\ posted' = posted \cup {t}
      /\ sent' = sent \cup {t}
      /\ UNCHANGED <<disk, mem, arg, arrived, status>>
  BY DEF SubmitSweep, Goto, Post, Inv, JournalInv
<1>2. Armed(disk.sweep) /\ disk.sweep.stage # none
  BY <1>1 DEF Inv, ControlInv, Armed, none
<1>3. t \in Transactions /\ t.by = "sweep" /\ t.inputs = disk.sweep.inputs
  BY <1>2, JournaledTransactions
<1>4. JournalInv' /\ ControlInv' /\ OrderInv'
  BY <1>1, <1>2 DEF Inv, JournalInv, ControlInv, OrderInv, none
<1>5. SentIsJournaled'
  BY <1>1, <1>2 DEF Inv, SentIsJournaled, Observed, IsFinal
<1>6. disk.sweep.inputs \cap disk.funding.inputs = {}
  BY DEF Inv, JournalInv
<1> HIDE DEF t
<1>7. NetworkInv' /\ FundInv'
  BY <1>1, <1>3 DEF Inv, NetworkInv, FundInv
<1>8. ApartInv'
  BY <1>1, <1>3, <1>6 DEF Inv, ApartInv, t
<1> QED
  BY <1>4, <1>5, <1>7, <1>8 DEF Inv

LEMMA BroadcastFundingInv == ASSUME Inv, BroadcastFunding PROVE Inv'
<1> DEFINE t == FundingOf(disk.funding)
<1>1. /\ pc = "broadcast" /\ pc' = "idle" /\ posted' = posted \cup {t}
      /\ sent' = sent \cup {t}
      /\ UNCHANGED <<disk, mem, arrived, status>>
  BY DEF BroadcastFunding, Post, End, Inv, JournalInv
<1>2. disk.funding.stage # none
  BY <1>1 DEF Inv, ControlInv, none
<1>3. t \in Transactions /\ t.by = "fund"
  BY <1>2, JournaledTransactions
<1>4. JournalInv' /\ ControlInv' /\ OrderInv'
  BY <1>1, <1>2 DEF Inv, JournalInv, ControlInv, OrderInv, none
<1>5. FundInv'
  BY <1>1, <1>2 DEF Inv, FundInv
<1> HIDE DEF t
<1>6. NetworkInv' /\ SentIsJournaled' /\ ApartInv'
  BY <1>1, <1>3
     DEF Inv, NetworkInv, SentIsJournaled, ApartInv, Observed, IsFinal
<1> QED
  BY <1>4, <1>5, <1>6 DEF Inv

(* The source of a funding is spent by no sweep that was posted, nor by    *)
(* the sweep that is saved.                                                *)
LEMMA SelectSourceInv == ASSUME Inv, SelectSource PROVE Inv'
<1>1. PICK o \in Output :
        Source(o) /\ SaveFunding([stage |-> "Prepared", inputs |-> {o}])
  BY DEF SelectSource
<1> DEFINE funding == [stage |-> "Prepared", inputs |-> {o}]
<1>2. /\ pc = "select" /\ pc' = "check_source" /\ disk.funding.stage = none
      /\ UNCHANGED <<arg, posted, arrived, status, sent>>
  BY DEF SelectSource, Goto, Inv, ControlInv
<1>3. disk' = [disk EXCEPT !.funding = funding] /\ mem' = disk'
  BY <1>1 DEF SaveFunding, Save, Inv, JournalInv
<1>4. /\ funding \in FundingJournals /\ funding.stage = "Prepared"
      /\ funding.inputs = {o}
  BY DEF FundingJournals
<1>5. /\ o \notin disk.sweep.inputs
      /\ \A t \in DOMAIN status : o \notin t.inputs
  BY <1>1 DEF Source, SourceIn, Unspent, Inv, JournalInv
<1> HIDE DEF funding
<1>6. /\ disk'.funding = funding /\ disk'.sweep = disk.sweep
      /\ disk' \in [sweep : SweepJournals, funding : FundingJournals]
  BY <1>3, <1>4 DEF Inv, JournalInv
<1>7. \A t \in sent : t.by # "fund"
  BY <1>2 DEF Inv, FundInv
<1>8. JournalInv' /\ NetworkInv' /\ OrderInv'
  BY <1>2, <1>3, <1>4, <1>5, <1>6 DEF Inv, JournalInv, NetworkInv, OrderInv, none
<1>9. ControlInv' /\ FundInv' /\ SentIsJournaled'
  BY <1>2, <1>4, <1>6, <1>7
     DEF Inv, ControlInv, FundInv, SentIsJournaled, none, Observed, IsFinal
<1>10. \A t \in sent : t.by = "sweep" => o \notin t.inputs
  BY <1>5, JournaledTransactions DEF Inv, SentIsJournaled, Observed
<1>11. ApartInv'
  BY <1>2, <1>4, <1>6, <1>10 DEF Inv, ApartInv
<1> QED
  BY <1>8, <1>9, <1>11 DEF Inv

LEMMA SecureFundingInv == ASSUME Inv, SecureFunding PROVE Inv'
<1> DEFINE funding == [disk.funding EXCEPT !.stage = "Secured"]
<1>1. /\ pc' = "broadcast" /\ disk.funding.stage # none
      /\ disk' = [disk EXCEPT !.funding = funding] /\ mem' = disk'
      /\ UNCHANGED <<arg, posted, arrived, status, sent>>
  BY DEF SecureFunding, Goto, SaveFunding, Save, Inv, JournalInv, ControlInv
<1>2. /\ funding \in FundingJournals /\ funding.stage = "Secured"
      /\ funding.inputs = disk.funding.inputs
  BY DEF FundingJournals, Inv, JournalInv
<1> HIDE DEF funding
<1>3. /\ disk'.funding = funding /\ disk'.sweep = disk.sweep
      /\ disk' \in [sweep : SweepJournals, funding : FundingJournals]
  BY <1>1, <1>2 DEF Inv, JournalInv
<1>4. FundingOf(disk.funding)' = FundingOf(disk.funding)
  BY <1>2, <1>3 DEF FundingOf
<1>5. JournalInv' /\ NetworkInv' /\ OrderInv'
  BY <1>1, <1>2, <1>3 DEF Inv, JournalInv, NetworkInv, OrderInv, none
<1>6. ControlInv' /\ FundInv' /\ SentIsJournaled' /\ ApartInv'
  BY <1>1, <1>2, <1>3, <1>4
     DEF Inv, ControlInv, FundInv, SentIsJournaled, none, Observed, IsFinal,
         ApartInv
<1> QED
  BY <1>5, <1>6 DEF Inv

(* The steps that only move the command, or the signer. *)
LEMMA MoveInv ==
  ASSUME Inv,
         \/ Stop \/ StartFund \/ KeepSweep \/ ReplaceSweep \/ AskSigner
         \/ SignerAnswers \/ Refuse
         \/ \E policy \in Policy : StartSweep(policy)
  PROVE  Inv'
<1>1. UNCHANGED <<disk, posted, arrived, status, sent>> /\ mem' = disk'
  BY DEF Inv, JournalInv, Stop, StartFund, KeepSweep, ReplaceSweep, AskSigner,
         SignerAnswers, Refuse, StartSweep, command
<1>2. JournalInv' /\ NetworkInv' /\ OrderInv' /\ FundInv' /\ ApartInv'
  BY <1>1 DEF Inv, JournalInv, NetworkInv, OrderInv, FundInv, ApartInv
<1>3. SentIsJournaled'
  BY <1>1 DEF Inv, SentIsJournaled, Observed, IsFinal
<1>4. ControlInv'
  <2>1. CASE Stop \/ Refuse
    BY <2>1 DEF ControlInv, Stop, Refuse, End
  <2>2. CASE StartFund
    <3>1. disk.funding.stage \in {none, "Prepared", "Secured"}
      BY DEF Inv, JournalInv, FundingJournals
    <3>2. \/ disk.funding.stage = none /\ pc' = "select"
          \/ disk.funding.stage = "Prepared" /\ pc' = "check_source"
          \/ disk.funding.stage = "Secured" /\ pc' = "broadcast"
      BY <2>2, <3>1 DEF StartFund, none
    <3> QED
      BY <1>1, <3>2 DEF ControlInv, none
  <2>3. CASE KeepSweep \/ ReplaceSweep
    BY <1>1, <2>3
       DEF Inv, ControlInv, JournalInv, KeepSweep, ReplaceSweep, Goto,
           MayReplace, Armed, none
  <2>4. CASE \E policy \in Policy : StartSweep(policy)
    BY <1>1, <2>4 DEF ControlInv, StartSweep, Armed, none
  <2>5. CASE AskSigner
    BY <1>1, <2>5 DEF Inv, ControlInv, AskSigner, Goto
  <2>6. CASE SignerAnswers
    BY <1>1, <2>6
       DEF Inv, ControlInv, SignerAnswers, command, Observed, IsFinal
  <2> QED
    BY <2>1, <2>2, <2>3, <2>4, <2>5, <2>6
<1> QED
  BY <1>1, <1>2, <1>3, <1>4 DEF Inv

-----------------------------------------------------------------------------
(* The network.  What it does leaves the journals and the command alone:   *)
(* it is enough that it undoes no final sweep, and keeps what spends the   *)
(* change with the funding.                                                *)
LEMMA NetworkStepInv ==
  ASSUME Inv, UNCHANGED <<disk, command, sent>>,
         posted' \subseteq posted, arrived' \subseteq 1 .. Deposits,
         DOMAIN status' \subseteq sent,
         status' \in [DOMAIN status' -> {"mempool", "confirmed", "final"}],
         \A t \in DOMAIN status : t.by = "sweep" /\ status[t] = "final" =>
           t \in DOMAIN status' /\ status'[t] = "final",
         OrderInv'
  PROVE  Inv'
<1>1. UNCHANGED <<disk, mem, pc, arg, sent>>
  BY DEF command
<1>2. JournalInv' /\ NetworkInv' /\ FundInv' /\ ApartInv'
  BY <1>1 DEF Inv, JournalInv, NetworkInv, FundInv, ApartInv
<1>3. \A t \in DOMAIN status : t.by = "sweep" /\ IsFinal(t) => (Observed(t) /\ IsFinal(t))'
  BY DEF IsFinal, Observed
<1>4. SentIsJournaled'
  BY <1>1, <1>3 DEF Inv, SentIsJournaled, Observed
<1>5. SweepOf(disk.sweep).by = "sweep"
  BY JournaledTransactions
<1>6. ControlInv'
  BY <1>1, <1>3, <1>5 DEF Inv, ControlInv, Observed
<1> QED
  BY <1>2, <1>4, <1>6 DEF Inv

(* A transaction the network has is not taken again: its own inputs are    *)
(* spent.                                                                  *)
LEMMA AcceptInv == ASSUME Inv, NEW t \in posted, Accept(t) PROVE Inv'
<1>a. t \in Transactions
  BY DEF Inv, NetworkInv
<1>1. /\ t \in sent /\ t.inputs # {}
      /\ DOMAIN status \subseteq sent /\ arrived \subseteq 1 .. Deposits
      /\ \A u \in DOMAIN status : status[u] \in {"mempool", "confirmed", "final"}
  BY <1>a DEF Inv, NetworkInv, Transactions
<1>2. /\ UNCHANGED <<disk, command, arrived, sent>>
      /\ posted' = posted \ {t}
      /\ status' = Set(t, "mempool")
      /\ \A o \in t.inputs : Unspent(o)
  BY DEF Accept
<1>3. t \notin DOMAIN status
  BY <1>1, <1>2 DEF Unspent
<1>4. /\ DOMAIN status' = DOMAIN status \cup {t}
      /\ status'[t] = "mempool"
      /\ \A u \in DOMAIN status : status'[u] = status[u]
      /\ status' \in [DOMAIN status' -> {"mempool", "confirmed", "final"}]
  BY <1>1, <1>2, <1>3 DEF Set
<1>5. 0 \in t.inputs => \E f \in DOMAIN status : f.by = "fund"
  BY <1>1, <1>2, SweepAssumption DEF Unspent
<1>6. OrderInv'
  <2> SUFFICES ASSUME NEW u \in DOMAIN status', 0 \in u.inputs
               PROVE  \E f \in DOMAIN status' : f.by = "fund"
                        /\ (status'[u] = "final" => status'[f] = "final")
    BY DEF OrderInv
  <2>1. CASE u = t
    BY <1>4, <1>5, <2>1
  <2>2. CASE u \in DOMAIN status
    BY <1>4, <2>2 DEF Inv, OrderInv
  <2> QED
    BY <1>4, <2>1, <2>2
<1> QED
  BY <1>1, <1>2, <1>3, <1>4, <1>6, NetworkStepInv

LEMMA RejectInv == ASSUME Inv, NEW t \in posted, Reject(t) PROVE Inv'
<1>1. /\ UNCHANGED <<disk, command, arrived, status, sent>>
      /\ posted' \subseteq posted
  BY DEF Reject
<1> QED
  BY <1>1, NetworkStepInv DEF Inv, NetworkInv, OrderInv

LEMMA ConfirmInv == ASSUME Inv, NEW t \in DOMAIN status, Confirm(t) PROVE Inv'
<1> DEFINE next == IF status[t] = "mempool" THEN "confirmed" ELSE "final"
<1>1. /\ status[t] # "final" /\ status' = Set(t, next)
      /\ 0 \in t.inputs => \A u \in DOMAIN status :
           u.by = "fund" => status[u] \in {next, "final"}
      /\ UNCHANGED <<disk, command, posted, arrived, sent>>
  BY DEF Confirm
<1>2. /\ DOMAIN status \subseteq sent /\ arrived \subseteq 1 .. Deposits
      /\ \A u \in DOMAIN status : status[u] \in {"mempool", "confirmed", "final"}
  BY DEF Inv, NetworkInv
<1>3. /\ DOMAIN status' = DOMAIN status /\ status'[t] = next
      /\ \A u \in DOMAIN status : u # t => status'[u] = status[u]
      /\ status' \in [DOMAIN status' -> {"mempool", "confirmed", "final"}]
  BY <1>1, <1>2 DEF Set
<1>4. OrderInv'
  <2> SUFFICES ASSUME NEW u \in DOMAIN status, 0 \in u.inputs
               PROVE  \E f \in DOMAIN status : f.by = "fund"
                        /\ (status'[u] = "final" => status'[f] = "final")
    BY <1>3 DEF OrderInv
  <2>1. PICK f \in DOMAIN status :
          f.by = "fund" /\ (status[u] = "final" => status[f] = "final")
    BY DEF Inv, OrderInv
  <2>2. status[f] = "final" => status'[f] = "final"
    BY <1>1, <1>3
  <2>3. CASE u = t
    BY <1>1, <1>3, <2>1, <2>2, <2>3
  <2>4. CASE u # t
    BY <1>3, <2>1, <2>2, <2>4
  <2> QED
    BY <2>3, <2>4
<1> HIDE DEF next
<1> QED
  BY <1>1, <1>2, <1>3, <1>4, NetworkStepInv

(* What falls out with a transaction that is not final is not final        *)
(* either: it is the transaction itself, or spends the change of the one   *)
(* funding there is.                                                       *)
LEMMA DependentsAreNotFinal ==
  ASSUME Inv, NEW t \in DOMAIN status, status[t] # "final",
         NEW u \in Dependents(t)
  PROVE  u \in DOMAIN status /\ status[u] # "final"
<1>1. u \in DOMAIN status /\ (u = t \/ (t.by = "fund" /\ 0 \in u.inputs))
  BY DEF Dependents
<1>2. ASSUME t.by = "fund", 0 \in u.inputs PROVE status[u] # "final"
  <2>1. PICK f \in DOMAIN status :
          f.by = "fund" /\ (status[u] = "final" => status[f] = "final")
    BY <1>1, <1>2 DEF Inv, OrderInv
  <2>2. f = t
    BY <1>2, <2>1 DEF Inv, FundInv, NetworkInv
  <2> QED
    BY <2>1, <2>2
<1> QED
  BY <1>1, <1>2

(* Undo and Evict drop some of a transaction's dependents, all of them     *)
(* when the transaction goes.                                              *)
LEMMA FallOutInv ==
  ASSUME Inv, NEW t \in DOMAIN status, status[t] # "final",
         UNCHANGED <<disk, command, posted, arrived, sent>>,
         NEW lost \in {Dependents(t), Dependents(t) \ {t}},
         status' \in [DOMAIN status \ lost -> {"mempool", "confirmed", "final"}],
         \A u \in DOMAIN status' :
           status'[u] = IF u = t THEN "mempool" ELSE status[u]
  PROVE  Inv'
<1>1. /\ DOMAIN status \subseteq sent /\ arrived \subseteq 1 .. Deposits
      /\ DOMAIN status' = DOMAIN status \ lost
  BY DEF Inv, NetworkInv
<1>2. \A u \in lost : status[u] # "final"
  BY DependentsAreNotFinal
<1>3. OrderInv'
  <2> SUFFICES ASSUME NEW u \in DOMAIN status', 0 \in u.inputs
               PROVE  \E f \in DOMAIN status' : f.by = "fund"
                        /\ (status'[u] = "final" => status'[f] = "final")
    BY DEF OrderInv
  <2>1. PICK f \in DOMAIN status :
          f.by = "fund" /\ (status[u] = "final" => status[f] = "final")
    BY DEF Inv, OrderInv
  <2>2. f \in DOMAIN status'
    <3>1. CASE t.by = "fund"
      <4>1. u \in Dependents(t) /\ f = t
        BY <2>1, <3>1 DEF Dependents, Inv, FundInv, NetworkInv
      <4>2. u = t
        BY <4>1
      <4> QED
        BY <4>1, <4>2
    <3>2. CASE t.by # "fund"
      BY <2>1, <3>2 DEF Dependents
    <3> QED
      BY <3>1, <3>2
  <2>3. CASE f = t
    <3>1. status[u] # "final"
      BY <2>1, <2>3
    <3> QED
      BY <2>1, <2>2, <3>1
  <2>4. CASE f # t
    BY <2>1, <2>2, <2>4
  <2> QED
    BY <2>3, <2>4
<1>4. \A u \in DOMAIN status : status[u] = "final" =>
        u \in DOMAIN status' /\ status'[u] = "final"
  BY <1>2
<1> QED
  BY <1>1, <1>3, <1>4, NetworkStepInv

LEMMA UndoInv == ASSUME Inv, NEW t \in DOMAIN status, Undo(t) PROVE Inv'
<1>1. \A u \in DOMAIN status : status[u] \in {"mempool", "confirmed", "final"}
  BY DEF Inv, NetworkInv
<1> QED
  BY <1>1, FallOutInv DEF Undo, Without

LEMMA EvictInv == ASSUME Inv, NEW t \in DOMAIN status, Evict(t) PROVE Inv'
<1>1. \A u \in DOMAIN status : status[u] \in {"mempool", "confirmed", "final"}
  BY DEF Inv, NetworkInv
<1>2. t \in Dependents(t)
  BY DEF Dependents
<1> QED
  BY <1>1, <1>2, FallOutInv DEF Evict, Without

LEMMA DepositInv ==
  ASSUME Inv, NEW o \in 1 .. Deposits, Deposit(o) \/ LoseDeposit(o) PROVE Inv'
<1>1. /\ UNCHANGED <<disk, command, posted, status, sent>>
      /\ arrived' \subseteq 1 .. Deposits
  BY DEF Deposit, LoseDeposit, Inv, NetworkInv
<1> QED
  BY <1>1, NetworkStepInv DEF Inv, NetworkInv, OrderInv

LEMMA NextInv == ASSUME Inv, [Next]_vars PROVE Inv'
<1>1. CASE Step
  BY <1>1, LookInv, PrepareNextInv, MoveInv, PrepareSweepInv, ArmSweepInv,
     SubmitSweepInv, SelectSourceInv, SecureFundingInv, BroadcastFundingInv
     DEF Step
<1>2. CASE Stop \/ StartFund \/ SignerAnswers \/ \E policy \in Policy : StartSweep(policy)
  BY <1>2, MoveInv
<1>3. CASE Handle \/ \E t \in posted : Reject(t)
  BY <1>3, AcceptInv, RejectInv DEF Handle
<1>4. CASE Chain
  BY <1>4, ConfirmInv, UndoInv, EvictInv, DepositInv DEF Chain
<1>5. CASE UNCHANGED vars
  BY <1>5
     DEF vars, command, Inv, JournalInv, NetworkInv, ControlInv, FundInv,
         OrderInv, ApartInv, SentIsJournaled, Observed, IsFinal
<1> QED
  BY <1>1, <1>2, <1>3, <1>4, <1>5 DEF Next

-----------------------------------------------------------------------------
(* Inv is an invariant of SourceSweep. *)
THEOREM Invariance == Spec => []Inv
<1>1. Inv /\ [Next]_vars => Inv'
  BY NextInv
<1> QED
  BY InitInv, <1>1, PTL DEF Spec

-----------------------------------------------------------------------------
(* source_sweep truncates the outputs to a batch.  Without its smallest    *)
(* output the batch lies within what is larger than that output.           *)
LEMMA LargestIsABatch ==
  ASSUME NEW outputs \in SUBSET Output
  PROVE  Cardinality(Largest(outputs)) <= MaxBatch
<1> DEFINE batch == Largest(outputs)
<1>1. MaxBatch \in Nat /\ Deposits \in Nat
  BY SweepAssumption
<1>2. IsFiniteSet(Output) /\ outputs \subseteq Output
  BY <1>1, FS_Interval DEF Output
<1>3. batch \subseteq outputs /\ batch \subseteq Nat
  <2>1. Output \subseteq Nat
    BY <1>1 DEF Output
  <2>2. batch \subseteq outputs
    BY DEF Largest
  <2> QED
    BY <1>2, <2>1, <2>2
<1>4. IsFiniteSet(batch) /\ Cardinality(batch) \in Nat
  BY <1>2, <1>3, FS_Subset, FS_CardinalityType
<1>5. CASE batch = {}
  BY <1>1, <1>5, FS_EmptySet
<1>6. CASE batch # {}
  <2> HIDE DEF batch
  <2>1. PICK m \in batch : \A n \in batch : ~ (<<n, m>> \in OpToRel(<, Nat))
    BY <1>3, <1>6, NatLessThanWellFounded, WFMin
  <2> DEFINE above == {p \in outputs : p > m}
  <2>2. batch \ {m} \subseteq above
    <3> SUFFICES ASSUME NEW n \in batch, n # m PROVE n \in above
      OBVIOUS
    <3>1. <<n, m>> \in Nat \X Nat /\ ~ (n < m)
      BY <1>3, <2>1 DEF OpToRel
    <3> QED
      BY <1>3, <3>1
  <2>3. IsFiniteSet(above) /\ Cardinality(above) \in Nat
    BY <1>2, FS_Subset, FS_CardinalityType
  <2>4. Cardinality(above) < MaxBatch
    BY DEF batch, Largest
  <2>5. Cardinality(batch \ {m}) = Cardinality(batch) - 1
    BY <1>4, FS_RemoveElement
  <2>6. Cardinality(batch \ {m}) <= Cardinality(above)
    BY <2>2, <2>3, FS_Subset
  <2> HIDE DEF above
  <2> QED
    BY <1>1, <1>4, <2>3, <2>4, <2>5, <2>6 DEF batch
<1> QED
  BY <1>5, <1>6

LEMMA TypeStep == ASSUME Inv, TypeOK, Inv', [Next]_vars PROVE TypeOK'
<1> DEFINE SweepOK == disk.sweep = NoSweep
             \/ /\ disk.sweep.stage \in {"Prepared", "SubmissionArmed", "Observed"}
                /\ disk.sweep.inputs \in (SUBSET Output) \ {{}}
                /\ Cardinality(disk.sweep.inputs) <= MaxBatch
                /\ disk.sweep.policy \in Policy
           FundingOK == disk.funding = NoFunding
             \/ /\ disk.funding.stage \in {"Prepared", "Secured"}
                /\ Cardinality(disk.funding.inputs) = 1
           ArgOK == pc = "idle" => arg = none
<1>0. (signer \in {none, "asked", "answered"})'
  BY DEF TypeOK, Next, Step, NextBatch, Wait, PrepareNext, KeepSweep,
         ReplaceSweep, PrepareSweep, SweepAppeared, ArmSweep, SubmitSweep,
         ConfirmSweep, SelectSource, AskSigner, SecureFunding,
         BroadcastFunding, Refuse, Stop, StartFund, StartSweep, SignerAnswers,
         Handle, Accept, Reject, Chain, Confirm, Undo, Evict, Deposit,
         LoseDeposit, vars
<1>1. SweepOK /\ FundingOK /\ ArgOK
  BY DEF TypeOK
<1>2. SweepOK' /\ FundingOK' /\ ArgOK' => TypeOK'
  BY <1>0 DEF TypeOK, Inv, JournalInv, NetworkInv
<1>3. /\ disk.sweep \in SweepJournals /\ disk.funding \in FundingJournals
      /\ disk = [sweep |-> disk.sweep, funding |-> disk.funding] /\ mem = disk
  BY DEF Inv, JournalInv
<1>4. ASSUME UNCHANGED disk, pc' = "idle" => arg' = none
      PROVE  SweepOK' /\ FundingOK' /\ ArgOK'
  BY <1>1, <1>4
<1>5. ASSUME NEW journal, SaveSweep(journal)
      PROVE  disk'.sweep = journal /\ disk'.funding = disk.funding
  BY <1>3, <1>5 DEF SaveSweep, Save
<1>6. ASSUME NEW journal, SaveFunding(journal)
      PROVE  disk'.funding = journal /\ disk'.sweep = disk.sweep
  BY <1>3, <1>6 DEF SaveFunding, Save
<1>7. CASE PrepareNext \/ PrepareSweep
  <2>1. /\ SaveSweep(Prepared) /\ Available # {} /\ pc' = "validate" /\ arg \in Policy
    BY <1>7 DEF PrepareNext, PrepareSweep, Goto, Inv, ControlInv
  <2>2. Available \in SUBSET Output
    BY DEF Available
  <2>3. PICK batch : batch = Largest(Available)
    OBVIOUS
  <2>4. batch \in (SUBSET Output) \ {{}} /\ Cardinality(batch) <= MaxBatch
    BY <2>1, <2>2, <2>3, LargestIsNotEmpty, LargestIsABatch DEF Largest
  <2>5. /\ disk'.sweep = [stage |-> "Prepared", inputs |-> batch, policy |-> arg]
        /\ disk'.funding = disk.funding
    BY <1>5, <2>1, <2>3 DEF Prepared
  <2> QED
    BY <1>1, <1>2, <2>1, <2>4, <2>5
<1>8. ASSUME NEW s \in {"SubmissionArmed", "Observed"}, disk.sweep.stage # none,
             SaveSweep([mem.sweep EXCEPT !.stage = s])
      PROVE  SweepOK' /\ FundingOK'
  <2>1. PICK sweep : sweep = [disk.sweep EXCEPT !.stage = s]
    OBVIOUS
  <2>2. /\ sweep.stage = s /\ sweep.inputs = disk.sweep.inputs
        /\ sweep.policy = disk.sweep.policy
    BY <1>3, <2>1 DEF SweepJournals
  <2>3. disk'.sweep = sweep /\ disk'.funding = disk.funding
    BY <1>3, <1>5, <1>8, <2>1
  <2>4. disk.sweep # NoSweep
    BY <1>8 DEF NoSweep
  <2> QED
    BY <1>1, <2>2, <2>3, <2>4
<1>9. CASE NextBatch \/ Wait \/ SweepAppeared \/ ConfirmSweep \/ ArmSweep
  <2>1. disk.sweep.stage # none /\ (pc' = "idle" => arg' = none)
    BY <1>9 DEF NextBatch, Wait, SweepAppeared, ConfirmSweep, ArmSweep, Goto,
       RecordObserved, Inv, ControlInv
  <2>2. \E s \in {"SubmissionArmed", "Observed"} :
          SaveSweep([mem.sweep EXCEPT !.stage = s])
    BY <1>9 DEF NextBatch, Wait, SweepAppeared, ConfirmSweep, ArmSweep,
       RecordObserved
  <2> QED
    BY <1>2, <1>8, <2>1, <2>2
<1>10. CASE SelectSource
  <2>1. PICK o \in Output : SaveFunding([stage |-> "Prepared", inputs |-> {o}])
    BY <1>10 DEF SelectSource
  <2>2. Cardinality({o}) = 1 /\ pc' = "check_source"
    BY <1>10, FS_Singleton DEF SelectSource, Goto
  <2>3. /\ disk'.funding = [stage |-> "Prepared", inputs |-> {o}]
        /\ disk'.sweep = disk.sweep
    BY <1>6, <2>1
  <2> QED
    BY <1>1, <1>2, <2>2, <2>3
<1>11. CASE SecureFunding
  <2>1. /\ SaveFunding([mem.funding EXCEPT !.stage = "Secured"])
        /\ disk.funding.stage # none /\ pc' = "broadcast"
    BY <1>11 DEF SecureFunding, Goto, Inv, ControlInv
  <2>2. PICK funding : funding = [disk.funding EXCEPT !.stage = "Secured"]
    OBVIOUS
  <2>3. funding.stage = "Secured" /\ funding.inputs = disk.funding.inputs
    BY <1>3, <2>2 DEF FundingJournals
  <2>4. disk'.funding = funding /\ disk'.sweep = disk.sweep
    BY <1>3, <1>6, <2>1, <2>2
  <2>5. disk.funding # NoFunding
    BY <2>1 DEF NoFunding
  <2> QED
    BY <1>1, <1>2, <2>1, <2>3, <2>4, <2>5
<1> HIDE DEF SweepOK, FundingOK, ArgOK
<1>12. CASE \/ KeepSweep \/ ReplaceSweep \/ SubmitSweep \/ AskSigner
           \/ BroadcastFunding \/ Refuse
  BY <1>2, <1>4, <1>12 DEF KeepSweep, ReplaceSweep, SubmitSweep, AskSigner,
     BroadcastFunding, Refuse, Goto, End
<1>13. CASE Stop \/ StartFund \/ \E policy \in Policy : StartSweep(policy)
  <2>1. CASE StartFund
    <3>1. UNCHANGED disk /\ disk.funding.stage \in {none, "Prepared", "Secured"}
      BY <1>3, <2>1 DEF StartFund, FundingJournals
    <3>2. pc' # "idle"
      BY <2>1, <3>1 DEF StartFund, none
    <3> QED
      BY <1>2, <1>4, <3>1, <3>2
  <2>2. CASE Stop \/ \E policy \in Policy : StartSweep(policy)
    BY <1>2, <1>4, <2>2 DEF Stop, StartSweep, End
  <2> QED
    BY <1>13, <2>1, <2>2
<1>14. CASE SignerAnswers \/ Handle \/ Chain \/ \E t \in posted : Reject(t)
  <2>1. UNCHANGED <<disk, pc, arg>>
    BY <1>14 DEF SignerAnswers, Handle, Chain, Accept, Reject, Confirm, Undo, Evict, Deposit,
       LoseDeposit, command
  <2>2. pc' = "idle" => arg' = none
    BY <1>1, <2>1 DEF ArgOK
  <2> QED
    BY <1>2, <1>4, <2>1, <2>2
<1>15. CASE UNCHANGED vars
  <2>1. UNCHANGED <<disk, pc, arg>> /\ (pc' = "idle" => arg' = none)
    BY <1>1, <1>15 DEF ArgOK, vars, command
  <2> QED
    BY <1>2, <1>4, <2>1
<1> QED
  BY <1>7, <1>9, <1>10, <1>11, <1>12, <1>13, <1>14, <1>15 DEF Next, Step

(* The journals are well formed, a saved sweep has no more inputs than     *)
(* build_source_sweep accepts, a funding one, and between two commands     *)
(* nothing is unsaved (TypeOK).                                            *)
THEOREM TypeCorrect == Spec => []TypeOK
<1>1. Init => TypeOK
  BY DEF Init, TypeOK
<1>2. Inv /\ Inv' /\ TypeOK /\ [Next]_vars => TypeOK'
  BY TypeStep
<1> QED
  BY <1>1, <1>2, Invariance, PTL DEF Spec

(* A sweep that left the wallet and is not final is the saved one, armed   *)
(* before it was posted: whatever is evicted, undone or lost, `coin        *)
(* source-sweep` finds in its journal the one sweep it may have to submit  *)
(* again.                                                                  *)
THEOREM SweepStaysJournaled == Spec => []SentIsJournaled
<1>1. Inv => SentIsJournaled
  BY DEF Inv
<1> QED
  BY Invariance, <1>1, PTL

(* No deposit is promised twice by the sweeps that were ever posted, the   *)
(* sweep that is armed, and the funding whose recovery is signed.          *)
THEOREM DepositsAreSpentOnce == Spec => []OneSpendPerDeposit
<1>1. ASSUME Inv PROVE OneSpendPerDeposit
  <2> DEFINE F == FundingOf(disk.funding)
             S == SweepOf(disk.sweep)
  <2>1. /\ S.by = "sweep" /\ S.inputs = disk.sweep.inputs
        /\ F.by = "fund" /\ F.inputs = disk.funding.inputs
    BY <1>1, JournaledTransactions
  <2>2. S.inputs \cap F.inputs = {}
    BY <1>1, <2>1 DEF Inv, JournalInv
  <2>3. \A t \in sent : \/ t.by = "sweep"
                        \/ t = F
    BY <1>1 DEF Inv, NetworkInv, FundInv, Transactions
  <2>4. \A t \in sent : t.by = "sweep" =>
          /\ t # S => t.inputs \cap S.inputs = {}
          /\ t.inputs \cap F.inputs = {}
          /\ \A u \in sent : u.by = "sweep" /\ u # t => t.inputs \cap u.inputs = {}
    BY <1>1, <2>1 DEF Inv, ApartInv
  <2> HIDE DEF F, S
  <2>5. \A t, u \in sent \cup {F, S} : t # u => t.inputs \cap u.inputs = {}
    <3> TAKE t, u \in sent \cup {F, S}
    <3> HAVE t # u
    <3>1. t = F \/ t = S \/ (t \in sent /\ t.by = "sweep")
      BY <2>3
    <3>2. u = F \/ u = S \/ (u \in sent /\ u.by = "sweep")
      BY <2>3
    <3> QED
      BY <2>2, <2>4, <3>1, <3>2
  <2> QED
    BY <2>5 DEF OneSpendPerDeposit, F, S
<1> QED
  BY Invariance, <1>1, PTL

=============================================================================
