----------------------------- MODULE ExitProofs -----------------------------
(***************************************************************************)
(* Theorems about Exit, for every setting, policy and delay.               *)
(*                                                                         *)
(* None of the three properties is inductive.  Inv adds what the command   *)
(* knows at each of its steps: that its copy is the saved journal, that a  *)
(* package was armed before it could be posted, that a child it has seen   *)
(* had been accepted, and how far it can come while another owner's        *)
(* recovery stands.                                                        *)
(***************************************************************************)
EXTENDS Exit, TLAPS

Message == [kind : {"package", "child"}, package : Package, awaited : BOOLEAN]

(* The values the type invariant of Exit leaves open. *)
RangeInv ==
  /\ setting \in Setting
  /\ posted \subseteq Message
  /\ confirmations \in 0 .. MaxBlocks
  /\ pc \in {"idle", "funding", "spender", "prepare", "child", "parent",
             "outspend", "alone", "absent", "complete", "send_child",
             "send_package", "await"}
  /\ standing \in Others \cup {none, "own"}

(* The command works on what it has saved; it has a package once it looks  *)
(* for a child, and an armed one once it submits.                          *)
JournalInv ==
  /\ mem = disk
  /\ pc # "idle" => arg \in Argument
  /\ pc \notin {"idle", "funding", "spender", "prepare"} => mem.stage # none
  /\ pc \in {"send_child", "send_package", "await"} => Armed(mem)

(* Nothing is on its way, taken or on the chain that was not posted, and   *)
(* the command waits for one answer.                                       *)
NetworkInv ==
  /\ \A m \in posted : m.package \in sent
  /\ \A m, n \in posted : m.awaited /\ n.awaited => m = n
  /\ accepted \subseteq sent
  /\ child.of # NoPackage => child.of \in accepted
  /\ child.confirmed => child.of # NoPackage

(* What the command takes for its child was accepted, even if it has gone. *)
SeenInv ==
  /\ seen.child => pc \in {"parent", "complete"} /\ mem.package \in accepted
  /\ pc = "complete" => seen.child

(* As long as the recovery stands that stood at the start, it is the       *)
(* spender; if it is a foreign one the command comes no further than these *)
(* steps.                                                                  *)
StandingInv ==
  /\ standing # none => standing = spend.by
  /\ standing \in Others \ Known =>
       \/ pc \in {"idle", "funding", "spender"}
       \/ /\ pc \in {"child", "parent", "absent"}
          /\ site = "resume"
          /\ ~ seen.child

Inv ==
  /\ TypeOK /\ RangeInv /\ JournalInv /\ NetworkInv /\ SeenInv /\ StandingInv
  /\ SentIsJournaled /\ ObservedWasAccepted

-----------------------------------------------------------------------------
(* A journal that is saved again keeps its package (the assignments of     *)
(* arm_submission and mark_observed).                                      *)
LEMMA StageChange ==
  ASSUME NEW j \in Journals, j.stage # none,
         NEW s \in {"Prepared", "SubmissionArmed", "Observed"}
  PROVE  /\ [j EXCEPT !.stage = s] \in Journals
         /\ [j EXCEPT !.stage = s].stage = s
         /\ [j EXCEPT !.stage = s].package = j.package
BY DEF Journals, NoJournal, none

LEMMA InitInv == Init => Inv
BY ExitAssumption
   DEF Init, Inv, TypeOK, RangeInv, JournalInv, NetworkInv, SeenInv,
       StandingInv, SentIsJournaled, ObservedWasAccepted, Journals, NoJournal,
       NoChild, NoArgument, Unseen, none, Others, Known, Armed, NoPackage

USE DEF Inv, TypeOK, RangeInv, JournalInv, NetworkInv, SeenInv, StandingInv,
        SentIsJournaled, ObservedWasAccepted, none, omitted,
        command, chain, history

LEMMA ReadFundingInv == ASSUME Inv, ReadFunding PROVE Inv'
BY DEF ReadFunding, FundingShown, Armed, Known, Others, UsesCore, IsOwner

LEMMA ReadSpenderInv == ASSUME Inv, ReadSpender PROVE Inv'
BY DEF ReadSpender, Goto, ExitFundingVerified, Armed, Known, Others, IsOwner

LEMMA KeepPackageInv == ASSUME Inv, KeepPackage PROVE Inv'
BY DEF KeepPackage, Goto, NeedsPackage, Armed, Known, Others, IsOwner

LEMMA ReadChildInv == ASSUME Inv, ReadChild PROVE Inv'
<1>1. /\ pc = "child" /\ pc' = "parent"
      /\ UNCHANGED <<disk, mem, arg, site, posted, chain, history>>
  BY DEF ReadChild, Goto
<1>2. seen'.child \in BOOLEAN /\ (seen'.child => child.of = mem.package
                                               /\ child.of # NoPackage)
  BY DEF ReadChild, ChildVisible, ChildProved, Armed
<1>3. /\ seen' \in [child : BOOLEAN, confirmations : 0 .. MaxBlocks]
      /\ seen'.child => child.of = mem.package /\ child.of # NoPackage
  BY <1>2 DEF ReadChild
<1> QED
  BY <1>1, <1>3 DEF Armed, Known, Others, IsOwner

LEMMA ReadParentInv == ASSUME Inv, ReadParent PROVE Inv'
<1>1. /\ pc = "parent"
      /\ seen.child => ParentSeen
      /\ UNCHANGED <<disk, mem, arg, site, seen, posted, chain, history>>
  BY DEF ReadParent
<1>2. \/ pc' = "complete" /\ seen.child
      \/ pc' = "outspend" /\ ~ seen.child /\ ParentSeen
      \/ pc' = "absent" /\ ~ seen.child
  BY <1>1 DEF ReadParent, Complete
<1>3. ParentSeen /\ ~ seen.child => spend.by = "own"
  BY DEF ParentSeen, ParentVisible, ParentProved, Inferred
<1> QED
  BY <1>1, <1>2, <1>3 DEF Armed, Known, Others, IsOwner

LEMMA ReadOutspendInv == ASSUME Inv, ReadOutspend PROVE Inv'
BY DEF ReadOutspend, Goto, Armed, Known, Others, IsOwner

LEMMA ResubmitInv == ASSUME Inv, Resubmit PROVE Inv'
BY DEF Resubmit, Goto, Armed, Known, Others, IsOwner

LEMMA StartInv ==
  ASSUME Inv, NEW argument \in Argument, Start(argument) PROVE Inv'
BY DEF Start, EntryPoint, Armed, Known, Others, IsOwner

LEMMA PrepareInv == ASSUME Inv, Prepare PROVE Inv'
<1>1. PICK rate \in Rate :
        Save([stage   |-> "Prepared",
              package |-> [destination |-> arg.destination, rate |-> rate]])
  BY DEF Prepare
<1>a. arg.destination \in Destination
  BY DEF Prepare, Goto, Argument
<1>2. disk' \in Journals /\ disk'.stage = "Prepared" /\ mem' = disk'
  BY <1>1, <1>a DEF Save, Journals, Package
<1>3. sent = {}
  BY DEF Prepare, NeedsPackage, Armed
<1> QED
  BY <1>2, <1>3 DEF Prepare, Goto, Armed, Known, Others, IsOwner

LEMMA MarkObservedInv == ASSUME Inv, MarkObserved PROVE Inv'
<1>1. /\ disk' = [mem EXCEPT !.stage = "Observed"] /\ mem' = disk'
      /\ pc = "complete" /\ Idle
      /\ UNCHANGED <<posted, chain, history>>
  BY DEF MarkObserved, Save
<1>2. /\ disk' \in Journals /\ disk'.stage = "Observed"
      /\ disk'.package = disk.package
  BY <1>1, StageChange
<1>3. disk.package \in accepted
  BY <1>1
<1> QED
  BY <1>1, <1>2, <1>3, ExitAssumption DEF Idle, Unseen, Armed, Known, Others, IsOwner

LEMMA ArmInv == ASSUME Inv, Arm PROVE Inv'
<1>1. /\ disk' = [mem EXCEPT !.stage = "SubmissionArmed"] /\ mem' = disk'
      /\ pc \in {"absent", "alone"} /\ MayArm
      /\ pc' \in {"send_child", "send_package"}
      /\ UNCHANGED <<arg, site, seen, posted, chain, history>>
  BY DEF Arm, Save
<1>2. /\ disk' \in Journals /\ disk'.stage = "SubmissionArmed"
      /\ disk'.package = disk.package
  BY <1>1, StageChange
<1>3. standing \notin Others \ Known
  BY <1>1 DEF MayArm
<1> QED
  BY <1>1, <1>2, <1>3 DEF Armed, Known, Others, IsOwner

LEMMA SubmitInv == ASSUME Inv, Submit PROVE Inv'
<1> DEFINE m == [kind |-> Submission(pc), package |-> mem.package, awaited |-> TRUE]
<1>1. m \in Message
  BY DEF Submit, Submission, Message, Journals, Armed, NoJournal
<1>2. /\ posted' = posted \cup {m} /\ sent' = sent \cup {disk.package}
      /\ pc \in {"send_child", "send_package"} /\ pc' = "await"
      /\ UNCHANGED <<disk, mem, arg, site, seen, chain, accepted>>
  BY DEF Submit
<1>3. \A x \in posted' : x \in posted \/ x.package = disk.package
  BY <1>2
<1>4. Armed(disk) /\ standing \notin Others \ Known
  BY <1>2
<1> HIDE DEF m
<1> QED
  BY <1>1, <1>2, <1>3, <1>4 DEF Armed, Known, Others, IsOwner

(* A command that gives up or is stopped forgets what it has seen.         *)
LEMMA StopInv == ASSUME Inv, Stop PROVE Inv'
<1>1. \A m \in Message :
        /\ [m EXCEPT !.awaited = FALSE] \in Message
        /\ ~ [m EXCEPT !.awaited = FALSE].awaited
        /\ [m EXCEPT !.awaited = FALSE].package = m.package
  BY DEF Message
<1>2. posted' = {[m EXCEPT !.awaited = FALSE] : m \in posted}
  BY DEF Stop
<1>3. posted' \subseteq Message /\ (\A m \in posted' : ~ m.awaited)
      /\ \A m \in posted' : m.package \in sent
  BY <1>1, <1>2 DEF Message
<1> QED
  BY <1>3, ExitAssumption DEF Stop, Idle, Unseen, Armed, Known, Others, IsOwner

LEMMA RefuseInv == ASSUME Inv, Refuse PROVE Inv'
BY ExitAssumption
   DEF Refuse, Idle, Unseen, CheckFails, Armed, Known, Others, IsOwner

-----------------------------------------------------------------------------
(* What the answer to a submission does to the command: nothing if it does *)
(* not wait for this one, and otherwise it ends or looks for the child.    *)
AwaitedAnswer ==
  /\ pc = "await" /\ mem' = mem
  /\ \A m \in posted' : ~ m.awaited
  /\ \/ pc' = "idle" /\ arg' = NoArgument /\ site' = none /\ seen' = Unseen
     \/ pc' = "child" /\ arg' = arg /\ site' = "confirm" /\ seen' = seen

LEMMA UnseenType == Unseen \in [child : BOOLEAN, confirmations : 0 .. MaxBlocks]
BY ExitAssumption DEF Unseen

LEMMA AnsweredEffect ==
  ASSUME Inv, NEW message \in posted, NEW next \in {"child", "error"},
         Answered(message, next)
  PROVE  /\ posted' \subseteq posted
         /\ (UNCHANGED command \/ AwaitedAnswer)
<1>1. CASE ~ message.awaited
  BY <1>1 DEF Answered
<1>2. CASE message.awaited
  <2>1. pc = "await" /\ posted' = posted \ {message}
        /\ \A m \in posted' : ~ m.awaited
    BY <1>2 DEF Answered, Message
  <2>2. CASE next = "error"
    BY <1>2, <2>1, <2>2 DEF Answered, Idle, AwaitedAnswer
  <2>3. CASE next = "child"
    BY <1>2, <2>1, <2>3 DEF Answered, AwaitedAnswer
  <2> QED
    BY <2>1, <2>2, <2>3
<1> QED
  BY <1>1, <1>2

LEMMA AcceptInv ==
  ASSUME Inv, NEW message \in posted, Accept(message) PROVE Inv'
<1>1. message.package \in Package /\ message.package \in sent
  BY DEF Message
<1>2. /\ spend' \in [by : Others' \cup {none, "own"}, confirmed : BOOLEAN]
      /\ spend'.by = "own"
      /\ child' \in [of : Package \cup {NoPackage}, confirmed : BOOLEAN,
                     spent : BOOLEAN]
      /\ child'.of = message.package
      /\ child'.confirmed = child.confirmed
      /\ accepted' = accepted \cup {message.package}
      /\ standing' = none
      /\ UNCHANGED <<setting, disk, confirmations, sent>>
  BY <1>1 DEF Accept, Others, IsOwner
<1>3. child.confirmed => message.package # NoPackage
  BY DEF Accept, Acceptable
<1>4. posted' \subseteq posted /\ (UNCHANGED command \/ AwaitedAnswer)
  BY AnsweredEffect DEF Accept
<1>5. CASE UNCHANGED command
  BY <1>1, <1>2, <1>3, <1>4, <1>5 DEF Armed, Known, Others, IsOwner
<1>6. CASE AwaitedAnswer
  <2>1. seen' \in [child : BOOLEAN, confirmations : 0 .. MaxBlocks]
        /\ ~ seen'.child
    BY <1>6, UnseenType DEF AwaitedAnswer, Unseen
  <2> QED
    BY <1>1, <1>2, <1>3, <1>4, <1>6, <2>1
       DEF AwaitedAnswer, Armed, Known, Others, IsOwner
<1> QED
  BY <1>4, <1>5, <1>6

LEMMA RejectInv ==
  ASSUME Inv, NEW message \in posted, Reject(message) PROVE Inv'
<1>1. UNCHANGED <<disk, chain, history>>
  BY DEF Reject
<1>2. posted' \subseteq posted /\ (UNCHANGED command \/ AwaitedAnswer)
  BY AnsweredEffect DEF Reject
<1>3. CASE UNCHANGED command
  BY <1>1, <1>2, <1>3 DEF Armed, Known, Others, IsOwner
<1>4. CASE AwaitedAnswer
  <2>1. seen' \in [child : BOOLEAN, confirmations : 0 .. MaxBlocks]
        /\ ~ seen'.child
    BY <1>4, UnseenType DEF AwaitedAnswer, Unseen
  <2> QED
    BY <1>1, <1>2, <1>4, <2>1
       DEF AwaitedAnswer, Armed, Known, Others, IsOwner
<1> QED
  BY <1>2, <1>3, <1>4

LEMMA MineInv == ASSUME Inv, Mine PROVE Inv'
BY ExitAssumption DEF Mine, Armed, Known, Others, IsOwner

LEMMA ConfirmSpendInv == ASSUME Inv, ConfirmSpend PROVE Inv'
<1>1. spend' \in [by : Others' \cup {none, "own"}, confirmed : BOOLEAN]
      /\ spend'.by = spend.by
  BY DEF ConfirmSpend, Others, IsOwner
<1> QED
  BY <1>1 DEF ConfirmSpend, Armed, Known, Others, IsOwner

LEMMA ConfirmChildInv == ASSUME Inv, ConfirmChild \/ SpendChild PROVE Inv'
<1>1. /\ child' \in [of : Package \cup {NoPackage}, confirmed : BOOLEAN,
                     spent : BOOLEAN]
      /\ child'.of = child.of /\ child.of # NoPackage
  BY DEF ConfirmChild, SpendChild
<1> QED
  BY <1>1 DEF ConfirmChild, SpendChild, Armed, Known, Others, IsOwner

LEMMA MineParentInv == ASSUME Inv, MineParent PROVE Inv'
BY DEF MineParent, Armed, Known, Others, IsOwner

LEMMA CompeteInv ==
  ASSUME Inv, NEW recovery \in Others, Compete(recovery) PROVE Inv'
BY DEF Compete, NoChild, Armed, Known, Others, IsOwner

LEMMA EvictInv == ASSUME Inv, Evict PROVE Inv'
BY DEF Evict, NoChild, Armed, Known, Others, IsOwner

LEMMA StutterInv == ASSUME Inv, UNCHANGED vars PROVE Inv'
BY DEF vars, Armed, Known, Others, IsOwner

-----------------------------------------------------------------------------
LEMMA NextInv == ASSUME Inv, [Next]_vars PROVE Inv'
<1>1. CASE Step
  BY <1>1, ReadFundingInv, ReadSpenderInv, PrepareInv, KeepPackageInv,
     ReadChildInv, ReadParentInv, ReadOutspendInv, MarkObservedInv,
     ResubmitInv, ArmInv, SubmitInv, RefuseInv
     DEF Step
<1>2. CASE Stop
  BY <1>2, StopInv
<1>3. CASE \E argument \in Argument : Start(argument)
  BY <1>3, StartInv
<1>4. CASE Network
  BY <1>4, AcceptInv, RejectInv, MineInv, ConfirmSpendInv, ConfirmChildInv,
     MineParentInv, EvictInv, CompeteInv
     DEF Network, Handle
<1>5. CASE UNCHANGED vars
  BY <1>5, StutterInv
<1> QED
  BY <1>1, <1>2, <1>3, <1>4, <1>5 DEF Next

HIDE DEF Inv, TypeOK, RangeInv, JournalInv, NetworkInv, SeenInv, StandingInv,
         SentIsJournaled, ObservedWasAccepted, none, omitted,
         command, chain, history

(* Whatever exit_coin_journaled, its interruptions and the network do, the *)
(* invariant holds.                                                        *)
THEOREM Invariance == Spec => []Inv
<1>1. Init => Inv
  BY InitInv
<1>2. Inv /\ [Next]_vars => Inv'
  BY NextInv
<1> QED
  BY <1>1, <1>2, PTL DEF Spec

(* The journal, the command and the chain stay well formed, so a command   *)
(* that has ended waits for no answer and has forgotten nothing it saved.  *)
THEOREM TypeCorrect == Spec => []TypeOK
<1>1. Inv => TypeOK
  BY DEF Inv
<1> QED
  BY <1>1, Invariance, PTL

(* Everything an exit ever posted is the one package of its saved journal, *)
(* which was armed first (arm_submission is saved before                   *)
(* submit_package): the coin goes to one destination.                      *)
THEOREM SentStaysJournaled == Spec => []SentIsJournaled
<1>1. Inv => SentIsJournaled
  BY DEF Inv
<1> QED
  BY <1>1, Invariance, PTL

(* mark_exit_observed writes Observed only for a package that the network  *)
(* had accepted.                                                           *)
THEOREM ObservedIsTrue == Spec => []ObservedWasAccepted
<1>1. Inv => ObservedWasAccepted
  BY DEF Inv
<1> QED
  BY <1>1, Invariance, PTL

(* verify_exit_funding keeps a former owner from posting against a newer   *)
(* owner's recovery that stood when the command started.                   *)
THEOREM NewerOwnerIsLeftAlone == Spec => []NewerOwnerIsNotContested
<1>1. Inv => NewerOwnerIsNotContested
  BY DEF Inv, RangeInv, TypeOK, StandingInv, NewerOwnerIsNotContested
<1> QED
  BY <1>1, Invariance, PTL
=============================================================================
