---------------------------- MODULE TransferProofs ----------------------------
(***************************************************************************)
(* Theorems about Transfer, for every set of wallets, every step between   *)
(* recoveries and every margin.                                            *)
(*                                                                         *)
(* The properties are not inductive: that one wallet can spend the         *)
(* authority depends on every request in the network, every cached answer  *)
(* and every package.  Inv says what each of them is in terms of signed,   *)
(* the signer's history: the n-th signature moved the coin to the handoff  *)
(* n; an owner is at the end of that history, or one before it with the    *)
(* request that was signed in its journal.                                 *)
(***************************************************************************)
EXTENDS Transfer, FiniteSetTheorems, SequenceTheorems, TLAPS

Recoveries == [key : {KEY}, sighash : [to : Wallet, delay : Nat]]

Requests ==
  [coin_id : {COIN}, current_capability : Wallet, current_handoff : Nat,
   next_capability_hash : [hash_of : Wallet],
   sighash : [to : Wallet, delay : Nat]]

Responses == [signature : Recoveries, next_handoff : Nat]

Packages == [to : Wallet, handoff : Nat, history : Seq(Recoveries)]

States ==
  [incoming : BOOLEAN, history : Seq(Recoveries), own : Nat, owner : BOOLEAN,
   handoff : Nat, pending : {none, "prepared", "responded"},
   attempt : SUBSET Requests, response : SUBSET Responses,
   outgoing : SUBSET Packages, exit : BOOLEAN]

Authorizations ==
  [coin_id : {COIN}, capability_hash : [hash_of : Wallet \cup {"initial"}],
   handoff : Nat]

Statuses ==
  {NoStatus} \cup
  [signing_pubkey : Nat, authorization : Authorizations,
   signature_count : Nat]

Steps ==
  {"idle", "begin", "observe", "recheck", "validate", "send", "await",
   "complete", "write", "accept", "accept_observe"}

Runs ==
  [pc : Steps, to : Wallet \cup {none}, status : Statuses,
   reply : SUBSET Responses, package : SUBSET Packages]

Messages == [from : Wallet, request : Requests, awaited : BOOLEAN]

RangeInv ==
  /\ signed \in Seq(Recoveries)
  /\ drawn = Len(signed)
  /\ boots \in 1 .. MaxBoots
  /\ net \subseteq Messages
  /\ wallet \in [Wallet -> States]
  /\ run \in [Wallet -> Runs]
  /\ requests \subseteq Wallet
  /\ confirmations \in 0 .. MaxBlocks
  /\ spender \in Wallet \cup {none}

-----------------------------------------------------------------------------
(* Each signature is for a delay one step below the one before, and only a *)
(* wallet that has the coin has passed it on.                              *)
ChainInv ==
  /\ Len(signed) >= 1
  /\ signed[1] = Recovery(First, InitialDelay)
  /\ \A i \in 1 .. Len(signed) - 1 :
       /\ Delay(signed[i]) = Delay(signed[i + 1]) + DELAY_STEP
       /\ Receiver(signed[i]) # Receiver(signed[i + 1])
       /\ HasCoin(Receiver(signed[i]))
  /\ \A i, j \in 1 .. Len(signed) :
       i < j => Delay(signed[i]) >= Delay(signed[j]) + DELAY_STEP

(* The request of the newest signature, and its answer. *)
LastRequest ==
  LET n == Len(signed)
  IN  SignRequest(IF n = 1 THEN "initial" ELSE Receiver(signed[n - 1]), n - 1,
                  Receiver(signed[n]), Delay(signed[n]))

LastResponse ==
  [signature |-> signed[Len(signed)], next_handoff |-> Len(signed)]

(* What the pinned signer holds; a later boot has never signed. *)
PinnedCoin ==
  [signing_key     |-> KEY,
   authorization   |-> Produced(LastRequest, LastResponse),
   signature_count |-> Len(signed),
   last            |-> {[request |-> LastRequest, response |-> LastResponse]}]

SignerInv ==
  \/ coins = [id \in {} |-> {}]
  \/ coins = [id \in {COIN} |-> PinnedCoin]
  \/ \E key \in 2 .. MaxBoots :
       coins = [id \in {COIN} |-> NewCoin(COIN, CapabilityHash("initial"), key)]

-----------------------------------------------------------------------------
(* A history is what the signer signed, up to some signature. *)
Prefix(history) ==
  /\ Len(history) \in 1 .. Len(signed)
  /\ \A i \in 1 .. Len(history) : history[i] = signed[i]

IsPackage(package) ==
  /\ Prefix(package.history)
  /\ package.handoff = Len(package.history)
  /\ package.to = Receiver(signed[Len(package.history)])

OwnerInv(w) ==
  LET state == wallet[w]
      n     == Len(signed)
  IN  /\ Prefix(state.history)
      /\ state.own = Len(state.history)
      /\ state.handoff = state.own
      /\ Receiver(signed[state.own]) = w
      /\ state.outgoing = {}
      /\ state.pending = none =>
           state.own = n /\ state.attempt = {} /\ state.response = {}
      /\ state.pending # none =>
           /\ ~ state.exit
           /\ Delay(signed[state.own]) >= DELAY_STEP
           /\ \E to \in Wallet \ {w} :
                state.attempt = {SignRequest(w, state.own, to,
                                   Delay(signed[state.own]) - DELAY_STEP)}
      /\ state.own < n =>
           state.own = n - 1 /\ state.attempt = {LastRequest}
      /\ state.pending = "prepared" => state.response = {}
      /\ state.pending = "responded" =>
           state.own < n /\ state.response = {LastResponse}

FormerInv(w) ==
  LET state == wallet[w]
  IN  /\ state.own = 1
      /\ Len(state.history) = 1
      /\ \E i \in 1 .. Len(signed) - 1 :
           state.history[1] = signed[i] /\ Receiver(signed[i]) = w
      /\ state.pending = none /\ state.attempt = {} /\ state.response = {}
      /\ \E package \in state.outgoing :
           state.outgoing = {package} /\ IsPackage(package)

WalletInv ==
  \A w \in Wallet :
    IF wallet[w].owner THEN OwnerInv(w)
    ELSE \/ wallet[w] = [EmptyWallet EXCEPT !.incoming = wallet[w].incoming]
         \/ FormerInv(w)

(* One wallet owns the coin at a time, none while a package is on its way. *)
OwnersInv ==
  /\ \A v, w \in Wallet : wallet[v].owner /\ wallet[w].owner => v = w
  /\ \A v, w \in Wallet : \A package \in wallet[v].outgoing :
       wallet[w].owner => Len(package.history) <= wallet[w].own
  /\ \/ \E w \in Wallet : wallet[w].owner
     \/ \E w \in Wallet : \E package \in wallet[w].outgoing :
          Len(package.history) = Len(signed)

EnvelopeInv ==
  \A package \in envelopes : \E w \in Wallet : package \in wallet[w].outgoing

(* A request that can still be signed is the one its owner has journaled. *)
MessageInv ==
  \A m \in net :
    /\ m.request.current_capability = m.from
    /\ m.request.current_handoff \in 1 .. Len(signed)
    /\ m.request.current_handoff = Len(signed) \/ m.awaited =>
         wallet[m.from].owner /\ wallet[m.from].attempt = {m.request}
    /\ m.awaited => run[m.from].pc = "await" /\ run[m.from].reply = {}

RunInv(w) ==
  LET state == wallet[w]
  IN  /\ run[w].pc = "idle" => run[w] = Idle
      /\ run[w].pc \in {"begin", "observe"} =>
           state.owner /\ state.pending = none /\ ~ state.exit
             /\ run[w].to \in Wallet
      /\ run[w].pc \in {"recheck", "validate", "send", "await"} =>
           state.owner /\ state.pending = "prepared"
      /\ run[w].reply # {} =>
           /\ run[w].pc = "await"
           /\ run[w].reply = {LastResponse}
           /\ state.own < Len(signed)
      /\ run[w].pc = "complete" => state.owner /\ state.pending = "responded"
      /\ run[w].pc = "write" => state.outgoing # {}
      /\ run[w].pc \in {"accept", "accept_observe"} =>
           /\ state.own = 0
           /\ \A package \in run[w].package :
                package \in envelopes /\ package.to = w

(* The funding output is spent by a recovery whose owner still has it. *)
SpendInv == spender # none => HasCoin(spender)

Inv ==
  /\ RangeInv /\ ChainInv /\ SignerInv /\ WalletInv /\ OwnersInv
  /\ EnvelopeInv /\ MessageInv /\ SpendInv
  /\ \A w \in Wallet : RunInv(w)

LEMMA TransferFacts ==
  /\ First \in Wallet /\ "none" \notin Wallet /\ "initial" \notin Wallet
  /\ DELAY_STEP \in Nat /\ DELAY_STEP > 0 /\ InitialDelay \in Nat
  /\ MaxBlocks \in Nat /\ MaxBoots \in Nat /\ MaxBoots > 0
BY WalletAssumption, DelayAssumption, TransferBounds

(* A recovery is the signature over its receiver and its delay. *)
LEMMA RecoveryIs ==
  ASSUME NEW r \in Recoveries
  PROVE  /\ r = Recovery(Receiver(r), Delay(r))
         /\ Receiver(r) \in Wallet /\ Delay(r) \in Nat
BY DEF Recoveries, Recovery, Receiver, Delay

(* What is in a list of recoveries. *)
LEMMA Listed ==
  ASSUME NEW list \in Seq(Recoveries), NEW i \in 1 .. Len(list)
  PROVE  list[i] \in Recoveries
<1> DEFINE S == Recoveries
<1>1. list \in Seq(S)
  OBVIOUS
<1> HIDE DEF S
<1>2. list[i] \in S
  BY <1>1
<1> QED
  BY <1>2 DEF S

(* Two histories of one length that are both the beginning of signed. *)
LEMMA WholePrefix ==
  ASSUME RangeInv, NEW history \in Seq(Recoveries), Prefix(history),
         Len(history) = Len(signed)
  PROVE  history = signed
<1>1. \A i \in 1 .. Len(history) : history[i] = signed[i]
  BY DEF Prefix
<1>2. signed \in Seq(Recoveries)
  BY DEF RangeInv
<1> QED
  BY <1>1, <1>2, SeqEqual

LEMMA InitInv == Init => Inv
<1> SUFFICES ASSUME Init PROVE Inv
  OBVIOUS
<1> USE TransferFacts
<1>1. Recovery(First, InitialDelay) \in Recoveries
  BY DEF Recovery, Recoveries
<1>2. /\ signed \in Seq(Recoveries) /\ Len(signed) = 1
      /\ signed[1] = Recovery(First, InitialDelay)
  BY <1>1 DEF Init
<1>3. Receiver(signed[1]) = First /\ Delay(signed[1]) = InitialDelay
  BY <1>2 DEF Receiver, Delay, Recovery
<1>4. FundedWallet \in States /\ EmptyWallet \in States
  <2>1. EmptyWallet \in States
    BY EmptySeq DEF EmptyWallet, States, none, INITIAL_HANDOFF
  <2>2. <<Recovery(First, InitialDelay)>> \in Seq(Recoveries)
    BY <1>1
  <2> QED
    BY <2>1, <2>2 DEF FundedWallet, EmptyWallet, States, none
<1>5. Idle \in Runs
  BY DEF Idle, Runs, Steps, Statuses, NoStatus, none
<1>6. RangeInv
  BY <1>2, <1>4, <1>5 DEF Init, RangeInv, none
<1>7. ChainInv
  BY <1>2, <1>3 DEF ChainInv
<1>8. FundedCoin = PinnedCoin
  BY <1>2, <1>3 DEF FundedCoin, PinnedCoin, SignedCoin, NewCoin, LastRequest,
     LastResponse, Produced, Authorization, SignRequest, INITIAL_HANDOFF
<1>9. SignerInv
  BY <1>8 DEF Init, SignerInv
<1>10. /\ wallet[First] = FundedWallet
       /\ \A w \in Wallet \ {First} : wallet[w] = EmptyWallet
  BY DEF Init
<1>11. OwnerInv(First) /\ FundedWallet.owner /\ ~ EmptyWallet.owner
  BY <1>2, <1>3, <1>10 DEF OwnerInv, FundedWallet, EmptyWallet, Prefix, none
<1>12. \A w \in Wallet \ {First} :
         wallet[w] = [EmptyWallet EXCEPT !.incoming = wallet[w].incoming]
  BY <1>10 DEF EmptyWallet
<1>13. WalletInv
  BY <1>10, <1>11, <1>12 DEF WalletInv
<1>14. OwnersInv /\ EnvelopeInv
  BY <1>10, <1>11 DEF OwnersInv, EnvelopeInv, Init, FundedWallet, EmptyWallet
<1>15. MessageInv /\ SpendInv
  BY DEF MessageInv, SpendInv, Init
<1>16. \A w \in Wallet : RunInv(w)
  BY DEF RunInv, Init, Idle
<1> QED
  BY <1>6, <1>7, <1>9, <1>13, <1>14, <1>15, <1>16 DEF Inv

-----------------------------------------------------------------------------
(* Steps that touch no journal and no signature. *)

LEMMA JournalsKept ==
  ASSUME ChainInv, WalletInv, OwnersInv, UNCHANGED <<signed, wallet>>
  PROVE  ChainInv' /\ WalletInv' /\ OwnersInv'
<1>1. ChainInv'
  BY DEF ChainInv, HasCoin
<1>2. WalletInv'
  BY DEF WalletInv, OwnerInv, FormerInv, IsPackage, Prefix, LastRequest,
     LastResponse
<1>3. OwnersInv'
  BY DEF OwnersInv
<1> QED
  BY <1>1, <1>2, <1>3

LEMMA SignerKept ==
  ASSUME SignerInv, UNCHANGED <<coins, signed>>
  PROVE  SignerInv'
BY DEF SignerInv, PinnedCoin, LastRequest, LastResponse

LEMMA RunKept ==
  ASSUME NEW w \in Wallet, RunInv(w), UNCHANGED <<signed, wallet>>,
         run'[w] = run[w], envelopes \subseteq envelopes'
  PROVE  RunInv(w)'
BY DEF RunInv, LastResponse

(* What MessageInv says of an awaited request. *)
LEMMA Awaited ==
  ASSUME MessageInv, NEW m \in net, m.awaited
  PROVE  /\ wallet[m.from].owner /\ wallet[m.from].attempt = {m.request}
         /\ run[m.from].pc = "await" /\ run[m.from].reply = {}
BY DEF MessageInv

(* A journal in which a pending operation moved on. *)
LEMMA PendingState ==
  ASSUME NEW state \in States, NEW pending \in {none, "prepared", "responded"},
         NEW attempt \in SUBSET Requests, NEW response \in SUBSET Responses
  PROVE  /\ [state EXCEPT !.pending = pending, !.attempt = attempt] \in States
         /\ [state EXCEPT !.pending = pending, !.response = response] \in States
BY DEF States

(* A step of one command that only moves it on. *)
LEMMA RunStep ==
  ASSUME Inv, NEW w \in Wallet, UNCHANGED <<signer, net, wallet, files, chain>>,
         run' = [run EXCEPT ![w] = run'[w]], run'[w] \in Runs,
         run[w].pc # "await", RunInv(w)'
  PROVE  Inv'
<1> USE DEF Inv, signer, files, chain
<1>1. run' \in [Wallet -> Runs] /\ \A v \in Wallet \ {w} : run'[v] = run[v]
  BY DEF RangeInv
<1>2. RangeInv'
  BY <1>1 DEF RangeInv
<1>3. ChainInv' /\ WalletInv' /\ OwnersInv' /\ SignerInv'
  BY JournalsKept, SignerKept
<1>4. EnvelopeInv' /\ SpendInv'
  BY DEF EnvelopeInv, SpendInv, HasCoin
<1>5. MessageInv'
  BY <1>1 DEF MessageInv, RangeInv, Messages
<1>6. \A v \in Wallet : RunInv(v)'
  BY <1>1, RunKept
<1> QED
  BY <1>2, <1>3, <1>4, <1>5, <1>6

LEMMA IdleRun == Idle \in Runs
BY DEF Idle, Runs, Steps, Statuses, NoStatus, none

(* An entry of the map of running commands, and its fields. *)
LEMMA RunShape ==
  ASSUME Inv, NEW w \in Wallet
  PROVE  /\ run[w] \in Runs
         /\ run[w] = [pc |-> run[w].pc, to |-> run[w].to,
                      status |-> run[w].status, reply |-> run[w].reply,
                      package |-> run[w].package]
BY DEF Inv, RangeInv, Runs

LEMMA EndRun ==
  ASSUME Inv, NEW w \in Wallet, End(w)
  PROVE  /\ run' = [run EXCEPT ![w] = run'[w]] /\ run'[w] = Idle
         /\ run'[w] \in Runs /\ RunInv(w)'
<1>1. run'[w] = Idle /\ run' = [run EXCEPT ![w] = run'[w]]
  BY DEF End, Inv, RangeInv
<1> QED
  BY <1>1, IdleRun DEF RunInv, Idle

LEMMA StartSignInv ==
  ASSUME Inv, NEW w \in Wallet, NEW to \in Wallet, StartSign(w, to)
  PROVE  Inv'
<1>1. PICK step \in EntryPoint(wallet[w], to) :
        run' = [run EXCEPT ![w].pc = step, ![w].to = to]
  BY DEF StartSign
<1>2. run[w].pc = "idle" /\ run[w] = Idle /\ wallet[w].own # 0
  BY DEF StartSign, At, Inv, RunInv, HasCoin
<1>3. run'[w] = [Idle EXCEPT !.pc = step, !.to = to]
  BY <1>1, <1>2 DEF Inv, RangeInv
<1>4. /\ step \in {"write", "begin", "recheck", "complete"}
      /\ step = "write" => wallet[w].outgoing # {}
      /\ step # "write" => wallet[w].outgoing = {} /\ ~ wallet[w].exit
      /\ step = "begin" => wallet[w].pending = none
      /\ step = "recheck" => wallet[w].pending = "prepared"
      /\ step = "complete" => wallet[w].pending = "responded"
  BY <1>1 DEF EntryPoint, MayBegin, none
<1>5. step # "write" => wallet[w].owner
  BY <1>2, <1>4 DEF Inv, WalletInv, FormerInv, EmptyWallet
<1>6. run'[w] \in Runs
  BY <1>3, <1>4 DEF Idle, Runs, Steps, Statuses
<1>7. RunInv(w)'
  BY <1>3, <1>4, <1>5 DEF RunInv, Idle, StartSign
<1>8. run' = [run EXCEPT ![w] = run'[w]]
  BY <1>1 DEF Inv, RangeInv
<1> QED
  BY <1>2, <1>6, <1>7, <1>8, RunStep DEF StartSign

LEMMA ReadStatusInv ==
  ASSUME Inv, NEW w \in Wallet, NEW step, NEW next, ReadStatus(w, step, next),
         <<step, next>> \in {<<"begin", "observe">>, <<"recheck", "validate">>,
                             <<"accept", "accept_observe">>}
  PROVE  Inv'
<1>1. StatusOf(coins[COIN]) \in Statuses
  <2>1. coins = [id \in {COIN} |-> PinnedCoin] => StatusOf(coins[COIN]) \in Statuses
    <3>1. Len(signed) \in 1 .. Len(signed) /\ signed[Len(signed)] \in Recoveries
      BY Listed DEF Inv, ChainInv, RangeInv
    <3> QED
      BY <3>1, RecoveryIs DEF StatusOf, PinnedCoin, Produced, LastRequest,
         LastResponse, SignRequest, Authorization, Authorizations, Statuses,
         CapabilityHash, KEY
  <2>2. ASSUME NEW key \in 2 .. MaxBoots,
               coins = [id \in {COIN} |->
                          NewCoin(COIN, CapabilityHash("initial"), key)]
        PROVE  StatusOf(coins[COIN]) \in Statuses
    BY <2>2 DEF StatusOf, NewCoin, Authorization, Authorizations, Statuses,
       CapabilityHash, INITIAL_HANDOFF
  <2> QED
    BY <2>1, <2>2 DEF Inv, SignerInv, ReadStatus, Registered
<1>2. /\ run[w].pc = step /\ run[w] \in Runs
      /\ run'[w] = [run[w] EXCEPT !.pc = next,
                                  !.status = StatusOf(coins[COIN])]
      /\ run' = [run EXCEPT ![w] = run'[w]]
  BY DEF ReadStatus, At, Inv, RangeInv
<1>3. run'[w] \in Runs
  BY <1>1, <1>2 DEF Runs, Steps
<1>4. /\ run'[w].pc = next /\ run'[w].to = run[w].to
      /\ run'[w].reply = run[w].reply /\ run'[w].package = run[w].package
  BY <1>2 DEF Runs
<1>5. /\ wallet' = wallet /\ signed' = signed /\ envelopes' = envelopes
      /\ RunInv(w)
  BY DEF ReadStatus, signer, files, Inv
<1>6. RunInv(w)'
  BY <1>2, <1>4, <1>5 DEF RunInv
<1> QED
  BY <1>2, <1>3, <1>6, RunStep DEF ReadStatus

LEMMA ValidatePendingInv ==
  ASSUME Inv, NEW w \in Wallet, ValidatePending(w)
  PROVE  Inv'
<1>1. /\ run[w].pc = "validate" /\ run[w] \in Runs
      /\ run'[w] = [run[w] EXCEPT !.pc = "send"]
      /\ run' = [run EXCEPT ![w] = run'[w]]
  BY DEF ValidatePending, At, Goto, Inv, RangeInv
<1>2. run'[w] \in Runs
  BY <1>1 DEF Runs, Steps
<1>3. RunInv(w)'
  BY <1>1 DEF RunInv, Inv, ValidatePending, Runs
<1> QED
  BY <1>1, <1>2, <1>3, RunStep DEF ValidatePending

LEMMA StartAcceptInv ==
  ASSUME Inv, NEW w \in Wallet, NEW package \in envelopes,
         StartAccept(w, package)
  PROVE  Inv'
<1>1. package \in Packages
  BY DEF Inv, EnvelopeInv, RangeInv, States
<1>2. /\ run[w].pc = "idle" /\ run[w] = Idle
      /\ run'[w] = [Idle EXCEPT !.pc = "accept", !.package = {package}]
      /\ run' = [run EXCEPT ![w] = run'[w]]
  BY DEF StartAccept, At, Inv, RangeInv, RunInv
<1>3. run'[w] \in Runs
  <2>1. {package} \in SUBSET Packages /\ "accept" \in Steps
    BY <1>1 DEF Steps
  <2>2. run'[w] = [pc |-> "accept", to |-> Idle.to, status |-> Idle.status,
                   reply |-> Idle.reply, package |-> {package}]
    BY <1>2 DEF Idle
  <2>3. /\ Idle.to \in Wallet \cup {none} /\ Idle.status \in Statuses
        /\ Idle.reply \in SUBSET Responses
    BY IdleRun DEF Runs
  <2> QED
    BY <2>1, <2>2, <2>3 DEF Runs
<1>4. /\ run'[w].pc = "accept" /\ run'[w].reply = {}
      /\ run'[w].package = {package}
  BY <1>2 DEF Idle
<1>5. RunInv(w)'
  BY <1>4 DEF RunInv, StartAccept, files, HasCoin
<1> QED
  BY <1>2, <1>3, <1>5, RunStep DEF StartAccept

LEMMA RefuseInv ==
  ASSUME Inv, NEW w \in Wallet, Refuse(w)
  PROVE  Inv'
<1>1. run[w].pc # "await"
  BY DEF Refuse, CheckFails, At
<1> QED
  BY <1>1, EndRun, RunStep DEF Refuse

LEMMA WritePackageInv ==
  ASSUME Inv, NEW w \in Wallet, WritePackage(w)
  PROVE  Inv'
<1> USE DEF Inv, signer, chain
<1>1. run[w].pc = "write" /\ UNCHANGED <<signer, net, wallet, requests, chain>>
      /\ envelopes' = envelopes \cup wallet[w].outgoing
  BY DEF WritePackage, At
<1>2. /\ run' = [run EXCEPT ![w] = Idle] /\ run'[w] = Idle
      /\ RunInv(w)' /\ run' \in [Wallet -> Runs]
      /\ \A v \in Wallet \ {w} : run'[v] = run[v]
  BY EndRun, IdleRun DEF WritePackage, End, RangeInv
<1>3. RangeInv'
  BY <1>1, <1>2 DEF RangeInv
<1>4. ChainInv' /\ WalletInv' /\ OwnersInv' /\ SignerInv'
  BY <1>1, JournalsKept, SignerKept
<1>5. EnvelopeInv' /\ SpendInv'
  BY <1>1 DEF EnvelopeInv, SpendInv, HasCoin
<1>6. MessageInv'
  BY <1>1, <1>2 DEF MessageInv, RangeInv, Messages
<1>7. \A v \in Wallet : RunInv(v)'
  BY <1>1, <1>2, RunKept
<1> QED
  BY <1>3, <1>4, <1>5, <1>6, <1>7

(* Messages a step leaves on their way may stop being awaited. *)
LEMMA NetStep ==
  ASSUME Inv, NEW w \in Wallet, UNCHANGED <<signer, wallet, files, chain>>,
         run' = [run EXCEPT ![w] = run'[w]], run'[w] \in Runs, RunInv(w)',
         net' \subseteq Messages,
         \A m \in net' : \E k \in net :
           /\ m.from = k.from /\ m.request = k.request
           /\ m.awaited => k.awaited /\ m.from # w
  PROVE  Inv'
<1> USE DEF Inv, signer, files, chain
<1>1. run' \in [Wallet -> Runs] /\ \A v \in Wallet \ {w} : run'[v] = run[v]
  BY DEF RangeInv
<1>2. RangeInv'
  BY <1>1 DEF RangeInv
<1>3. ChainInv' /\ WalletInv' /\ OwnersInv' /\ SignerInv'
  BY JournalsKept, SignerKept
<1>4. EnvelopeInv' /\ SpendInv'
  BY DEF EnvelopeInv, SpendInv, HasCoin
<1>5. MessageInv'
  <2> SUFFICES ASSUME NEW m \in net'
               PROVE  /\ m.request.current_capability = m.from
                      /\ m.request.current_handoff \in 1 .. Len(signed)
                      /\ m.request.current_handoff = Len(signed) \/ m.awaited =>
                           wallet[m.from].owner
                             /\ wallet[m.from].attempt = {m.request}
                      /\ m.awaited => run'[m.from].pc = "await"
                                     /\ run'[m.from].reply = {}
    BY DEF MessageInv
  <2>1. PICK k \in net : /\ m.from = k.from /\ m.request = k.request
                         /\ m.awaited => k.awaited /\ m.from # w
    OBVIOUS
  <2>2. m.from \in Wallet
    BY DEF Messages
  <2>3. ASSUME m.awaited
        PROVE  /\ run'[m.from].pc = "await" /\ run'[m.from].reply = {}
               /\ wallet[m.from].owner /\ wallet[m.from].attempt = {m.request}
    <3>1. k.awaited /\ m.from # w
      BY <2>1, <2>3
    <3> QED
      BY <1>1, <2>1, <2>2, <3>1, Awaited
  <2>4. /\ k.request.current_capability = k.from
        /\ k.request.current_handoff \in 1 .. Len(signed)
        /\ k.request.current_handoff = Len(signed) =>
             wallet[k.from].owner /\ wallet[k.from].attempt = {k.request}
    BY DEF MessageInv
  <2>5. m.request.current_handoff = Len(signed) =>
          wallet[m.from].owner /\ wallet[m.from].attempt = {m.request}
    BY <2>1, <2>4
  <2> QED
    BY <2>1, <2>3, <2>4, <2>5
<1>6. \A v \in Wallet : RunInv(v)'
  BY <1>1, RunKept
<1> QED
  BY <1>2, <1>3, <1>4, <1>5, <1>6

LEMMA StopInv ==
  ASSUME Inv, NEW w \in Wallet, Stop(w)
  PROVE  Inv'
<1>1. /\ End(w) /\ UNCHANGED <<signer, wallet, files, chain>>
      /\ net' = {[m EXCEPT !.awaited = m.awaited /\ m.from # w] : m \in net}
  BY DEF Stop
<1>2. /\ run' = [run EXCEPT ![w] = run'[w]] /\ run'[w] \in Runs /\ RunInv(w)'
  BY <1>1, EndRun
<1>3. ASSUME NEW m \in net'
      PROVE  \E k \in net :
               /\ m \in Messages /\ m.from = k.from /\ m.request = k.request
               /\ m.awaited => k.awaited /\ m.from # w
  <2>1. PICK k \in net : m = [k EXCEPT !.awaited = k.awaited /\ k.from # w]
    BY <1>1
  <2>2. k \in Messages
    BY DEF Inv, RangeInv
  <2>3. m = [from |-> k.from, request |-> k.request,
             awaited |-> k.awaited /\ k.from # w]
    BY <2>1, <2>2 DEF Messages
  <2>4. m \in Messages
    BY <2>2, <2>3 DEF Messages
  <2>5. m.from = k.from /\ m.request = k.request
        /\ m.awaited = (k.awaited /\ k.from # w)
    BY <2>3
  <2>6. m.awaited => k.awaited /\ m.from # w
    BY <2>5
  <2> WITNESS k \in net
  <2> QED
    BY <2>4, <2>5, <2>6
<1> QED
  BY <1>1, <1>2, <1>3, NetStep

(* Two awaited requests of one wallet are one: the one in its journal.     *)
LEMMA OneAwaited ==
  ASSUME Inv, NEW m \in net, NEW k \in net, m.awaited, k.awaited,
         m.from = k.from
  PROVE  m = k
<1>1. m \in Messages /\ k \in Messages
  BY DEF Inv, RangeInv
<1>2. {m.request} = {k.request}
  BY DEF Inv, MessageInv
<1>3. m.request = k.request
  BY <1>2
<1>4. m.awaited = TRUE /\ k.awaited = TRUE
  BY <1>1 DEF Messages
<1>5. /\ m = [from |-> m.from, request |-> m.request, awaited |-> m.awaited]
      /\ k = [from |-> k.from, request |-> k.request, awaited |-> k.awaited]
  BY <1>1 DEF Messages
<1> QED
  BY <1>3, <1>4, <1>5

LEMMA SendSignInv ==
  ASSUME Inv, NEW w \in Wallet, SendSign(w)
  PROVE  Inv'
<1> USE DEF Inv, signer, files, chain
<1>1. PICK request \in wallet[w].attempt :
        net' = net \cup {[from |-> w, request |-> request, awaited |-> TRUE]}
  BY DEF SendSign
<1>2. /\ run[w].pc = "send" /\ UNCHANGED <<signer, wallet, files, chain>>
      /\ run' = [run EXCEPT ![w].pc = "await"]
  BY DEF SendSign, At, Goto
<1>3. /\ run' = [run EXCEPT ![w] = run'[w]]
      /\ run'[w] = [run[w] EXCEPT !.pc = "await"]
      /\ \A v \in Wallet \ {w} : run'[v] = run[v]
      /\ run[w] \in Runs
  BY <1>2 DEF RangeInv
<1>4. /\ run'[w].pc = "await" /\ run'[w].reply = run[w].reply
      /\ run'[w] \in Runs
  BY <1>3 DEF Runs, Steps
<1>5. /\ wallet[w].owner /\ wallet[w].pending = "prepared" /\ run[w].reply = {}
  BY <1>2 DEF RunInv
<1>6. OwnerInv(w)
  BY <1>5 DEF WalletInv
<1>7. /\ wallet[w].attempt = {request} /\ request \in Requests
      /\ request.current_capability = w
      /\ request.current_handoff = wallet[w].own
      /\ wallet[w].own \in 1 .. Len(signed)
  <2>1. PICK to \in Wallet \ {w} :
          wallet[w].attempt = {SignRequest(w, wallet[w].own, to,
                                 Delay(signed[wallet[w].own]) - DELAY_STEP)}
    BY <1>5, <1>6 DEF OwnerInv, none
  <2>2. request \in Requests /\ wallet[w].own \in 1 .. Len(signed)
    BY <1>1, <1>6 DEF OwnerInv, Prefix, RangeInv, States
  <2> QED
    BY <1>1, <2>1, <2>2 DEF SignRequest
<1>8. RunInv(w)'
  BY <1>2, <1>4, <1>5 DEF RunInv
<1>9. \A v \in Wallet : RunInv(v)'
  BY <1>2, <1>3, <1>8, RunKept
<1>10. RangeInv'
  <2>1. [from |-> w, request |-> request, awaited |-> TRUE] \in Messages
    BY <1>7 DEF Messages
  <2> QED
    BY <1>1, <1>2, <1>3, <1>4, <2>1 DEF RangeInv
<1>11. ChainInv' /\ WalletInv' /\ OwnersInv' /\ SignerInv'
  BY <1>2, JournalsKept, SignerKept
<1>12. EnvelopeInv' /\ SpendInv'
  BY <1>2 DEF EnvelopeInv, SpendInv, HasCoin
<1>13. MessageInv'
  <2>1. ASSUME NEW m \in net
        PROVE  m.awaited => run'[m.from].pc = "await" /\ run'[m.from].reply = {}
    <3> SUFFICES ASSUME m.awaited
                 PROVE  run'[m.from].pc = "await" /\ run'[m.from].reply = {}
      OBVIOUS
    <3> QED
      BY <1>3, <1>4, <1>5, Awaited DEF RangeInv, Messages
  <2> QED
    BY <1>1, <1>2, <1>4, <1>5, <1>7, <2>1 DEF MessageInv
<1> QED
  BY <1>9, <1>10, <1>11, <1>12, <1>13

(* A cached answer is the newest signature, which its wallet waits for.    *)
LEMMA RetryInv ==
  ASSUME Inv, NEW message \in net, Retry(message)
  PROVE  Inv'
<1> USE DEF Inv, signer, files, chain
<1> DEFINE w == message.from
<1>1. /\ UNCHANGED <<signer, wallet, files, chain>>
      /\ IsRetry(coins[COIN], message.request)
      /\ Answered(message, CachedResponse(coins[COIN]))
      /\ message \in Messages /\ w \in Wallet
      /\ Registered
  BY DEF Retry, RangeInv, Messages
<1>2. coins[COIN] = PinnedCoin
  BY <1>1 DEF SignerInv, IsRetry, NewCoin, Registered
<1>3. message.request = LastRequest /\ CachedResponse(coins[COIN]) = LastResponse
  BY <1>1, <1>2 DEF IsRetry, PinnedCoin, CachedResponse
<1>4. LastResponse \in Responses
  BY Listed DEF LastResponse, Responses, RangeInv, ChainInv
<1>5. ~ message.awaited => run' = run
  BY <1>1 DEF Answered
<1>6. ASSUME message.awaited
      PROVE  /\ run' = [run EXCEPT ![w] = run'[w]]
             /\ run'[w] = [run[w] EXCEPT !.reply = {LastResponse}]
             /\ \A v \in Wallet \ {w} : run'[v] = run[v]
             /\ run[w] \in Runs
  BY <1>1, <1>3, <1>6 DEF Answered, RangeInv
<1>7. ASSUME message.awaited
      PROVE  /\ run[w].pc = "await" /\ run'[w].pc = "await"
             /\ run'[w].reply = {LastResponse}
             /\ run'[w] \in Runs /\ RunInv(w)'
  <2>1. run[w].pc = "await" /\ wallet[w].owner /\ wallet[w].attempt = {LastRequest}
    BY <1>1, <1>3, <1>7 DEF MessageInv
  <2>2. run'[w] \in Runs /\ run'[w].pc = "await"
        /\ run'[w].reply = {LastResponse}
    BY <1>4, <1>6, <1>7, <2>1 DEF Runs
  <2>3. wallet[w].pending # none
    BY <1>1, <2>1 DEF RunInv, none
  <2>4. wallet[w].own < Len(signed)
    <3>1. OwnerInv(w)
      BY <1>1, <2>1 DEF WalletInv
    <3>2. LastRequest.current_handoff = wallet[w].own
      BY <2>1, <2>3, <3>1 DEF OwnerInv, SignRequest
    <3>3. LastRequest.current_handoff = Len(signed) - 1
      BY DEF LastRequest, SignRequest
    <3> QED
      BY <3>2, <3>3 DEF RangeInv, ChainInv
  <2>5. wallet[w].pending = "prepared"
    BY <1>1, <2>1 DEF RunInv
  <2> QED
    BY <1>1, <2>1, <2>2, <2>4, <2>5 DEF RunInv, LastResponse
<1>8. \A v \in Wallet : run'[v] \in Runs /\ RunInv(v)'
  <2>1. \A v \in Wallet : v # w \/ ~ message.awaited => run'[v] = run[v]
    BY <1>5, <1>6
  <2> QED
    BY <1>1, <1>7, <2>1, RunKept DEF RangeInv
<1>9. net' = net \ {message}
  BY <1>1 DEF Answered
<1>10. run' \in [Wallet -> Runs]
  BY <1>5, <1>6, <1>8, <1>1 DEF RangeInv
<1>11. RangeInv'
  BY <1>1, <1>9, <1>10 DEF RangeInv
<1>12. ChainInv' /\ WalletInv' /\ OwnersInv' /\ SignerInv'
  BY <1>1, JournalsKept, SignerKept
<1>13. EnvelopeInv' /\ SpendInv'
  BY <1>1 DEF EnvelopeInv, SpendInv, HasCoin
<1>14. MessageInv'
  <2> SUFFICES ASSUME NEW m \in net'
               PROVE  m.awaited => run'[m.from].pc = "await"
                                     /\ run'[m.from].reply = {}
    BY <1>1, <1>9 DEF MessageInv
  <2>1. m \in net /\ m # message /\ m \in Messages
    BY <1>9 DEF RangeInv
  <2>2. m.awaited /\ message.awaited => m.from # w
    BY <2>1, OneAwaited
  <2>3. m.awaited => run'[m.from] = run[m.from]
    BY <1>5, <1>6, <2>1, <2>2 DEF Messages
  <2> SUFFICES ASSUME m.awaited
               PROVE  run'[m.from].pc = "await" /\ run'[m.from].reply = {}
    OBVIOUS
  <2> QED
    BY <2>1, <2>3, Awaited
<1> QED
  BY <1>8, <1>11, <1>12, <1>13, <1>14

LEMMA RefuseSignInv ==
  ASSUME Inv, NEW message \in net, RefuseSign(message)
  PROVE  Inv'
<1> USE DEF Inv, signer, files, chain
<1> DEFINE w == message.from
<1>1. /\ UNCHANGED <<signer, wallet, files, chain>>
      /\ net' = net \ {message}
      /\ message \in Messages /\ w \in Wallet
      /\ run' = IF message.awaited THEN [run EXCEPT ![w] = Idle] ELSE run
  BY DEF RefuseSign, RangeInv, Messages
<1>2. ~ message.awaited => run' = run
  BY <1>1
<1>3. ASSUME message.awaited
      PROVE  /\ run' = [run EXCEPT ![w] = Idle] /\ run'[w] = Idle
             /\ \A v \in Wallet \ {w} : run'[v] = run[v]
  BY <1>1, <1>3 DEF RangeInv
<1>4. \A v \in Wallet : run'[v] \in Runs /\ RunInv(v)'
  <2>1. message.awaited => RunInv(w)'
    BY <1>3 DEF RunInv, Idle
  <2>2. \A v \in Wallet : v # w \/ ~ message.awaited => run'[v] = run[v]
    BY <1>2, <1>3
  <2> QED
    BY <1>1, <1>3, <2>1, <2>2, RunKept, IdleRun DEF RangeInv
<1>5. run' \in [Wallet -> Runs]
  BY <1>1, <1>2, <1>3, <1>4 DEF RangeInv
<1>6. RangeInv'
  BY <1>1, <1>5 DEF RangeInv
<1>7. ChainInv' /\ WalletInv' /\ OwnersInv' /\ SignerInv'
  BY <1>1, JournalsKept, SignerKept
<1>8. EnvelopeInv' /\ SpendInv'
  BY <1>1 DEF EnvelopeInv, SpendInv, HasCoin
<1>9. MessageInv'
  <2> SUFFICES ASSUME NEW m \in net'
               PROVE  m.awaited => run'[m.from].pc = "await"
                                     /\ run'[m.from].reply = {}
    BY <1>1 DEF MessageInv
  <2>1. m \in net /\ m # message /\ m \in Messages
    BY <1>1 DEF RangeInv
  <2>2. m.awaited /\ message.awaited => m.from # w
    BY <2>1, OneAwaited
  <2>3. m.awaited => run'[m.from] = run[m.from]
    BY <1>2, <1>3, <2>1, <2>2 DEF Messages
  <2> SUFFICES ASSUME m.awaited
               PROVE  run'[m.from].pc = "await" /\ run'[m.from].reply = {}
    OBVIOUS
  <2> QED
    BY <2>1, <2>3, Awaited
<1> QED
  BY <1>4, <1>6, <1>7, <1>8, <1>9

(* Steps of the signer's process and of the chain. *)
LEMMA AroundInv ==
  ASSUME Inv, Restart \/ LateRegister \/ Mine
  PROVE  Inv'
<1> USE DEF Inv, signer, files, chain
<1>1. UNCHANGED <<signed, drawn, net, wallet, run, files, spender>>
  BY DEF Restart, LateRegister, Mine
<1>2. boots' \in 1 .. MaxBoots /\ confirmations' \in 0 .. MaxBlocks
  BY TransferFacts DEF Restart, LateRegister, Mine, RangeInv
<1>3. RangeInv'
  BY <1>1, <1>2 DEF RangeInv
<1>4. ChainInv' /\ WalletInv' /\ OwnersInv'
  BY <1>1, JournalsKept
<1>5. SignerInv'
  <2>1. CASE Restart
    BY <2>1 DEF Restart, SignerInv
  <2>2. CASE LateRegister
    BY <2>2 DEF LateRegister, SignerInv, RangeInv
  <2>3. CASE Mine
    BY <2>3, SignerKept DEF Mine
  <2> QED
    BY <2>1, <2>2, <2>3
<1>6. EnvelopeInv' /\ SpendInv' /\ MessageInv'
  BY <1>1 DEF EnvelopeInv, SpendInv, HasCoin, MessageInv
<1>7. \A v \in Wallet : RunInv(v)'
  BY <1>1, RunKept
<1> QED
  BY <1>3, <1>4, <1>5, <1>6, <1>7

LEMMA ConfirmExitInv ==
  ASSUME Inv, NEW w \in Wallet, ConfirmExit(w)
  PROVE  Inv'
<1> USE DEF Inv, signer, files, chain
<1>1. /\ UNCHANGED <<signer, net, wallet, run, files, confirmations>>
      /\ spender' = w /\ HasCoin(w)
  BY DEF ConfirmExit
<1>2. RangeInv'
  BY <1>1 DEF RangeInv
<1>3. ChainInv' /\ WalletInv' /\ OwnersInv' /\ SignerInv'
  BY <1>1, JournalsKept, SignerKept
<1>4. EnvelopeInv' /\ SpendInv' /\ MessageInv'
  BY <1>1 DEF EnvelopeInv, SpendInv, HasCoin, MessageInv
<1>5. \A v \in Wallet : RunInv(v)'
  BY <1>1, RunKept
<1> QED
  BY <1>2, <1>3, <1>4, <1>5

-----------------------------------------------------------------------------
(* Steps that change a journal and leave the coin where it is. *)

WalletIs(w) ==
  IF wallet[w].owner THEN OwnerInv(w)
  ELSE \/ wallet[w] = [EmptyWallet EXCEPT !.incoming = wallet[w].incoming]
       \/ FormerInv(w)

LEMMA OtherWallet ==
  ASSUME WalletInv, NEW v \in Wallet, UNCHANGED signed, wallet'[v] = wallet[v]
  PROVE  WalletIs(v)'
BY DEF WalletInv, WalletIs, OwnerInv, FormerInv, IsPackage, Prefix,
   LastRequest, LastResponse

LEMMA JournalStep ==
  ASSUME Inv, NEW w \in Wallet, UNCHANGED <<signer, net, envelopes, chain>>,
         requests' \subseteq Wallet,
         wallet' = [wallet EXCEPT ![w] = wallet'[w]], wallet'[w] \in States,
         wallet'[w].own = wallet[w].own, wallet'[w].owner = wallet[w].owner,
         wallet'[w].outgoing = wallet[w].outgoing, WalletIs(w)',
         wallet[w].attempt = {} \/ wallet'[w].attempt = wallet[w].attempt,
         run' = [run EXCEPT ![w] = run'[w]], run'[w] \in Runs, RunInv(w)',
         run'[w] = run[w] \/ run[w].pc # "await" \/ run[w].reply # {}
  PROVE  Inv'
<1> USE DEF Inv, signer, chain
<1>1. /\ wallet' \in [Wallet -> States] /\ run' \in [Wallet -> Runs]
      /\ \A v \in Wallet \ {w} : wallet'[v] = wallet[v] /\ run'[v] = run[v]
  BY DEF RangeInv
<1>2. /\ \A v \in Wallet : /\ wallet'[v].own = wallet[v].own
                          /\ wallet'[v].owner = wallet[v].owner
                          /\ wallet'[v].outgoing = wallet[v].outgoing
      /\ \A v \in Wallet : HasCoin(v)' <=> HasCoin(v)
  BY <1>1 DEF HasCoin
<1>3. RangeInv'
  BY <1>1 DEF RangeInv
<1>4. ChainInv'
  <2>1. \A i \in 1 .. Len(signed) : Receiver(signed[i]) \in Wallet
    BY Listed, RecoveryIs DEF RangeInv
  <2>2. signed' = signed /\ Len(signed) \in Nat
    BY DEF RangeInv
  <2>3. \A i \in 1 .. Len(signed) - 1 : HasCoin(Receiver(signed[i]))'
    <3> TAKE i \in 1 .. Len(signed) - 1
    <3>1. HasCoin(Receiver(signed[i])) /\ Receiver(signed[i]) \in Wallet
      BY <2>1, <2>2 DEF ChainInv
    <3>2. Receiver(signed[i])' = Receiver(signed[i])
      BY <2>2
    <3> QED
      BY <1>2, <3>1, <3>2 DEF HasCoin
  <2> QED
    BY <2>2, <2>3 DEF ChainInv
<1>5. SignerInv'
  BY SignerKept
<1>6. WalletInv'
  BY <1>1, OtherWallet DEF WalletInv, WalletIs
<1>7. OwnersInv'
  BY <1>2 DEF OwnersInv
<1>8. EnvelopeInv'
  BY <1>2 DEF EnvelopeInv
<1>9. SpendInv'
  BY <1>2 DEF SpendInv, RangeInv
<1>10. MessageInv'
  <2> SUFFICES ASSUME NEW m \in net
               PROVE  /\ m.request.current_capability = m.from
                      /\ m.request.current_handoff \in 1 .. Len(signed)
                      /\ m.request.current_handoff = Len(signed) \/ m.awaited =>
                           wallet'[m.from].owner
                             /\ wallet'[m.from].attempt = {m.request}
                      /\ m.awaited => run'[m.from].pc = "await"
                                     /\ run'[m.from].reply = {}
    BY DEF MessageInv
  <2>1. m.from \in Wallet
    BY DEF RangeInv, Messages
  <2>2. m.awaited => run'[m.from].pc = "await" /\ run'[m.from].reply = {}
    <3> SUFFICES ASSUME m.awaited
                 PROVE  run'[m.from].pc = "await" /\ run'[m.from].reply = {}
      OBVIOUS
    <3> QED
      BY <1>1, <2>1, Awaited
  <2>3. wallet[m.from].owner /\ wallet[m.from].attempt = {m.request} =>
          wallet'[m.from].owner /\ wallet'[m.from].attempt = {m.request}
    BY <1>1, <1>2, <2>1
  <2> QED
    BY <2>2, <2>3 DEF MessageInv
<1>11. \A v \in Wallet : RunInv(v)'
  <2> SUFFICES ASSUME NEW v \in Wallet \ {w} PROVE RunInv(v)'
    OBVIOUS
  <2> QED
    BY <1>1 DEF RunInv, LastResponse
<1> QED
  BY <1>3, <1>4, <1>5, <1>6, <1>7, <1>8, <1>9, <1>10, <1>11

LEMMA CreateRequestInv ==
  ASSUME Inv, NEW w \in Wallet, CreateRequest(w)
  PROVE  Inv'
<1>1. /\ run[w].pc = "idle" /\ wallet[w].own = 0 /\ wallet[w] \in States
      /\ UNCHANGED <<signer, net, run, envelopes, chain>>
      /\ requests' = requests \cup {w} /\ requests \subseteq Wallet
      /\ wallet' = [wallet EXCEPT ![w] = wallet'[w]]
      /\ wallet'[w] = [wallet[w] EXCEPT !.incoming = TRUE]
  BY DEF CreateRequest, At, HasCoin, Save, Inv, RangeInv
<1>2. wallet[w] = [EmptyWallet EXCEPT !.incoming = wallet[w].incoming]
  BY <1>1 DEF Inv, WalletInv, OwnerInv, FormerInv, Prefix
<1>3. wallet'[w] = [EmptyWallet EXCEPT !.incoming = TRUE]
  BY <1>1, <1>2 DEF EmptyWallet
<1>4. wallet'[w] \in States
  BY <1>1 DEF States
<1>5. WalletIs(w)'
  BY <1>3 DEF WalletIs, EmptyWallet
<1>6. /\ run' = [run EXCEPT ![w] = run'[w]] /\ run'[w] \in Runs
      /\ run'[w] = run[w] /\ RunInv(w)'
  BY <1>1 DEF Inv, RangeInv, RunInv, Idle
<1> QED
  BY <1>1, <1>2, <1>3, <1>4, <1>5, <1>6, JournalStep DEF EmptyWallet

LEMMA PrepareExitInv ==
  ASSUME Inv, NEW w \in Wallet, PrepareExit(w)
  PROVE  Inv'
<1>1. /\ run[w].pc = "idle" /\ wallet[w].own # 0 /\ wallet[w] \in States
      /\ wallet[w].pending = none
      /\ UNCHANGED <<signer, net, run, files, chain>>
      /\ wallet' = [wallet EXCEPT ![w] = wallet'[w]]
      /\ wallet'[w] = [wallet[w] EXCEPT !.exit = TRUE]
  BY DEF PrepareExit, At, HasCoin, Save, MayExit, Inv, RangeInv
<1>2. /\ wallet'[w].owner = wallet[w].owner /\ wallet'[w].own = wallet[w].own
      /\ wallet'[w].history = wallet[w].history
      /\ wallet'[w].handoff = wallet[w].handoff
      /\ wallet'[w].outgoing = wallet[w].outgoing
      /\ wallet'[w].attempt = wallet[w].attempt
      /\ wallet'[w].response = wallet[w].response
      /\ wallet'[w].pending = none
      /\ wallet'[w] \in States
  BY <1>1 DEF States
<1>3. WalletIs(w)'
  <2>1. signed' = signed
    BY <1>1 DEF signer
  <2>2. CASE wallet[w].owner
    BY <1>1, <1>2, <2>1, <2>2 DEF Inv, WalletInv, WalletIs, OwnerInv, Prefix,
       LastRequest, LastResponse, none
  <2>3. CASE ~ wallet[w].owner
    <3>1. FormerInv(w)
      BY <1>1, <2>3 DEF Inv, WalletInv, EmptyWallet
    <3>2. FormerInv(w)'
      BY <1>2, <2>1, <3>1 DEF FormerInv, IsPackage, Prefix
    <3> QED
      BY <1>2, <2>3, <3>2 DEF WalletIs
  <2> QED
    BY <2>2, <2>3
<1>4. /\ run' = [run EXCEPT ![w] = run'[w]] /\ run'[w] \in Runs
      /\ run'[w] = run[w] /\ RunInv(w)'
  BY <1>1 DEF Inv, RangeInv, RunInv, Idle
<1>5. requests' \subseteq Wallet /\ UNCHANGED envelopes
  BY <1>1 DEF Inv, RangeInv, files
<1> QED
  BY <1>1, <1>2, <1>3, <1>4, <1>5, JournalStep

LEMMA BeginTransferInv ==
  ASSUME Inv, NEW w \in Wallet, BeginTransfer(w)
  PROVE  Inv'
<1> DEFINE state == wallet[w]
           n == Len(signed)
           request == SignRequest(w, state.handoff, run[w].to,
                                  NextDelay(state.history))
<1>1. /\ run[w].pc = "observe" /\ run[w] \in Runs /\ state \in States
      /\ UNCHANGED <<signer, net, files, chain>> /\ CanBegin(w)
      /\ wallet' = [wallet EXCEPT ![w] = wallet'[w]]
      /\ wallet'[w] = [state EXCEPT !.pending = "prepared", !.attempt = {request}]
      /\ run' = [run EXCEPT ![w] = run'[w]]
      /\ run'[w] = [run[w] EXCEPT !.pc = "recheck"]
  BY DEF BeginTransfer, At, Goto, Save, Inv, RangeInv
<1>2. /\ state.owner /\ state.pending = none /\ ~ state.exit
      /\ run[w].to \in Wallet /\ run[w].to # w /\ run[w].reply = {}
  BY <1>1 DEF Inv, RunInv, CanBegin
<1>3. OwnerInv(w)
  BY <1>2 DEF Inv, WalletInv
<1>4. /\ state.own = n /\ state.handoff = n /\ state.attempt = {}
      /\ state.response = {} /\ Len(state.history) = n
      /\ Latest(state.history) = signed[n] /\ n \in Nat \ {0}
      /\ state.outgoing = {} /\ Receiver(signed[n]) = w
  BY <1>2, <1>3 DEF OwnerInv, Prefix, Latest, Inv, ChainInv, RangeInv
<1>5. Delay(signed[n]) \in Nat /\ Delay(signed[n]) >= DELAY_STEP
  BY <1>1, <1>4, Listed, RecoveryIs DEF CanBegin, Inv, RangeInv
<1>6. request = SignRequest(w, n, run[w].to, Delay(signed[n]) - DELAY_STEP)
  BY <1>4 DEF NextDelay
<1>7. request \in Requests
  BY <1>2, <1>4, <1>5, <1>6, TransferFacts
     DEF SignRequest, Requests, CapabilityHash
<1> HIDE DEF request, n
<1>8. /\ wallet'[w].owner /\ wallet'[w].own = state.own
      /\ wallet'[w].history = state.history /\ wallet'[w].handoff = state.handoff
      /\ wallet'[w].outgoing = state.outgoing /\ wallet'[w].response = {}
      /\ wallet'[w].attempt = {request} /\ wallet'[w].pending = "prepared"
      /\ wallet'[w].exit = state.exit /\ wallet'[w] \in States
  <2>1. /\ wallet'[w].owner = state.owner /\ wallet'[w].own = state.own
        /\ wallet'[w].history = state.history
        /\ wallet'[w].handoff = state.handoff
        /\ wallet'[w].outgoing = state.outgoing
        /\ wallet'[w].response = state.response
        /\ wallet'[w].attempt = {request} /\ wallet'[w].pending = "prepared"
        /\ wallet'[w].exit = state.exit
    BY <1>1 DEF States
  <2>2. wallet'[w] \in States
    <3>1. {request} \in SUBSET Requests /\ {} \in SUBSET Responses
      BY <1>7
    <3>2. [state EXCEPT !.pending = "prepared", !.attempt = {request}] \in States
      <4>1. PICK attempt \in SUBSET Requests : attempt = {request}
        BY <3>1
      <4>2. [state EXCEPT !.pending = "prepared", !.attempt = attempt] \in States
        BY <1>1, <3>1, PendingState
      <4> QED
        BY <4>1, <4>2
    <3> QED
      BY <1>1, <3>2
  <2> QED
    BY <1>2, <1>4, <2>1, <2>2
<1>9. WalletIs(w)'
  <2>1. signed' = signed /\ n = Len(signed) /\ Len(signed)' = n
    BY <1>1 DEF signer, n
  <2>2. \E to \in Wallet \ {w} :
          wallet'[w].attempt = {SignRequest(w, wallet'[w].own, to,
                                 Delay(signed[wallet'[w].own]) - DELAY_STEP)}
    BY <1>2, <1>4, <1>6, <1>8
  <2>3. Prefix(wallet[w].history)
    BY <1>3 DEF OwnerInv
  <2>4. Prefix(wallet[w].history)'
    BY <1>8, <2>1, <2>3 DEF Prefix
  <2>5. OwnerInv(w)'
    <3>1. /\ Prefix(wallet[w].history)' /\ wallet'[w].own = Len(wallet'[w].history)
          /\ wallet'[w].handoff = wallet'[w].own /\ wallet'[w].own = n
          /\ Receiver(signed'[wallet'[w].own]) = w
          /\ wallet'[w].outgoing = {}
      BY <1>4, <1>8, <2>1, <2>4
    <3>2. Delay(signed'[wallet'[w].own]) >= DELAY_STEP
      BY <1>4, <1>5, <1>8, <2>1
    <3>3. \E to \in Wallet \ {w} :
            wallet'[w].attempt = {SignRequest(w, wallet'[w].own, to,
                                   Delay(signed'[wallet'[w].own]) - DELAY_STEP)}
      BY <2>1, <2>2
    <3>4. ~ wallet'[w].exit
      BY <1>2, <1>8
    <3>5. /\ wallet'[w].pending # none /\ wallet'[w].pending # "responded"
          /\ wallet'[w].response = {}
      BY <1>8 DEF none
    <3>6. ~ (wallet'[w].own < Len(signed'))
      BY <1>4, <2>1, <3>1
    <3> HIDE DEF state
    <3> QED
      BY <3>1, <3>2, <3>3, <3>4, <3>5, <3>6 DEF OwnerInv
  <2> QED
    BY <1>8, <2>5 DEF WalletIs
<1>10. /\ run'[w].pc = "recheck" /\ run'[w].reply = {} /\ run'[w] \in Runs
  BY <1>1, <1>2 DEF Runs, Steps
<1>11. RunInv(w)'
  BY <1>8, <1>10 DEF RunInv
<1>12. requests' \subseteq Wallet /\ UNCHANGED envelopes
  BY <1>1 DEF Inv, RangeInv, files
<1>13. /\ wallet'[w].owner = state.owner /\ state.attempt = {}
       /\ run[w].pc # "await"
  BY <1>1, <1>2, <1>4, <1>8
<1> QED
  BY <1>1, <1>8, <1>9, <1>10, <1>11, <1>12, <1>13, JournalStep

LEMMA RecordResponseInv ==
  ASSUME Inv, NEW w \in Wallet, RecordResponse(w)
  PROVE  Inv'
<1> DEFINE state == wallet[w]
<1>1. PICK answer \in run[w].reply :
        Save(w, [state EXCEPT !.pending = "responded", !.response = {answer}])
  BY DEF RecordResponse
<1>2. /\ run[w].pc = "await" /\ run[w] \in Runs /\ state \in States
      /\ UNCHANGED <<signer, net, files, chain>>
      /\ wallet' = [wallet EXCEPT ![w] = wallet'[w]]
      /\ wallet'[w] = [state EXCEPT !.pending = "responded",
                                    !.response = {answer}]
      /\ run' = [run EXCEPT ![w] = run'[w]]
      /\ run'[w] = [run[w] EXCEPT !.pc = "complete", !.reply = {}]
  BY <1>1 DEF RecordResponse, At, Save, Inv, RangeInv
<1>3. /\ state.owner /\ state.pending = "prepared"
      /\ run[w].reply = {LastResponse} /\ state.own < Len(signed)
      /\ answer = LastResponse /\ answer \in Responses
  BY <1>1, <1>2 DEF Inv, RunInv, Runs
<1>4. OwnerInv(w)
  BY <1>3 DEF Inv, WalletInv
<1>5. /\ wallet'[w].owner = state.owner /\ wallet'[w].own = state.own
      /\ wallet'[w].history = state.history /\ wallet'[w].handoff = state.handoff
      /\ wallet'[w].outgoing = state.outgoing
      /\ wallet'[w].response = {answer} /\ wallet'[w].exit = state.exit
      /\ wallet'[w].attempt = state.attempt /\ wallet'[w].pending = "responded"
      /\ wallet'[w] \in States
  <2>1. wallet'[w] \in States
    <3>1. {answer} \in SUBSET Responses /\ {} \in SUBSET Requests
      BY <1>3
    <3>2. [state EXCEPT !.pending = "responded", !.response = {answer}] \in States
      <4>1. PICK response \in SUBSET Responses : response = {answer}
        BY <3>1
      <4>2. [state EXCEPT !.pending = "responded", !.response = response]
              \in States
        BY <1>2, <3>1, PendingState
      <4> QED
        BY <4>1, <4>2
    <3> QED
      BY <1>2, <3>2
  <2> QED
    BY <1>2, <2>1 DEF States
<1>6. WalletIs(w)'
  <2>1. signed' = signed
    BY <1>2 DEF signer
  <2> QED
    BY <1>3, <1>4, <1>5, <2>1 DEF WalletIs, OwnerInv, Prefix, LastRequest,
       LastResponse, none
<1>7. /\ run'[w].pc = "complete" /\ run'[w].reply = {} /\ run'[w] \in Runs
  BY <1>2 DEF Runs, Steps
<1>8. RunInv(w)'
  BY <1>3, <1>5, <1>7 DEF RunInv
<1>9. requests' \subseteq Wallet /\ UNCHANGED envelopes /\ run[w].reply # {}
  BY <1>2, <1>3 DEF Inv, RangeInv, files
<1> QED
  BY <1>2, <1>5, <1>6, <1>7, <1>8, <1>9, JournalStep

-----------------------------------------------------------------------------
(* Steps that move the coin. *)

(* While nobody owns the coin, nothing can be signed or is waited for.     *)
LEMMA QuietNet ==
  ASSUME Inv, NEW m \in net,
         \A w \in Wallet : wallet[w].owner => wallet[w].attempt # {m.request}
  PROVE  ~ m.awaited /\ m.request.current_handoff # Len(signed)
<1>1. m.from \in Wallet
  BY DEF Inv, RangeInv, Messages
<1>2. ~ m.awaited
  <2> SUFFICES ASSUME m.awaited PROVE FALSE
    OBVIOUS
  <2> QED
    BY <1>1, Awaited DEF Inv
<1>3. m.request.current_handoff # Len(signed)
  BY <1>1 DEF Inv, MessageInv
<1> QED
  BY <1>2, <1>3

LEMMA HandOnInv ==
  ASSUME Inv, NEW w \in Wallet, UNCHANGED <<signer, net, files, chain>>,
         wallet' = [wallet EXCEPT ![w] = wallet'[w]], wallet'[w] \in States,
         wallet'[w].own # 0, WalletIs(w)', OwnersInv', EnvelopeInv',
         \A m \in net : ~ m.awaited /\ m.request.current_handoff # Len(signed),
         run' = [run EXCEPT ![w] = run'[w]], run'[w] \in Runs, RunInv(w)'
  PROVE  Inv'
<1> USE DEF Inv, signer, files, chain
<1>1. /\ wallet' \in [Wallet -> States] /\ run' \in [Wallet -> Runs]
      /\ \A v \in Wallet \ {w} : wallet'[v] = wallet[v] /\ run'[v] = run[v]
      /\ \A v \in Wallet : HasCoin(v) => HasCoin(v)'
  BY DEF RangeInv, HasCoin
<1>2. RangeInv'
  BY <1>1 DEF RangeInv
<1>3. ChainInv'
  <2>1. signed' = signed /\ Len(signed) \in Nat
    BY DEF RangeInv
  <2>2. \A i \in 1 .. Len(signed) - 1 : HasCoin(Receiver(signed[i]))'
    <3> TAKE i \in 1 .. Len(signed) - 1
    <3>1. HasCoin(Receiver(signed[i])) /\ Receiver(signed[i]) \in Wallet
      BY <2>1, Listed, RecoveryIs DEF ChainInv, RangeInv
    <3>2. Receiver(signed[i])' = Receiver(signed[i])
      BY <2>1
    <3> QED
      BY <1>1, <3>1, <3>2 DEF HasCoin
  <2> QED
    BY <2>1, <2>2 DEF ChainInv
<1>4. SignerInv'
  BY SignerKept
<1>5. WalletInv'
  BY <1>1, OtherWallet DEF WalletInv, WalletIs
<1>6. SpendInv'
  BY <1>1 DEF SpendInv, RangeInv
<1>7. MessageInv'
  BY DEF MessageInv
<1>8. \A v \in Wallet : RunInv(v)'
  BY <1>1 DEF RunInv, LastResponse
<1> QED
  BY <1>2, <1>3, <1>4, <1>5, <1>6, <1>7, <1>8

LEMMA CompleteTransferInv ==
  ASSUME Inv, NEW w \in Wallet, CompleteTransfer(w)
  PROVE  Inv'
<1> DEFINE state == wallet[w]
           n == Len(signed)
<1>1. PICK request \in state.attempt, response \in state.response :
        Save(w, Sent(state, Package(state, request, response)))
  BY DEF CompleteTransfer
<1>1a. PICK package : package = Package(state, request, response)
  OBVIOUS
<1>2. /\ run[w].pc = "complete" /\ run[w] \in Runs /\ state \in States
      /\ UNCHANGED <<signer, net, files, chain>>
      /\ wallet' = [wallet EXCEPT ![w] = wallet'[w]]
      /\ wallet'[w] = Sent(state, Package(state, request, response))
      /\ run' = [run EXCEPT ![w] = run'[w]]
      /\ run'[w] = [run[w] EXCEPT !.pc = "write"]
      /\ signed \in Seq(Recoveries) /\ n \in Nat \ {0}
  BY <1>1 DEF CompleteTransfer, At, Save, Goto, Inv, RangeInv, ChainInv
<1>3. state.owner /\ state.pending = "responded" /\ run[w].reply = {}
  BY <1>2 DEF Inv, RunInv
<1>4. OwnerInv(w)
  BY <1>3 DEF Inv, WalletInv
<1>5. /\ state.own = n - 1 /\ state.own \in 1 .. n - 1
      /\ request = LastRequest /\ response = LastResponse
      /\ Len(state.history) = n - 1 /\ state.history \in Seq(Recoveries)
      /\ \A i \in 1 .. n - 1 : state.history[i] = signed[i]
      /\ Receiver(signed[n - 1]) = w
  BY <1>1, <1>2, <1>3, <1>4 DEF OwnerInv, Prefix, States
<1>6. signed[n] \in Recoveries /\ signed[n - 1] \in Recoveries
  BY <1>2, <1>5, Listed
<1>7. package = [to |-> Receiver(signed[n]), handoff |-> n,
                 history |-> Append(state.history, signed[n])]
  BY <1>1a, <1>5, <1>6 DEF Package, LastRequest, LastResponse, SignRequest
<1>8. /\ Append(state.history, signed[n]) \in Seq(Recoveries)
      /\ Len(Append(state.history, signed[n])) = n
      /\ \A i \in 1 .. n : Append(state.history, signed[n])[i] = signed[i]
  BY <1>2, <1>5, <1>6
<1> HIDE DEF n
<1>9. /\ package \in Packages /\ IsPackage(package)
      /\ Len(package.history) = n
  <2>1. /\ package.to = Receiver(signed[n]) /\ package.handoff = n
        /\ package.history = Append(state.history, signed[n])
    BY <1>7
  <2>2. Receiver(signed[n]) \in Wallet /\ n \in Nat
    BY <1>2, <1>6, RecoveryIs
  <2>3. package \in Packages
    <3>1. PICK history \in Seq(Recoveries) :
            history = Append(state.history, signed[n])
      BY <1>8
    <3> QED
      BY <1>7, <2>2, <3>1 DEF Packages
  <2>4. Prefix(package.history) /\ Len(package.history) = n
    BY <1>2, <1>8, <2>1 DEF Prefix, n
  <2> QED
    BY <2>1, <2>3, <2>4 DEF IsPackage
<1>10. <<signed[n - 1]>> \in Seq(Recoveries)
  BY <1>6
<1>11. /\ wallet'[w].history = <<signed[n - 1]>> /\ wallet'[w].own = 1
       /\ ~ wallet'[w].owner /\ wallet'[w].handoff = 0
       /\ wallet'[w].pending = none /\ wallet'[w].attempt = {}
       /\ wallet'[w].response = {} /\ wallet'[w].outgoing = {package}
       /\ wallet'[w].incoming = state.incoming /\ wallet'[w].exit = state.exit
       /\ wallet'[w] = [incoming |-> state.incoming,
                        history |-> <<signed[n - 1]>>, own |-> 1,
                        owner |-> FALSE, handoff |-> 0, pending |-> none,
                        attempt |-> {}, response |-> {}, outgoing |-> {package},
                        exit |-> state.exit]
  <2>1. state.history[state.own] = signed[n - 1]
    BY <1>5
  <2>2. wallet'[w] = Sent(state, package)
    BY <1>1a, <1>2
  <2>3. wallet'[w] = [incoming |-> state.incoming,
                      history |-> <<state.history[state.own]>>, own |-> 1,
                      owner |-> FALSE, handoff |-> 0, pending |-> none,
                      attempt |-> {}, response |-> {}, outgoing |-> {package},
                      exit |-> state.exit]
    BY <1>2, <2>2 DEF Sent, States, INITIAL_HANDOFF
  <2> QED
    BY <2>1, <2>3
<1>12. wallet'[w] \in States
  <2>1. state.incoming \in BOOLEAN /\ state.exit \in BOOLEAN
    BY <1>2 DEF States
  <2>2. {package} \in SUBSET Packages
    BY <1>9
  <2> QED
    BY <1>10, <1>11, <2>1, <2>2 DEF States
<1>13. \A v \in Wallet : ~ wallet'[v].owner
  BY <1>2, <1>3, <1>11 DEF Inv, OwnersInv, RangeInv
<1>14. WalletIs(w)'
  <2>1. signed' = signed /\ n = Len(signed)
    BY <1>2 DEF signer, n
  <2>2. IsPackage(package)'
    BY <1>9, <2>1 DEF IsPackage, Prefix
  <2>3. Len(wallet'[w].history) = 1 /\ wallet'[w].history[1] = signed[n - 1]
    BY <1>11
  <2>4. n - 1 \in 1 .. Len(signed') - 1 /\ Receiver(signed'[n - 1]) = w
    BY <1>5, <2>1
  <2>5. FormerInv(w)'
    BY <1>11, <2>1, <2>2, <2>3, <2>4 DEF FormerInv
  <2> QED
    BY <1>11, <2>5 DEF WalletIs
<1>15. OwnersInv'
  <2>1. Len(signed)' = n
    BY <1>2 DEF signer, n
  <2>2. package \in wallet'[w].outgoing
    BY <1>11
  <2> QED
    BY <1>9, <1>13, <2>1, <2>2 DEF OwnersInv
<1>16. EnvelopeInv'
  <2>1. state.outgoing = {} /\ envelopes' = envelopes
    BY <1>2, <1>4 DEF OwnerInv, files
  <2>2. \A v \in Wallet \ {w} : wallet'[v] = wallet[v]
    BY <1>2 DEF Inv, RangeInv
  <2> SUFFICES ASSUME NEW p \in envelopes
               PROVE  \E v \in Wallet : p \in wallet'[v].outgoing
    BY <2>1 DEF EnvelopeInv
  <2>3. PICK v \in Wallet : p \in wallet[v].outgoing
    BY DEF Inv, EnvelopeInv
  <2>4. v # w
    BY <2>1, <2>3
  <2> QED
    BY <2>2, <2>3, <2>4
<1>17. \A m \in net : ~ m.awaited /\ m.request.current_handoff # Len(signed)
  <2> TAKE m \in net
  <2>1. CASE state.attempt = {m.request}
    <3>1. m.request = LastRequest
      BY <1>1, <1>5, <2>1
    <3>2. m.request.current_handoff # Len(signed)
      BY <1>2, <3>1 DEF LastRequest, SignRequest, n
    <3>3. ASSUME m.awaited PROVE FALSE
      <4>1. run[m.from].pc = "await" /\ wallet[m.from].owner
        BY <3>3, Awaited DEF Inv
      <4>2. m.from = w
        BY <1>3, <4>1 DEF Inv, OwnersInv, RangeInv, Messages
      <4> QED
        BY <1>2, <4>1, <4>2
    <3> QED
      BY <3>2, <3>3
  <2>2. CASE state.attempt # {m.request}
    <3>1. \A v \in Wallet : wallet[v].owner => wallet[v].attempt # {m.request}
      BY <1>3, <2>2 DEF Inv, OwnersInv
    <3> QED
      BY <3>1, QuietNet
  <2> QED
    BY <2>1, <2>2
<1>18. run'[w].pc = "write" /\ run'[w].reply = {} /\ run'[w] \in Runs
  BY <1>2, <1>3 DEF Runs, Steps
<1>19. RunInv(w)'
  BY <1>11, <1>18 DEF RunInv
<1> QED
  BY <1>2, <1>11, <1>12, <1>14, <1>15, <1>16, <1>17, <1>18, <1>19, HandOnInv

(* The receiver takes the newest package: an older one was for a wallet    *)
(* that has signed since.                                                  *)
LEMMA NewestPackage ==
  ASSUME Inv, NEW w \in Wallet, NEW package \in envelopes,
         wallet[w].own = 0, package.to = w
  PROVE  /\ package \in Packages /\ Prefix(package.history)
         /\ package.handoff = Len(signed)
         /\ Len(package.history) = Len(signed)
         /\ Receiver(signed[Len(signed)]) = w
         /\ \A v \in Wallet : ~ wallet[v].owner
<1> USE DEF Inv
<1>1. PICK v \in Wallet : package \in wallet[v].outgoing
  BY DEF EnvelopeInv
<1>2. FormerInv(v)
  BY <1>1 DEF WalletInv, OwnerInv, EmptyWallet
<1>3. package \in Packages /\ IsPackage(package)
  BY <1>1, <1>2 DEF FormerInv, RangeInv, States
<1>4. /\ Len(package.history) \in 1 .. Len(signed) /\ Len(signed) \in Nat
      /\ Receiver(signed[Len(package.history)]) = w
  BY <1>3 DEF IsPackage, Prefix, RangeInv
<1>5. Len(package.history) = Len(signed)
  BY <1>4 DEF ChainInv, HasCoin
<1>6. ASSUME NEW u \in Wallet, wallet[u].owner PROVE FALSE
  <2>1. OwnerInv(u) /\ Len(package.history) <= wallet[u].own
    BY <1>1, <1>6 DEF WalletInv, OwnersInv
  <2>2. wallet[u].own = Len(signed)
    BY <1>4, <1>5, <2>1 DEF OwnerInv, Prefix
  <2>3. u = w
    BY <1>4, <1>5, <2>1, <2>2 DEF OwnerInv
  <2> QED
    BY <1>4, <2>2, <2>3
<1> QED
  BY <1>3, <1>4, <1>5, <1>6 DEF IsPackage

LEMMA AcceptTransferInv ==
  ASSUME Inv, NEW w \in Wallet, AcceptTransfer(w)
  PROVE  Inv'
<1> DEFINE state == wallet[w]
           n == Len(signed)
<1>1. PICK package \in run[w].package :
        Save(w, [wallet[w] EXCEPT !.incoming = FALSE,
                                  !.history  = package.history,
                                  !.own      = Len(package.history),
                                  !.owner    = TRUE,
                                  !.handoff  = package.handoff])
  BY DEF AcceptTransfer
<1>2. /\ run[w].pc = "accept_observe" /\ state \in States
      /\ UNCHANGED <<signer, net, files, chain>>
      /\ wallet' = [wallet EXCEPT ![w] = wallet'[w]]
      /\ wallet'[w] = [state EXCEPT !.incoming = FALSE,
                                    !.history  = package.history,
                                    !.own      = Len(package.history),
                                    !.owner    = TRUE,
                                    !.handoff  = package.handoff]
      /\ n \in Nat \ {0}
  BY <1>1 DEF AcceptTransfer, At, Save, Inv, RangeInv, ChainInv
<1>3. /\ run' = [run EXCEPT ![w] = run'[w]] /\ run'[w] \in Runs /\ RunInv(w)'
  BY EndRun DEF AcceptTransfer
<1>4. state.own = 0 /\ package \in envelopes /\ package.to = w
  BY <1>2 DEF Inv, RunInv
<1>5. /\ package \in Packages /\ Prefix(package.history)
      /\ package.handoff = n /\ Len(package.history) = n
      /\ Receiver(signed[n]) = w
      /\ \A v \in Wallet : ~ wallet[v].owner
  BY <1>4, NewestPackage
<1>6. state = [incoming |-> state.incoming, history |-> << >>, own |-> 0,
               owner |-> FALSE, handoff |-> 0, pending |-> none,
               attempt |-> {}, response |-> {}, outgoing |-> {},
               exit |-> FALSE]
  <2>1. ~ state.owner /\ ~ FormerInv(w)
    BY <1>4, <1>5 DEF FormerInv
  <2>2. state = [EmptyWallet EXCEPT !.incoming = state.incoming]
    BY <2>1 DEF Inv, WalletInv
  <2> QED
    BY <2>2 DEF EmptyWallet, INITIAL_HANDOFF
<1> HIDE DEF n
<1>7. /\ wallet'[w].history = package.history /\ wallet'[w].own = n
      /\ wallet'[w].owner /\ wallet'[w].handoff = n
      /\ wallet'[w].pending = none /\ wallet'[w].attempt = {}
      /\ wallet'[w].response = {} /\ wallet'[w].outgoing = {}
      /\ wallet'[w] = [incoming |-> FALSE, history |-> package.history,
                       own |-> n, owner |-> TRUE, handoff |-> n,
                       pending |-> none, attempt |-> {}, response |-> {},
                       outgoing |-> {}, exit |-> FALSE]
  <2>1. wallet'[w] = [incoming |-> FALSE, history |-> package.history,
                      own |-> n, owner |-> TRUE, handoff |-> n,
                      pending |-> none, attempt |-> {}, response |-> {},
                      outgoing |-> {}, exit |-> FALSE]
    <3>1. wallet'[w] = [state EXCEPT !.incoming = FALSE,
                                    !.history = package.history,
                                    !.own = n, !.owner = TRUE, !.handoff = n]
      BY <1>2, <1>5
    <3>2. /\ state.pending = none /\ state.attempt = {} /\ state.response = {}
          /\ state.outgoing = {} /\ state.exit = FALSE
      BY <1>6
    <3>3. wallet'[w] = [incoming |-> FALSE, history |-> package.history,
                        own |-> n, owner |-> TRUE, handoff |-> n,
                        pending |-> state.pending, attempt |-> state.attempt,
                        response |-> state.response,
                        outgoing |-> state.outgoing, exit |-> state.exit]
      BY <1>2, <3>1 DEF States
    <3> QED
      BY <3>2, <3>3
  <2> QED
    BY <2>1
<1>8. wallet'[w] \in States
  <2>1. PICK history \in Seq(Recoveries) : history = package.history
    BY <1>5 DEF Packages
  <2>2. wallet'[w] = [incoming |-> FALSE, history |-> history,
                      own |-> n, owner |-> TRUE, handoff |-> n,
                      pending |-> none, attempt |-> {}, response |-> {},
                      outgoing |-> {}, exit |-> FALSE]
    BY <1>7, <2>1
  <2>3. n \in Nat
    BY <1>2
  <2> QED
    BY <2>1, <2>2, <2>3 DEF States
<1>9. WalletIs(w)'
  <2>1. signed' = signed /\ n = Len(signed)
    BY <1>2 DEF signer, n
  <2>2. Prefix(wallet[w].history)'
    BY <1>5, <1>7, <2>1 DEF Prefix
  <2>3. OwnerInv(w)'
    <3>1. /\ wallet'[w].own = Len(wallet'[w].history)
          /\ wallet'[w].handoff = wallet'[w].own /\ wallet'[w].own = n
          /\ Receiver(signed'[wallet'[w].own]) = w
          /\ ~ (wallet'[w].own < Len(signed'))
      BY <1>2, <1>5, <1>7, <2>1
    <3>2. /\ wallet'[w].pending = none /\ wallet'[w].pending # "responded"
          /\ wallet'[w].pending # "prepared"
          /\ wallet'[w].attempt = {} /\ wallet'[w].response = {}
          /\ wallet'[w].outgoing = {} /\ n = Len(signed')
      BY <1>7, <2>1 DEF none
    <3> QED
      BY <2>2, <3>1, <3>2 DEF OwnerInv
  <2> QED
    BY <1>7, <2>3 DEF WalletIs
<1>10. \A v \in Wallet \ {w} : wallet'[v] = wallet[v]
  BY <1>2 DEF Inv, RangeInv
<1>11. OwnersInv'
  <2>1. \A v \in Wallet : wallet'[v].owner => v = w
    BY <1>5, <1>10
  <2>2. ASSUME NEW v \in Wallet, NEW p \in wallet'[v].outgoing
        PROVE  Len(p.history) <= n
    <3>1. v # w /\ p \in wallet[v].outgoing
      BY <1>7, <1>10, <2>2
    <3>2. FormerInv(v)
      BY <1>5, <3>1 DEF Inv, WalletInv, EmptyWallet
    <3> QED
      BY <3>1, <3>2 DEF FormerInv, IsPackage, Prefix, n
  <2> QED
    BY <1>7, <2>1, <2>2 DEF OwnersInv
<1>12. EnvelopeInv'
  <2>1. state.outgoing = {} /\ envelopes' = envelopes
    BY <1>2, <1>6 DEF files
  <2> SUFFICES ASSUME NEW p \in envelopes
               PROVE  \E v \in Wallet : p \in wallet'[v].outgoing
    BY <2>1 DEF EnvelopeInv
  <2>2. PICK v \in Wallet : p \in wallet[v].outgoing
    BY DEF Inv, EnvelopeInv
  <2> QED
    BY <1>10, <2>1, <2>2
<1>13. \A m \in net : ~ m.awaited /\ m.request.current_handoff # Len(signed)
  BY <1>5, QuietNet
<1>14. wallet'[w].own # 0
  BY <1>2, <1>7
<1> QED
  BY <1>2, <1>3, <1>8, <1>9, <1>11, <1>12, <1>13, <1>14, HandOnInv

(* What a new signature does: it is the journaled attempt of the one owner *)
(* that gets it, and pays to another wallet, one step earlier.             *)
LEMMA SignEffect ==
  ASSUME Inv, NEW message \in net, Sign(message)
  PROVE  \E to \in Wallet \ {message.from}, delay \in Nat,
            response \in Responses :
           LET n == Len(signed)
               w == message.from
           IN  /\ delay = Delay(signed[n]) - DELAY_STEP
               /\ response = [signature    |-> Recovery(to, delay),
                              next_handoff |-> n + 1]
               /\ w \in Wallet
               /\ wallet[w].owner /\ OwnerInv(w) /\ wallet[w].own = n
               /\ wallet[w].pending = "prepared"
               /\ wallet[w].attempt = {message.request}
               /\ message.request = SignRequest(w, n, to, delay)
               /\ Receiver(signed[n]) = w
               /\ signed' = Append(signed, Recovery(to, delay))
               /\ drawn' = n + 1
               /\ coins' = [id \in {COIN} |->
                              [signing_key |-> KEY,
                               authorization |->
                                 Produced(message.request, response),
                               signature_count |-> n + 1,
                               last |-> {[request |-> message.request,
                                          response |-> response]}]]
               /\ Answered(message, response)
               /\ UNCHANGED <<boots, wallet, files, chain>>
<1> DEFINE n == Len(signed)
           w == message.from
           coin == coins[COIN]
           request == message.request
<1>1. /\ message \in Messages /\ w \in Wallet /\ request \in Requests
      /\ n \in Nat \ {0} /\ drawn = n
  BY DEF Inv, RangeInv, ChainInv, Messages
<1>2. /\ Registered /\ CanSign(coin, request)
      /\ coins' = [id \in {COIN} |->
                     SignedCoin(coin, request, AnswerTo(coin, request, n + 1))]
      /\ signed' = Append(signed, AnswerTo(coin, request, n + 1).signature)
      /\ drawn' = n + 1
      /\ Answered(message, AnswerTo(coin, request, n + 1))
      /\ UNCHANGED <<boots, wallet, files, chain>>
  BY <1>1 DEF Sign
<1>3. request.current_capability = w
  BY DEF Inv, MessageInv
<1>4. w # "initial"
  BY <1>1, TransferFacts
<1>5. coin = PinnedCoin
  <2>1. ASSUME NEW key, coin = NewCoin(COIN, CapabilityHash("initial"), key)
        PROVE  FALSE
    <3>1. Consumed(request) = Authorization(COIN, CapabilityHash("initial"),
                                            INITIAL_HANDOFF)
      BY <1>2, <2>1 DEF CanSign, NewCoin
    <3> QED
      BY <1>3, <1>4, <3>1 DEF Consumed, Authorization, CapabilityHash
  <2> QED
    BY <1>2, <2>1 DEF Inv, SignerInv, Registered
<1>6. request.current_handoff = n
  BY <1>2, <1>5 DEF CanSign, Consumed, PinnedCoin, Produced, LastResponse,
     Authorization
<1>7. /\ wallet[w].owner /\ wallet[w].attempt = {request} /\ OwnerInv(w)
  BY <1>1, <1>6 DEF Inv, MessageInv, WalletInv
<1>8. PICK to \in Wallet \ {w} :
        wallet[w].attempt = {SignRequest(w, wallet[w].own, to,
                               Delay(signed[wallet[w].own]) - DELAY_STEP)}
  BY <1>7 DEF OwnerInv
<1>9. /\ request = SignRequest(w, wallet[w].own, to,
                              Delay(signed[wallet[w].own]) - DELAY_STEP)
      /\ wallet[w].own = n
  BY <1>6, <1>7, <1>8 DEF SignRequest
<1>10. /\ wallet[w].pending = "prepared" /\ Receiver(signed[n]) = w
       /\ Delay(signed[n]) >= DELAY_STEP
  <2>1. wallet[w].pending # none
    BY <1>7 DEF OwnerInv
  <2>2. wallet[w].pending # "responded"
    BY <1>1, <1>7, <1>9 DEF OwnerInv
  <2> QED
    BY <1>1, <1>7, <1>9, <2>1, <2>2 DEF OwnerInv, Inv, RangeInv, States
<1>11. Delay(signed[n]) - DELAY_STEP \in Nat
  BY <1>1, <1>10, Listed, RecoveryIs, TransferFacts DEF Inv, RangeInv
<1>12. coin.signing_key = KEY /\ coin.signature_count = n
  BY <1>5 DEF PinnedCoin
<1>13. request.sighash = [to |-> to, delay |-> Delay(signed[n]) - DELAY_STEP]
  BY <1>9 DEF SignRequest
<1> DEFINE response == [signature |-> Recovery(to, Delay(signed[n]) - DELAY_STEP),
                        next_handoff |-> n + 1]
<1>14. AnswerTo(coin, request, n + 1) = response
  BY <1>12, <1>13 DEF AnswerTo, Recovery
<1>15. SignedCoin(coin, request, response) =
         [signing_key |-> KEY, authorization |-> Produced(request, response),
          signature_count |-> n + 1,
          last |-> {[request |-> request, response |-> response]}]
  BY <1>12 DEF SignedCoin
<1>16. response.signature = Recovery(to, Delay(signed[n]) - DELAY_STEP)
  OBVIOUS
<1>17. /\ coins' = [id \in {COIN} |->
                      [signing_key |-> KEY,
                       authorization |-> Produced(request, response),
                       signature_count |-> n + 1,
                       last |-> {[request |-> request, response |-> response]}]]
       /\ signed' = Append(signed, Recovery(to, Delay(signed[n]) - DELAY_STEP))
       /\ Answered(message, response)
  BY <1>2, <1>14, <1>15, <1>16
<1>18. to \in Wallet \ {message.from}
  BY <1>8
<1>19. response \in Responses
  <2>1. Recovery(to, Delay(signed[n]) - DELAY_STEP) \in Recoveries
    BY <1>11, <1>18 DEF Recovery, Recoveries
  <2> QED
    BY <1>1, <2>1 DEF Responses
<1> HIDE DEF coin
<1> WITNESS to \in Wallet \ {message.from}, Delay(signed[n]) - DELAY_STEP \in Nat,
            response \in Responses
<1> QED
  BY <1>1, <1>2, <1>7, <1>9, <1>10, <1>17

LEMMA SignInv ==
  ASSUME Inv, NEW message \in net, Sign(message)
  PROVE  Inv'
<1> DEFINE w == message.from
           n == Len(signed)
<1>0. n = Len(signed) /\ n \in Nat \ {0}
  BY DEF Inv, RangeInv, ChainInv
<1>1. PICK to \in Wallet \ {message.from}, delay \in Nat,
           response \in Responses :
        /\ delay = Delay(signed[n]) - DELAY_STEP
        /\ response = [signature    |-> Recovery(to, delay),
                       next_handoff |-> n + 1]
        /\ w \in Wallet
        /\ wallet[w].owner /\ OwnerInv(w) /\ wallet[w].own = n
        /\ wallet[w].pending = "prepared"
        /\ wallet[w].attempt = {message.request}
        /\ message.request = SignRequest(w, n, to, delay)
        /\ Receiver(signed[n]) = w
        /\ signed' = Append(signed, Recovery(to, delay))
        /\ drawn' = n + 1
        /\ coins' = [id \in {COIN} |->
                       [signing_key |-> KEY,
                        authorization |-> Produced(message.request, response),
                        signature_count |-> n + 1,
                        last |-> {[request |-> message.request,
                                   response |-> response]}]]
        /\ Answered(message, response)
        /\ UNCHANGED <<boots, wallet, files, chain>>
  BY SignEffect
<1>1a. to \in Wallet \ {w}
  OBVIOUS
<1> HIDE DEF w, n
<1>1b. n \in Nat \ {0}
  BY <1>0
<1> USE <1>1b
<1>2. /\ signed \in Seq(Recoveries) /\ Recovery(to, delay) \in Recoveries
      /\ Receiver(Recovery(to, delay)) = to /\ Delay(Recovery(to, delay)) = delay
  BY <1>1 DEF Inv, RangeInv, Recovery, Recoveries, Receiver, Delay
<1>3. /\ signed' \in Seq(Recoveries) /\ Len(signed') = n + 1
      /\ signed'[n + 1] = Recovery(to, delay)
      /\ \A i \in 1 .. n : signed'[i] = signed[i]
  BY <1>0, <1>1, <1>2
<1>4. /\ LastRequest' = message.request /\ LastResponse' = response
  <2>1. n + 1 # 1 /\ n + 1 - 1 = n /\ n \in 1 .. n
    OBVIOUS
  <2>2. LastRequest' = SignRequest(Receiver(signed[n]), n, to, delay)
    BY <1>2, <1>3, <2>1 DEF LastRequest, Receiver, Delay
  <2> QED
    BY <1>1, <1>3, <2>2 DEF LastResponse
<1>5. response \in Responses
  BY <1>1, <1>2 DEF Responses
<1>6. \A v \in Wallet : wallet[v].owner => v = w
  BY <1>1 DEF Inv, OwnersInv
<1>7. net' = net \ {message}
  BY <1>1 DEF Answered
<1>8. ~ message.awaited => run' = run
  BY <1>1 DEF Answered
<1>9. ASSUME message.awaited
      PROVE  /\ run' = [run EXCEPT ![w] = run'[w]]
             /\ run'[w] = [run[w] EXCEPT !.reply = {response}]
             /\ \A v \in Wallet \ {w} : run'[v] = run[v]
             /\ run[w] \in Runs /\ run[w].pc = "await"
  <2>1. run' = [run EXCEPT ![w].reply = {response}]
    BY <1>1, <1>9 DEF Answered, w
  <2>2. run[w].pc = "await"
    BY <1>9, Awaited DEF Inv, w
  <2> QED
    BY <1>1, <2>1, <2>2 DEF Inv, RangeInv
<1>10. message.awaited =>
         /\ run'[w] \in Runs /\ run'[w].pc = "await"
         /\ run'[w].reply = {response}
  BY <1>5, <1>9 DEF Runs
<1>11. /\ wallet' = wallet /\ boots' = boots /\ envelopes' = envelopes
       /\ requests' = requests /\ confirmations' = confirmations
       /\ spender' = spender
  BY <1>1 DEF files, chain
<1>12. run' \in [Wallet -> Runs]
  BY <1>1, <1>8, <1>9, <1>10 DEF Inv, RangeInv
<1>13. RangeInv'
  BY <1>1, <1>3, <1>7, <1>11, <1>12 DEF Inv, RangeInv
<1>14. ChainInv'
  <2>1. Len(signed') >= 1 /\ signed'[1] = Recovery(First, InitialDelay)
    BY <1>0, <1>3 DEF Inv, ChainInv
  <2>2. ASSUME NEW i \in 1 .. n
        PROVE  /\ Delay(signed'[i]) = Delay(signed'[i + 1]) + DELAY_STEP
               /\ Receiver(signed'[i]) # Receiver(signed'[i + 1])
               /\ Receiver(signed'[i]) \in Wallet
               /\ HasCoin(Receiver(signed'[i]))
    <3>1. CASE i = n
      <4>1. Delay(signed[n]) \in Nat
        BY <1>0, <1>2, Listed, RecoveryIs
      <4> QED
        BY <1>0, <1>1, <1>1a, <1>2, <1>3, <3>1, <4>1, TransferFacts
           DEF HasCoin
    <3>2. CASE i # n
      <4>1. i \in 1 .. n - 1 /\ i + 1 \in 1 .. n
        BY <3>2
      <4>2. signed'[i] = signed[i] /\ signed'[i + 1] = signed[i + 1]
        BY <1>3, <4>1
      <4>3. Receiver(signed[i]) \in Wallet
        BY <1>0, <1>2, Listed, RecoveryIs
      <4> QED
        BY <1>0, <4>1, <4>2, <4>3 DEF Inv, ChainInv
    <3> QED
      BY <3>1, <3>2
  <2>3. ASSUME NEW i \in 1 .. n + 1, NEW j \in 1 .. n + 1, i < j
        PROVE  Delay(signed'[i]) >= Delay(signed'[j]) + DELAY_STEP
    <3>1. i \in 1 .. n /\ signed'[i] = signed[i] /\ Delay(signed[i]) \in Nat
          /\ Delay(signed[n]) \in Nat
      BY <1>0, <1>2, <1>3, <2>3, Listed, RecoveryIs
    <3>2. CASE j = n + 1
      <4>1. Delay(signed[i]) >= Delay(signed[n])
        <5>1. CASE i = n
          BY <3>1, <5>1
        <5>2. CASE i < n
          <6>1. Delay(signed[i]) >= Delay(signed[n]) + DELAY_STEP
            BY <1>0, <3>1, <5>2 DEF Inv, ChainInv
          <6> QED
            BY <3>1, <6>1, TransferFacts
        <5> QED
          BY <3>1, <5>1, <5>2
      <4>2. Delay(signed'[j]) = Delay(signed[n]) - DELAY_STEP
        BY <1>1, <1>2, <1>3, <3>2
      <4> QED
        BY <3>1, <4>1, <4>2, TransferFacts
    <3>3. CASE j # n + 1
      <4>1. j \in 1 .. n /\ signed'[j] = signed[j]
        BY <1>3, <3>3
      <4> QED
        BY <1>0, <2>3, <3>1, <4>1 DEF Inv, ChainInv
    <3> QED
      BY <3>2, <3>3
  <2> QED
    <3>1. Len(signed') = n + 1 /\ Len(signed') - 1 = n
      BY <1>3
    <3>2. \A i \in 1 .. Len(signed') - 1 :
            /\ Delay(signed'[i]) = Delay(signed'[i + 1]) + DELAY_STEP
            /\ Receiver(signed'[i]) # Receiver(signed'[i + 1])
            /\ HasCoin(Receiver(signed[i]))'
      BY <1>11, <2>2, <3>1 DEF HasCoin, Receiver
    <3>3. \A i, j \in 1 .. Len(signed') :
            i < j => Delay(signed'[i]) >= Delay(signed'[j]) + DELAY_STEP
      BY <2>3, <3>1
    <3> QED
      BY <2>1, <3>2, <3>3 DEF ChainInv
<1>15. SignerInv'
  <2>1. PinnedCoin' = [signing_key |-> KEY,
                       authorization |-> Produced(message.request, response),
                       signature_count |-> n + 1,
                       last |-> {[request |-> message.request,
                                  response |-> response]}]
    BY <1>3, <1>4 DEF PinnedCoin
  <2> QED
    BY <1>1, <2>1 DEF SignerInv
<1>16. \A history : Prefix(history) =>
         Prefix(history)' /\ Len(history) \in 1 .. n
           /\ signed'[Len(history)] = signed[Len(history)]
  BY <1>0, <1>3 DEF Prefix
<1>17. WalletInv'
  <2>1. OwnerInv(w)'
    <3>1. Prefix(wallet[w].history) /\ wallet'[w] = wallet[w]
      BY <1>1, <1>11 DEF OwnerInv
    <3>2. Prefix(wallet[w].history)'
      BY <1>11, <1>16, <3>1
    <3>3. /\ signed'[n] = signed[n] /\ n < n + 1 /\ n = n + 1 - 1
          /\ Len(signed') = n + 1
      BY <1>3
    <3>4. /\ wallet[w].own = Len(wallet[w].history)
          /\ wallet[w].handoff = wallet[w].own
          /\ wallet[w].outgoing = {} /\ ~ wallet[w].exit
          /\ wallet[w].response = {} /\ wallet[w].attempt = {LastRequest'}
          /\ Delay(signed[n]) >= DELAY_STEP
          /\ \E t \in Wallet \ {w} :
               wallet[w].attempt = {SignRequest(w, wallet[w].own, t,
                                      Delay(signed[n]) - DELAY_STEP)}
      BY <1>1, <1>4 DEF OwnerInv, none
    <3>5. wallet[w].pending # none /\ wallet[w].pending # "responded"
      BY <1>1 DEF none
    <3>6. /\ wallet' = wallet /\ wallet[w].own = n
          /\ Receiver(signed[n]) = w
      BY <1>1
    <3> QED
      BY <3>1, <3>2, <3>3, <3>4, <3>5, <3>6 DEF OwnerInv
  <2>2. ASSUME NEW v \in Wallet, FormerInv(v) PROVE FormerInv(v)'
    <3>1. PICK i \in 1 .. n - 1 :
            wallet[v].history[1] = signed[i] /\ Receiver(signed[i]) = v
      BY <1>0, <2>2 DEF FormerInv
    <3>2. i \in 1 .. n /\ signed'[i] = signed[i]
      BY <1>3
    <3>3. PICK package \in wallet[v].outgoing :
            wallet[v].outgoing = {package} /\ IsPackage(package)
      BY <2>2 DEF FormerInv
    <3>4. IsPackage(package)'
      BY <1>16, <3>3 DEF IsPackage
    <3> QED
      BY <1>3, <1>11, <2>2, <3>1, <3>2, <3>3, <3>4 DEF FormerInv
  <2> QED
    BY <1>6, <1>11, <2>1, <2>2 DEF Inv, WalletInv
<1>18. OwnersInv'
  BY <1>1, <1>11 DEF Inv, OwnersInv
<1>19. EnvelopeInv' /\ SpendInv'
  BY <1>11 DEF Inv, EnvelopeInv, SpendInv, HasCoin
<1>20. MessageInv'
  <2> SUFFICES ASSUME NEW m \in net'
               PROVE  /\ m.request.current_capability = m.from
                      /\ m.request.current_handoff \in 1 .. n + 1
                      /\ m.request.current_handoff = n + 1 \/ m.awaited =>
                           wallet[m.from].owner
                             /\ wallet[m.from].attempt = {m.request}
                      /\ m.awaited => run'[m.from].pc = "await"
                                     /\ run'[m.from].reply = {}
    BY <1>3, <1>11 DEF MessageInv
  <2>1. m \in net /\ m # message /\ m.from \in Wallet
    BY <1>7 DEF Inv, RangeInv, Messages
  <2>2. /\ m.request.current_capability = m.from
        /\ m.request.current_handoff \in 1 .. n
    BY <1>0, <2>1 DEF Inv, MessageInv
  <2>3. ASSUME m.awaited
        PROVE  /\ wallet[m.from].owner /\ wallet[m.from].attempt = {m.request}
               /\ run'[m.from].pc = "await" /\ run'[m.from].reply = {}
    <3>1. message.awaited => m.from # w
      BY <2>1, <2>3, OneAwaited DEF w
    <3>2. run'[m.from] = run[m.from]
      BY <1>8, <1>9, <2>1, <3>1
    <3> QED
      BY <2>1, <2>3, <3>2, Awaited DEF Inv
  <2> QED
    BY <2>2, <2>3
<1>21. \A v \in Wallet : RunInv(v)'
  <2> SUFFICES ASSUME NEW v \in Wallet PROVE RunInv(v)'
    OBVIOUS
  <2>1. run[v].reply = {}
    BY <1>0, <1>1, <1>6 DEF Inv, RunInv
  <2>2. CASE v = w /\ message.awaited
    <3>1. wallet[w].own < Len(signed')
      BY <1>1, <1>3
    <3> QED
      BY <1>1, <1>4, <1>10, <1>11, <2>2, <3>1 DEF RunInv
  <2>3. CASE v # w \/ ~ message.awaited
    <3>1. run'[v] = run[v]
      BY <1>8, <1>9, <2>3
    <3> QED
      BY <1>11, <2>1, <3>1 DEF Inv, RunInv
  <2> QED
    BY <2>2, <2>3
<1> QED
  BY <1>13, <1>14, <1>15, <1>17, <1>18, <1>19, <1>20, <1>21 DEF Inv

LEMMA NextInv == Inv /\ [Next]_vars => Inv'
<1> SUFFICES ASSUME Inv, [Next]_vars PROVE Inv'
  OBVIOUS
<1>1. ASSUME NEW w \in Wallet, Step(w) PROVE Inv'
  <2>1. ASSUME NEW to \in Wallet, StartSign(w, to) PROVE Inv'
    BY <2>1, StartSignInv
  <2>2. CASE \/ ReadStatus(w, "begin", "observe")
             \/ ReadStatus(w, "recheck", "validate")
             \/ ReadStatus(w, "accept", "accept_observe")
    BY <2>2, ReadStatusInv
  <2>3. CASE BeginTransfer(w)
    BY <2>3, BeginTransferInv
  <2>4. CASE ValidatePending(w)
    BY <2>4, ValidatePendingInv
  <2>5. CASE SendSign(w)
    BY <2>5, SendSignInv
  <2>6. CASE RecordResponse(w)
    BY <2>6, RecordResponseInv
  <2>7. CASE CompleteTransfer(w)
    BY <2>7, CompleteTransferInv
  <2>8. CASE WritePackage(w)
    BY <2>8, WritePackageInv
  <2>9. ASSUME NEW package \in envelopes, StartAccept(w, package) PROVE Inv'
    BY <2>9, StartAcceptInv
  <2>10. CASE AcceptTransfer(w)
    BY <2>10, AcceptTransferInv
  <2>11. CASE Refuse(w)
    BY <2>11, RefuseInv
  <2> QED
    BY <1>1, <2>1, <2>2, <2>3, <2>4, <2>5, <2>6, <2>7, <2>8, <2>9, <2>10, <2>11
       DEF Step
<1>2. ASSUME NEW w \in Wallet,
             Stop(w) \/ CreateRequest(w) \/ PrepareExit(w) \/ ConfirmExit(w)
      PROVE  Inv'
  BY <1>2, StopInv, CreateRequestInv, PrepareExitInv, ConfirmExitInv
<1>3. ASSUME NEW message \in net,
             Retry(message) \/ Sign(message) \/ RefuseSign(message)
      PROVE  Inv'
  BY <1>3, RetryInv, SignInv, RefuseSignInv
<1>4. CASE Restart \/ LateRegister \/ Mine
  BY <1>4, AroundInv
<1>5. CASE UNCHANGED vars
  <2> USE DEF Inv, vars, signer, files, chain
  <2>1. ChainInv' /\ WalletInv' /\ OwnersInv' /\ SignerInv'
    BY <1>5, JournalsKept, SignerKept
  <2>2. RangeInv' /\ EnvelopeInv' /\ SpendInv' /\ MessageInv'
    BY <1>5 DEF RangeInv, EnvelopeInv, SpendInv, HasCoin, MessageInv
  <2>3. \A v \in Wallet : RunInv(v)'
    BY <1>5, RunKept
  <2> QED
    BY <2>1, <2>2, <2>3
<1> QED
  BY <1>1, <1>2, <1>3, <1>4, <1>5 DEF Next, Handle

(* What every reachable state satisfies; the theorems below follow from it. *)
THEOREM Invariance == Spec => []Inv
<1>1. Inv /\ [Next]_vars => Inv'
  BY NextInv
<1> QED
  BY InitInv, <1>1, PTL DEF Spec

-----------------------------------------------------------------------------
(* The recovery of a wallet that has the coin is one of the signatures.    *)
LEMMA OwnedIs ==
  ASSUME Inv, NEW w \in Wallet, HasCoin(w)
  PROVE  \E i \in 1 .. Len(signed) :
           /\ OwnRecovery(w) = signed[i] /\ Receiver(signed[i]) = w
           /\ wallet[w].owner => i = wallet[w].own
<1>1. CASE wallet[w].owner
  <2>1. OwnerInv(w)
    BY <1>1 DEF Inv, WalletInv
  <2>2. /\ wallet[w].own \in 1 .. Len(signed)
        /\ wallet[w].history[wallet[w].own] = signed[wallet[w].own]
        /\ Receiver(signed[wallet[w].own]) = w
    BY <2>1 DEF OwnerInv, Prefix
  <2> QED
    BY <2>2 DEF OwnRecovery
<1>2. CASE ~ wallet[w].owner
  <2>1. FormerInv(w)
    BY <1>2 DEF Inv, WalletInv, HasCoin, EmptyWallet
  <2>2. Len(signed) \in Nat
    BY DEF Inv, RangeInv
  <2> QED
    BY <1>2, <2>1, <2>2 DEF FormerInv, OwnRecovery
<1> QED
  BY <1>1, <1>2

(* A wallet whose history is all the signer signed. *)
LEMMA HolderOwns ==
  ASSUME Inv, NEW w \in Wallet, Holder(w)
  PROVE  wallet[w].owner /\ wallet[w].own = Len(signed)
BY DEF Holder, Inv, WalletInv, OwnerInv

(* The newest recovery matures first (NewestMaturesFirst): begin_transfer  *)
(* takes DELAY_STEP off, and a former owner keeps an earlier recovery.     *)
THEOREM NewestFirst == Spec => []NewestMaturesFirst
<1>1. ASSUME Inv PROVE NewestMaturesFirst
  <2>1. DOMAIN signed = 1 .. Len(signed) /\ Len(signed) \in Nat
    BY <1>1 DEF Inv, RangeInv
  <2>2. \A i, j \in DOMAIN signed :
          i < j => Delay(signed[i]) >= Delay(signed[j]) + DELAY_STEP
    BY <1>1, <2>1 DEF Inv, ChainInv
  <2>3. ASSUME NEW v \in Wallet, NEW w \in Wallet, HasCoin(v), v # w, Holder(w)
        PROVE  Delay(OwnRecovery(v)) >= Delay(OwnRecovery(w)) + DELAY_STEP
    <3>1. wallet[w].owner /\ wallet[w].own = Len(signed)
      BY <1>1, <2>3, HolderOwns
    <3>2. HasCoin(w)
      BY <1>1, <3>1 DEF Inv, ChainInv, HasCoin
    <3>3. OwnRecovery(w) = signed[Len(signed)] /\ Receiver(signed[Len(signed)]) = w
      BY <1>1, <3>1, <3>2, OwnedIs
    <3>4. PICK i \in 1 .. Len(signed) :
            OwnRecovery(v) = signed[i] /\ Receiver(signed[i]) = v
      BY <1>1, <2>3, OwnedIs
    <3>5. i < Len(signed)
      BY <2>1, <2>3, <3>3, <3>4
    <3> QED
      BY <2>1, <2>2, <3>3, <3>4, <3>5
  <2> QED
    BY <2>2, <2>3 DEF NewestMaturesFirst
<1> QED
  BY <1>1, Invariance, PTL

-----------------------------------------------------------------------------
(* The signer that lives is the pinned one. *)
LEMMA LiveCoin ==
  ASSUME Inv, Live
  PROVE  /\ coins[COIN] = PinnedCoin
         /\ coins[COIN].authorization =
              Authorization(COIN, CapabilityHash(Receiver(signed[Len(signed)])),
                            Len(signed))
         /\ coins[COIN].last = {[request |-> LastRequest,
                                 response |-> LastResponse]}
<1>1. coins[COIN] = PinnedCoin
  <2>1. ASSUME NEW key \in 2 .. MaxBoots,
               coins = [id \in {COIN} |->
                          NewCoin(COIN, CapabilityHash("initial"), key)]
        PROVE  FALSE
    BY <2>1 DEF Live, NewCoin, KEY
  <2> QED
    BY <2>1 DEF Inv, SignerInv, Live, Registered
<1> QED
  BY <1>1 DEF PinnedCoin, Produced, LastRequest, LastResponse, SignRequest

LEMMA OwnerHolds ==
  ASSUME Inv, Live, NEW w \in Wallet, wallet[w].owner,
         wallet[w].own = Len(signed)
  PROVE  Holder(w)
<1>1. OwnerInv(w)
  BY DEF Inv, WalletInv
<1>2. /\ Prefix(wallet[w].history) /\ Len(wallet[w].history) = Len(signed)
      /\ wallet[w].history \in Seq(Recoveries)
      /\ Receiver(signed[Len(signed)]) = w /\ wallet[w].handoff = Len(signed)
  BY <1>1 DEF OwnerInv, Inv, RangeInv, States
<1>3. wallet[w].history = signed
  BY <1>2, WholePrefix DEF Inv
<1> QED
  BY <1>2, <1>3, LiveCoin DEF Holder

LEMMA OwnerPassesOn ==
  ASSUME Inv, Live, NEW w \in Wallet, wallet[w].owner,
         wallet[w].own # Len(signed)
  PROVE  InTransit(w)
<1>1. OwnerInv(w)
  BY DEF Inv, WalletInv
<1>2. PICK n \in Nat \ {0} : n = Len(signed) /\ signed \in Seq(Recoveries)
  BY DEF Inv, RangeInv, ChainInv
<1>3. /\ Prefix(wallet[w].history) /\ Len(wallet[w].history) = n - 1
      /\ wallet[w].history \in Seq(Recoveries)
      /\ wallet[w].attempt = {LastRequest}
  BY <1>1, <1>2 DEF OwnerInv, Prefix, Inv, RangeInv, States
<1>4. signed[n] \in Recoveries
  BY <1>2, Listed
<1>5. Append(wallet[w].history, signed[n]) = signed
  <2> DEFINE list == Append(wallet[w].history, signed[n])
  <2>1. list \in Seq(Recoveries) /\ Len(list) = n
    BY <1>2, <1>3, <1>4
  <2>2. \A i \in 1 .. n : list[i] = signed[i]
    BY <1>2, <1>3, <1>4 DEF Prefix
  <2> QED
    BY <1>2, <2>1, <2>2, SeqEqual
<1>6. /\ IsRetry(coins[COIN], LastRequest)
      /\ CachedResponse(coins[COIN]).signature = signed[n]
  <2>1. coins[COIN].last = {[request |-> LastRequest,
                             response |-> LastResponse]}
    BY LiveCoin
  <2>2. CachedResponse(coins[COIN]) = LastResponse
    <3>1. PICK pair : pair = [request |-> LastRequest, response |-> LastResponse]
      OBVIOUS
    <3>2. coins[COIN].last = {pair} /\ pair.response = LastResponse
      BY <2>1, <3>1
    <3> QED
      BY <3>2 DEF CachedResponse
  <2>3. IsRetry(coins[COIN], LastRequest)
    BY <2>1 DEF IsRetry
  <2> QED
    BY <1>2, <2>2, <2>3 DEF LastResponse
<1> QED
  BY <1>3, <1>5, <1>6 DEF InTransit

(* The coin is never stranded and never owned twice                        *)
(* (AuthorityIsAccountedFor), whatever the commands, the messages and the  *)
(* signer did: complete_transfer gives the authority up in the save that   *)
(* keeps the package.                                                      *)
THEOREM AuthorityIsKept == Spec => []AuthorityIsAccountedFor
<1>1. ASSUME Inv, Live
      PROVE  \E w \in Wallet : Holder(w) \/ InTransit(w) \/ InPackage(w)
  <2>1. CASE \E w \in Wallet : wallet[w].owner
    BY <1>1, <2>1, OwnerHolds, OwnerPassesOn
  <2>2. CASE ~ \E w \in Wallet : wallet[w].owner
    <3>1. PICK w \in Wallet : \E package \in wallet[w].outgoing :
            Len(package.history) = Len(signed)
      BY <1>1, <2>2 DEF Inv, OwnersInv
    <3>6. PICK package \in wallet[w].outgoing :
             Len(package.history) = Len(signed)
      BY <3>1
    <3>2. FormerInv(w)
      BY <1>1, <2>2, <3>6 DEF Inv, WalletInv, EmptyWallet
    <3>3. IsPackage(package) /\ package \in Packages
      BY <1>1, <3>6, <3>2 DEF FormerInv, Inv, RangeInv, States
    <3>4. package.history = signed
      BY <1>1, <3>6, <3>3, WholePrefix DEF IsPackage, Packages, Inv
    <3>5. /\ package.handoff = Len(signed)
          /\ package.to = Receiver(signed[Len(signed)])
      BY <3>6, <3>3 DEF IsPackage
    <3> QED
      BY <1>1, <3>6, <3>4, <3>5, LiveCoin DEF InPackage
  <2> QED
    BY <2>1, <2>2
<1>2. ASSUME Inv
      PROVE  Cardinality({w \in Wallet : Holder(w) \/ InTransit(w)}) <= 1
  <2> DEFINE Owners == {w \in Wallet : Holder(w) \/ InTransit(w)}
  <2>1. \A v, w \in Owners : v = w
    BY <1>2 DEF Holder, InTransit, Inv, OwnersInv
  <2>2. CASE Owners = {}
    BY <2>2, FS_EmptySet
  <2>3. CASE Owners # {}
    <3>1. PICK w \in Owners : TRUE
      BY <2>3
    <3>2. Owners = {w}
      BY <2>1, <3>1
    <3>3. Cardinality({w}) = 1
      BY FS_Singleton
    <3> QED
      BY <3>2, <3>3
  <2> QED
    BY <2>2, <2>3
<1>3. Inv => AuthorityIsAccountedFor
  BY <1>1, <1>2 DEF AuthorityIsAccountedFor
<1> QED
  BY <1>3, Invariance, PTL

(* exit_coin refuses while an operation is pending and sign_transfer       *)
(* refuses after an exit was saved, so that no request of an owner that    *)
(* exits can still be signed (ExitingOwnerKeepsCoin).                      *)
THEOREM ExitingOwnerIsSafe == Spec => []ExitingOwnerKeepsCoin
<1>1. ASSUME Inv, NEW w \in Wallet, wallet[w].exit, wallet[w].owner, Live
      PROVE  Holder(w) /\ \A m \in net : ~ CanSign(coins[COIN], m.request)
  <2>1. OwnerInv(w)
    BY <1>1 DEF Inv, WalletInv
  <2>2. wallet[w].own = Len(signed) /\ wallet[w].attempt = {}
    BY <1>1, <2>1 DEF OwnerInv
  <2>3. ASSUME NEW m \in net, CanSign(coins[COIN], m.request) PROVE FALSE
    <3>1. m.request.current_handoff = Len(signed)
      BY <1>1, <2>3, LiveCoin DEF CanSign, Consumed, Authorization
    <3>2. /\ wallet[m.from].owner /\ wallet[m.from].attempt = {m.request}
          /\ m.from \in Wallet
      BY <1>1, <2>3, <3>1 DEF Inv, MessageInv, RangeInv, Messages
    <3>3. m.from = w
      BY <1>1, <3>2 DEF Inv, OwnersInv
    <3> QED
      BY <2>2, <3>2, <3>3
  <2> QED
    BY <1>1, <2>2, <2>3, OwnerHolds
<1>2. Inv => ExitingOwnerKeepsCoin
  BY <1>1 DEF ExitingOwnerKeepsCoin
<1> QED
  BY <1>2, Invariance, PTL

-----------------------------------------------------------------------------
(* No command but `transfer accept` gives a wallet a coin, and none takes  *)
(* its recovery away: complete_transfer keeps the owned one.               *)
LEMMA StepKeeps ==
  ASSUME Inv, [Next]_vars, NEW v \in Wallet
  PROVE  \/ /\ HasCoin(v)' <=> HasCoin(v)
            /\ HasCoin(v) => OwnRecovery(v)' = OwnRecovery(v)
         \/ AcceptTransfer(v) /\ ~ HasCoin(v)
<1> DEFINE Goal == /\ HasCoin(v)' <=> HasCoin(v)
                   /\ HasCoin(v) => OwnRecovery(v)' = OwnRecovery(v)
<1>1. ASSUME wallet' = wallet PROVE Goal
  BY <1>1 DEF HasCoin, OwnRecovery
<1>2. ASSUME NEW w \in Wallet, NEW state, Save(w, state)
      PROVE  wallet'[w] = state /\ (v # w => wallet'[v] = wallet[v])
  BY <1>2 DEF Save, Inv, RangeInv
<1>3. ASSUME NEW w \in Wallet, NEW state, Save(w, state),
             state.own = wallet[w].own, state.history = wallet[w].history
      PROVE  Goal
  BY <1>2, <1>3 DEF HasCoin, OwnRecovery
<1>4. \A w \in Wallet : wallet[w] \in States
  BY DEF Inv, RangeInv
<1>5. ASSUME NEW w \in Wallet, CompleteTransfer(w) PROVE Goal
  <2>1. PICK request \in wallet[w].attempt, response \in wallet[w].response :
          Save(w, Sent(wallet[w], Package(wallet[w], request, response)))
    BY <1>5 DEF CompleteTransfer
  <2>2. PICK package : package = Package(wallet[w], request, response)
    OBVIOUS
  <2>3. Sent(wallet[w], package).own = 1
        /\ Sent(wallet[w], package).history
             = <<wallet[w].history[wallet[w].own]>>
    BY <1>4 DEF Sent, States
  <2>4. wallet'[w].own = 1 /\ wallet'[w].history[1] = OwnRecovery(w)
        /\ (v # w => wallet'[v] = wallet[v])
    BY <1>2, <2>1, <2>2, <2>3 DEF OwnRecovery
  <2>5. HasCoin(w)
    <3>1. wallet[w].owner
      BY <1>5 DEF CompleteTransfer, At, Inv, RunInv
    <3>2. OwnerInv(w)
      BY <3>1 DEF Inv, WalletInv
    <3> QED
      BY <3>2 DEF Inv, RangeInv, OwnerInv, Prefix, HasCoin
  <2> QED
    BY <2>4, <2>5 DEF HasCoin, OwnRecovery
<1>6. ASSUME NEW w \in Wallet, BeginTransfer(w) PROVE Goal
  <2>1. PICK request :
          Save(w, [wallet[w] EXCEPT !.pending = "prepared", !.attempt = {request}])
    BY <1>6 DEF BeginTransfer
  <2>2. PICK state :
          state = [wallet[w] EXCEPT !.pending = "prepared", !.attempt = {request}]
    OBVIOUS
  <2>3. state.own = wallet[w].own /\ state.history = wallet[w].history
    BY <1>4, <2>2 DEF States
  <2> QED
    BY <1>3, <2>1, <2>2, <2>3
<1>7. ASSUME NEW w \in Wallet, RecordResponse(w) PROVE Goal
  <2>1. PICK answer :
          Save(w, [wallet[w] EXCEPT !.pending = "responded",
                                    !.response = {answer}])
    BY <1>7 DEF RecordResponse
  <2>2. PICK state :
          state = [wallet[w] EXCEPT !.pending = "responded",
                                    !.response = {answer}]
    OBVIOUS
  <2>3. state.own = wallet[w].own /\ state.history = wallet[w].history
    BY <1>4, <2>2 DEF States
  <2> QED
    BY <1>3, <2>1, <2>2, <2>3
<1>8. ASSUME NEW w \in Wallet, CreateRequest(w) PROVE Goal
  <2>1. PICK state : state = [wallet[w] EXCEPT !.incoming = TRUE]
    OBVIOUS
  <2>2. Save(w, state)
    BY <1>8, <2>1 DEF CreateRequest
  <2>3. state.own = wallet[w].own /\ state.history = wallet[w].history
    BY <1>4, <2>1 DEF States
  <2> QED
    BY <1>3, <2>2, <2>3
<1>9. ASSUME NEW w \in Wallet, PrepareExit(w) PROVE Goal
  <2>1. PICK state : state = [wallet[w] EXCEPT !.exit = TRUE]
    OBVIOUS
  <2>2. Save(w, state)
    BY <1>9, <2>1 DEF PrepareExit
  <2>3. state.own = wallet[w].own /\ state.history = wallet[w].history
    BY <1>4, <2>1 DEF States
  <2> QED
    BY <1>3, <2>2, <2>3
<1>10. ASSUME NEW w \in Wallet, AcceptTransfer(w)
       PROVE  Goal \/ (AcceptTransfer(v) /\ ~ HasCoin(v))
  <2>1. wallet[w].own = 0
    BY <1>10 DEF AcceptTransfer, At, Inv, RunInv
  <2>2. v # w => wallet'[v] = wallet[v]
    BY <1>10 DEF AcceptTransfer, Save, Inv, RangeInv
  <2> QED
    BY <1>10, <2>1, <2>2 DEF HasCoin, OwnRecovery
<1>11. ASSUME NEW w \in Wallet, Step(w)
       PROVE  Goal \/ (AcceptTransfer(v) /\ ~ HasCoin(v))
  <2>1. CASE \/ \E to \in Wallet : StartSign(w, to)
             \/ ReadStatus(w, "begin", "observe")
             \/ ReadStatus(w, "recheck", "validate")
             \/ ReadStatus(w, "accept", "accept_observe")
             \/ ValidatePending(w) \/ SendSign(w) \/ WritePackage(w)
             \/ \E package \in envelopes : StartAccept(w, package)
             \/ Refuse(w)
    BY <1>1, <2>1 DEF StartSign, ReadStatus, ValidatePending, SendSign,
       WritePackage, StartAccept, Refuse
  <2> QED
    BY <1>5, <1>6, <1>7, <1>10, <1>11, <2>1 DEF Step
<1>12. ASSUME NEW w \in Wallet, Stop(w) \/ ConfirmExit(w) PROVE Goal
  BY <1>1, <1>12 DEF Stop, ConfirmExit
<1>13. ASSUME NEW m \in net, Retry(m) \/ Sign(m) \/ RefuseSign(m) PROVE Goal
  BY <1>1, <1>13 DEF Retry, Sign, RefuseSign
<1>14. ASSUME Restart \/ LateRegister \/ Mine PROVE Goal
  BY <1>1, <1>14 DEF Restart, LateRegister, Mine
<1>15. ASSUME UNCHANGED vars PROVE Goal
  BY <1>1, <1>15 DEF vars
<1> HIDE DEF Goal
<1>16. Goal \/ (AcceptTransfer(v) /\ ~ HasCoin(v))
  <2>1. CASE \E w \in Wallet : Step(w) \/ Stop(w) \/ CreateRequest(w)
                                \/ PrepareExit(w) \/ ConfirmExit(w)
    BY <1>8, <1>9, <1>11, <1>12, <2>1
  <2>2. CASE Handle
    BY <1>13, <2>2 DEF Handle
  <2> QED
    BY <1>14, <1>15, <2>1, <2>2 DEF Next
<1> QED
  BY <1>16 DEF Goal

(* Whoever has owned the coin keeps the recovery that pays to it           *)
(* (RecoveryIsKept).                                                       *)
THEOREM RecoveriesStay == Spec => RecoveryIsKept
<1>1. ASSUME Inv, [Next]_vars
      PROVE  [\A w \in Wallet : HasCoin(w) =>
               HasCoin(w)' /\ OwnRecovery(w)' = OwnRecovery(w)]_vars
  BY <1>1, StepKeeps
<1> QED
  BY <1>1, Invariance, PTL DEF Spec, RecoveryIsKept

-----------------------------------------------------------------------------
LEMMA SignatureTypes ==
  ASSUME Inv, NEW i \in 1 .. Len(signed)
  PROVE  signed[i] \in Signatures
<1>1. 1 \in 1 .. Len(signed) /\ Delay(signed[1]) = InitialDelay
  BY DEF Inv, RangeInv, ChainInv, Recovery, Delay
<1>2. /\ signed[i] = Recovery(Receiver(signed[i]), Delay(signed[i]))
      /\ Receiver(signed[i]) \in Wallet /\ Delay(signed[i]) \in Nat
  BY Listed, RecoveryIs DEF Inv, RangeInv
<1>3. Delay(signed[i]) <= InitialDelay
  <2>1. 1 < i => Delay(signed[1]) >= Delay(signed[i]) + DELAY_STEP
    BY <1>1 DEF Inv, ChainInv
  <2> QED
    BY <1>1, <1>2, <2>1, TransferFacts DEF Inv, RangeInv
<1>4. Recovery(Receiver(signed[i]), Delay(signed[i])) \in Signatures
  BY <1>2, <1>3, TransferFacts DEF Recovery, Signatures, KEY
<1> QED
  BY <1>2, <1>4

LEMMA WalletTypes ==
  ASSUME Inv, NEW w \in Wallet
  PROVE  LET state == wallet[w]
         IN  /\ \A i \in DOMAIN state.history : state.history[i] \in Signatures
             /\ state.own \in DOMAIN state.history \/ state = [EmptyWallet EXCEPT
                                                    !.incoming = state.incoming]
             /\ state.pending \in {none, "prepared", "responded"}
             /\ Cardinality(state.attempt) = IF state.pending = none THEN 0 ELSE 1
             /\ Cardinality(state.response) =
                  IF state.pending = "responded" THEN 1 ELSE 0
             /\ state.pending # none => state.owner
<1> DEFINE state == wallet[w]
<1>1. /\ state \in States /\ state.history \in Seq(Recoveries)
      /\ DOMAIN state.history = 1 .. Len(state.history)
  BY DEF Inv, RangeInv, States
<1>2. /\ Cardinality({}) = 0 /\ \A x : Cardinality({x}) = 1
      /\ none # "prepared" /\ none # "responded"
  BY FS_EmptySet, FS_Singleton DEF none
<1>3. CASE state.owner
  <2>1. OwnerInv(w)
    BY <1>3 DEF Inv, WalletInv
  <2>2. \A i \in 1 .. Len(state.history) : state.history[i] \in Signatures
    BY <2>1, SignatureTypes DEF OwnerInv, Prefix, Inv, RangeInv
  <2>3. state.own \in 1 .. Len(state.history)
    BY <2>1 DEF OwnerInv, Prefix
  <2>4. Cardinality(state.attempt) = IF state.pending = none THEN 0 ELSE 1
    <3>1. CASE state.pending = none
      BY <1>2, <2>1, <3>1 DEF OwnerInv
    <3>2. CASE state.pending # none
      BY <1>2, <2>1, <3>2 DEF OwnerInv
    <3> QED
      BY <3>1, <3>2
  <2>5. Cardinality(state.response) =
          IF state.pending = "responded" THEN 1 ELSE 0
    <3>1. state.pending \in {none, "prepared", "responded"}
      BY <1>1 DEF States
    <3>2. CASE state.pending = "responded"
      BY <1>2, <2>1, <3>2 DEF OwnerInv
    <3>3. CASE state.pending # "responded"
      <4>1. state.response = {}
        BY <2>1, <3>1, <3>3 DEF OwnerInv
      <4> QED
        BY <1>2, <3>3, <4>1
    <3> QED
      BY <3>2, <3>3
  <2> QED
    BY <1>1, <1>3, <2>2, <2>3, <2>4, <2>5 DEF States
<1>4. CASE state = [EmptyWallet EXCEPT !.incoming = state.incoming]
  <2>1. /\ state.history = << >> /\ state.pending = none
        /\ state.attempt = {} /\ state.response = {}
    BY <1>4 DEF EmptyWallet
  <2> QED
    BY <1>2, <1>4, <2>1
<1>5. CASE FormerInv(w)
  <2>1. PICK j \in 1 .. Len(signed) - 1 : state.history[1] = signed[j]
    BY <1>5 DEF FormerInv
  <2>2. state.history[1] \in Signatures
    BY <2>1, SignatureTypes DEF Inv, RangeInv
  <2>3. /\ state.own = 1 /\ DOMAIN state.history = 1 .. 1 /\ state.pending = none
        /\ state.attempt = {} /\ state.response = {}
    BY <1>1, <1>5 DEF FormerInv
  <2> QED
    BY <1>2, <2>2, <2>3
<1> QED
  BY <1>3, <1>4, <1>5 DEF Inv, WalletInv

(* Every signature is the pinned key's and for a delay the first recovery  *)
(* allows; a wallet has a pending attempt only while it owns the coin; a   *)
(* wallet with no running command waits for no answer (TypeOK).            *)
THEOREM TypeCorrect == Spec => []TypeOK
<1>1. ASSUME Inv PROVE TypeOK
  <2>1. DOMAIN coins \subseteq {COIN}
    BY <1>1 DEF Inv, SignerInv
  <2>2. drawn \in Nat /\ boots \in 1 .. MaxBoots
    BY <1>1 DEF Inv, RangeInv
  <2>3. \A i \in DOMAIN signed : signed[i] \in Signatures
    BY <1>1, SignatureTypes DEF Inv, RangeInv
  <2>4. \A w \in Wallet :
          run[w].pc = "idle" =>
            run[w] = Idle /\ \A m \in net : m.from = w => ~ m.awaited
    BY <1>1 DEF Inv, RunInv, MessageInv
  <2>5. /\ requests \subseteq Wallet /\ confirmations \in 0 .. MaxBlocks
        /\ spender \in Wallet \cup {none}
    BY <1>1 DEF Inv, RangeInv
  <2> QED
    BY <1>1, <2>1, <2>2, <2>3, <2>4, <2>5, WalletTypes DEF TypeOK
<1> QED
  BY <1>1, Invariance, PTL

-----------------------------------------------------------------------------
(* Transfer refines Statechain. *)

Grants == [i \in DOMAIN signed |-> signed[i].sighash]

Held ==
  {i \in DOMAIN signed :
     \E w \in Wallet : HasCoin(w) /\ OwnRecovery(w) = signed[i]}

Settled ==
  IF spender = none THEN 0
  ELSE CHOOSE i \in DOMAIN signed : signed[i] = OwnRecovery(spender)

(* Delays fall, so no signature is given twice. *)
LEMMA Distinct ==
  ASSUME Inv, NEW i \in 1 .. Len(signed), NEW j \in 1 .. Len(signed),
         signed[i] = signed[j]
  PROVE  i = j
<1>1. Delay(signed[i]) \in Nat /\ Delay(signed[j]) \in Nat
  BY Listed, RecoveryIs DEF Inv, RangeInv
<1>2. \A k, l \in 1 .. Len(signed) :
        k < l => Delay(signed[k]) >= Delay(signed[l]) + DELAY_STEP
  BY DEF Inv, ChainInv
<1>3. ~ (i < j) /\ ~ (j < i)
  BY <1>1, <1>2, TransferFacts
<1> QED
  BY <1>3 DEF Inv, RangeInv

LEMMA SettledIs ==
  ASSUME Inv, NEW i \in 1 .. Len(signed), spender # none,
         OwnRecovery(spender) = signed[i]
  PROVE  Settled = i
<1>1. DOMAIN signed = 1 .. Len(signed)
  BY DEF Inv, RangeInv
<1>2. \A k \in DOMAIN signed : signed[k] = OwnRecovery(spender) <=> k = i
  BY <1>1, Distinct
<1> QED
  BY <1>1, <1>2 DEF Settled

LEMMA GrantsAre ==
  ASSUME Inv
  PROVE  /\ DOMAIN signed = 1 .. Len(signed) /\ Len(signed) \in Nat \ {0}
         /\ Grants \in Seq([to : Wallet, delay : Nat])
         /\ Len(Grants) = Len(signed)
         /\ \A i \in 1 .. Len(signed) :
              /\ Grants[i] = signed[i].sighash
              /\ Grants[i].to = Receiver(signed[i])
              /\ Grants[i].delay = Delay(signed[i])
<1>1. /\ DOMAIN signed = 1 .. Len(signed) /\ Len(signed) \in Nat \ {0}
      /\ signed \in Seq(Recoveries)
  BY DEF Inv, RangeInv, ChainInv
<1>2. Grants = [i \in 1 .. Len(signed) |-> signed[i].sighash]
  BY <1>1 DEF Grants
<1>3. \A i \in 1 .. Len(signed) :
        signed[i].sighash \in [to : Wallet, delay : Nat]
  BY <1>1, Listed DEF Recoveries
<1>4. Grants \in [1 .. Len(signed) -> [to : Wallet, delay : Nat]]
  BY <1>2, <1>3
<1>5. Grants \in Seq([to : Wallet, delay : Nat])
  <2> DEFINE S == [to : Wallet, delay : Nat]
  <2> HIDE DEF S
  <2>1. \A m \in Nat : [1 .. m -> S] \subseteq Seq(S)
    OBVIOUS
  <2> QED
    BY <1>1, <1>4, <2>1 DEF S
<1>6. Len(Grants) = Len(signed)
  BY <1>1, <1>4, <1>5, LenProperties
<1> QED
  BY <1>1, <1>2, <1>5, <1>6 DEF Receiver, Delay

LEMMA InitGrants ==
  ASSUME Init
  PROVE  /\ Grants = <<[to |-> First, delay |-> InitialDelay]>>
         /\ Held = {1} /\ Settled = 0 /\ confirmations = 0
<1>1. /\ signed = <<Recovery(First, InitialDelay)>> /\ spender = none
      /\ confirmations = 0 /\ wallet[First] = FundedWallet
      /\ First \in Wallet
  BY TransferFacts DEF Init
<1>2. /\ DOMAIN signed = {1} /\ signed[1] = Recovery(First, InitialDelay)
      /\ signed[1].sighash = [to |-> First, delay |-> InitialDelay]
  BY <1>1 DEF Recovery
<1>3. Grants = [i \in {1} |-> [to |-> First, delay |-> InitialDelay]]
  BY <1>2 DEF Grants
<1>4. <<[to |-> First, delay |-> InitialDelay]>>
        = [i \in {1} |-> [to |-> First, delay |-> InitialDelay]]
  OBVIOUS
<1>5. HasCoin(First) /\ OwnRecovery(First) = signed[1]
  BY <1>1, <1>2 DEF HasCoin, OwnRecovery, FundedWallet, EmptyWallet
<1>6. Held = {1}
  BY <1>1, <1>2, <1>5 DEF Held
<1> QED
  BY <1>1, <1>3, <1>4, <1>6 DEF Settled

(* Positions are held and settled by what the wallets have. *)
LEMMA HeldKept ==
  ASSUME Inv, UNCHANGED <<signed, spender>>,
         \A v \in Wallet :
           /\ HasCoin(v)' <=> HasCoin(v)
           /\ HasCoin(v) => OwnRecovery(v)' = OwnRecovery(v)
  PROVE  UNCHANGED <<Grants, Held, Settled>>
<1>1. Grants' = Grants
  BY DEF Grants
<1>2. \A v \in Wallet : \A i \in DOMAIN signed :
        (HasCoin(v) /\ OwnRecovery(v) = signed[i])
          <=> (HasCoin(v)' /\ OwnRecovery(v)' = signed[i])
  BY DEF HasCoin, OwnRecovery
<1>3. Held' = Held
  BY <1>2 DEF Held, HasCoin, OwnRecovery
<1>4. Settled' = Settled
  <2>1. CASE spender = none
    BY <2>1 DEF Settled
  <2>2. CASE spender # none
    <3>1. PICK v \in Wallet : v = spender /\ HasCoin(v)
      BY <2>2 DEF Inv, SpendInv, RangeInv
    <3>2. OwnRecovery(v)' = OwnRecovery(v)
      BY <3>1 DEF HasCoin, OwnRecovery
    <3>3. OwnRecovery(spender)' = OwnRecovery(spender)
      BY <3>1, <3>2 DEF OwnRecovery
    <3> QED
      BY <2>2, <3>3 DEF Settled
  <2> QED
    BY <2>1, <2>2
<1> QED
  BY <1>1, <1>3, <1>4

(* The steps of Statechain in terms of these. *)
LEMMA AbstractForms ==
  /\ \A to : Abstract!Grant(to) <=>
       /\ Len(Grants) \in Held
       /\ to # Grants[Len(Grants)].to
       /\ Grants[Len(Grants)].delay >= DELAY_STEP
       /\ Grants' = Append(Grants,
            [to |-> to, delay |-> Grants[Len(Grants)].delay - DELAY_STEP])
       /\ UNCHANGED <<Held, confirmations, Settled>>
  /\ Abstract!Accept <=>
       /\ Len(Grants) \notin Held
       /\ Settled = 0
       /\ confirmations < Grants[Len(Grants)].delay
       /\ Held' = Held \cup {Len(Grants)}
       /\ UNCHANGED <<Grants, confirmations, Settled>>
  /\ \A i : Abstract!Settle(i) <=>
       /\ i \in Held
       /\ Settled = 0
       /\ confirmations >= Grants[i].delay
       /\ Settled' = i
       /\ UNCHANGED <<Grants, Held, confirmations>>
  /\ Abstract!Age <=>
       confirmations' = confirmations + 1 /\ UNCHANGED <<Grants, Held, Settled>>
  /\ Abstract!Next <=>
       \/ \E to \in Wallet : Abstract!Grant(to)
       \/ Abstract!Accept
       \/ \E i \in Held : Abstract!Settle(i)
       \/ Abstract!Age
  /\ UNCHANGED Abstract!vars <=>
       UNCHANGED <<Grants, Held, confirmations, Settled>>
BY DEF Abstract!Grant, Abstract!Accept, Abstract!Settle, Abstract!Age,
   Abstract!Next, Abstract!Latest, Abstract!vars, Grants, Held, Settled

LEMMA InitIsAbstract == Init => Abstract!Init
BY InitGrants DEF Abstract!Init, Grants, Held, Settled

(* The signer grants the coin to the next wallet. *)
LEMMA SignGrants ==
  ASSUME Inv, NEW message \in net, Sign(message)
  PROVE  \E to \in Wallet : Abstract!Grant(to)
<1> DEFINE n == Len(signed)
           w == message.from
<1>1. PICK to \in Wallet \ {w}, delay \in Nat :
        /\ delay = Delay(signed[n]) - DELAY_STEP
        /\ w \in Wallet /\ OwnerInv(w) /\ wallet[w].own = n
        /\ Receiver(signed[n]) = w
        /\ signed' = Append(signed, Recovery(to, delay))
        /\ UNCHANGED <<wallet, chain>>
  BY SignEffect
<1>2. /\ n \in Nat \ {0} /\ DOMAIN signed = 1 .. n /\ Len(Grants) = n
      /\ Grants \in Seq([to : Wallet, delay : Nat])
      /\ \A i \in 1 .. n : /\ Grants[i] = signed[i].sighash
                           /\ Grants[i].to = Receiver(signed[i])
                           /\ Grants[i].delay = Delay(signed[i])
  BY GrantsAre
<1>3. /\ signed \in Seq(Recoveries) /\ Recovery(to, delay) \in Recoveries
      /\ Delay(signed[n]) \in Nat
  <2>1. Recovery(to, delay) \in Recoveries
    BY DEF Recovery, Recoveries
  <2>2. signed \in Seq(Recoveries) /\ n \in 1 .. n
    BY <1>2 DEF Inv, RangeInv
  <2>3. signed[n] \in Recoveries
    BY <2>2, Listed
  <2> QED
    BY <2>1, <2>2, <2>3, RecoveryIs
<1>4. /\ DOMAIN signed' = 1 .. n + 1
      /\ \A i \in 1 .. n : signed'[i] = signed[i]
      /\ signed'[n + 1] = Recovery(to, delay)
  BY <1>1, <1>2, <1>3 DEF Inv, RangeInv
<1>5. n \in Held
  <2>1. /\ w \in Wallet /\ wallet[w].own = n /\ n # 0 /\ n \in DOMAIN signed
        /\ Len(Grants) = n
    BY <1>1, <1>2
  <2>2. wallet[w].history[n] = signed[n]
    BY <1>1, <2>1, <1>2 DEF OwnerInv, Prefix
  <2>3. HasCoin(w) /\ OwnRecovery(w) = signed[n]
    BY <2>1, <2>2 DEF HasCoin, OwnRecovery
  <2> QED
    BY <2>1, <2>3 DEF Held
<1>6. Grants[n].to # to /\ Grants[n].delay >= DELAY_STEP
  BY <1>1, <1>2, <1>3, TransferFacts
<1>7. Grants' = Append(Grants, [to |-> to, delay |-> delay])
  <2>1. Recovery(to, delay).sighash = [to |-> to, delay |-> delay]
    BY DEF Recovery
  <2>2. Grants' = [i \in 1 .. n + 1 |-> signed'[i].sighash]
    BY <1>4 DEF Grants
  <2>3. Grants' = [i \in 1 .. n + 1 |->
                     IF i = n + 1 THEN [to |-> to, delay |-> delay]
                     ELSE Grants[i]]
    BY <1>2, <1>4, <2>1, <2>2
  <2>4. PICK g : g = [to |-> to, delay |-> delay]
    OBVIOUS
  <2>5. Append(Grants, g)
          = [i \in 1 .. n + 1 |-> IF i = n + 1 THEN g ELSE Grants[i]]
    <3> DEFINE S == [to : Wallet, delay : Nat]
               F == [i \in 1 .. n + 1 |-> IF i = n + 1 THEN g ELSE Grants[i]]
    <3>1. g \in S
      BY <1>1, <2>4
    <3> HIDE DEF S
    <3>2. Grants \in Seq(S)
      BY <1>2 DEF S
    <3>3. \A i \in 1 .. n : Grants[i] \in S
      BY <1>2, <3>2
    <3>4. F \in [1 .. n + 1 -> S]
      BY <1>2, <3>1, <3>3
    <3>5. \A m \in Nat : [1 .. m -> S] \subseteq Seq(S)
      OBVIOUS
    <3>6. F \in Seq(S) /\ Len(F) = n + 1
      BY <1>2, <3>4, <3>5
    <3>7. Append(Grants, g) \in Seq(S) /\ Len(Append(Grants, g)) = n + 1
          /\ \A i \in 1 .. n + 1 :
               Append(Grants, g)[i] = IF i = n + 1 THEN g ELSE Grants[i]
      BY <1>2, <3>1, <3>2
    <3> QED
      BY <3>6, <3>7, SeqEqual
  <2> QED
    BY <2>3, <2>4, <2>5
<1>8. \A v \in Wallet : HasCoin(v) =>
        /\ OwnRecovery(v) # Recovery(to, delay)
        /\ \E i \in 1 .. n : OwnRecovery(v) = signed[i]
  <2> SUFFICES ASSUME NEW v \in Wallet, HasCoin(v)
               PROVE  /\ OwnRecovery(v) # Recovery(to, delay)
                      /\ \E i \in 1 .. n : OwnRecovery(v) = signed[i]
    OBVIOUS
  <2>1. PICK i \in 1 .. n : OwnRecovery(v) = signed[i]
    BY OwnedIs
  <2>2. Delay(signed[i]) \in Nat /\ Delay(signed[i]) >= Delay(signed[n])
    <3>1. signed[i] \in Recoveries
      BY <1>3, Listed
    <3>2. i < n => Delay(signed[i]) >= Delay(signed[n]) + DELAY_STEP
      BY <1>2 DEF Inv, ChainInv
    <3> QED
      BY <1>2, <1>3, <3>1, <3>2, RecoveryIs, TransferFacts
  <2>3. Delay(Recovery(to, delay)) = delay
    BY DEF Delay, Recovery
  <2> QED
    BY <1>1, <1>3, <2>1, <2>2, <2>3, TransferFacts
<1>9. Held' = Held
  <2>1. \A v \in Wallet : (HasCoin(v)' <=> HasCoin(v))
                          /\ OwnRecovery(v)' = OwnRecovery(v)
    BY <1>1 DEF HasCoin, OwnRecovery
  <2>2. Held' = {i \in 1 .. n + 1 : \E v \in Wallet :
                   HasCoin(v) /\ OwnRecovery(v) = signed'[i]}
    BY <1>1, <1>4 DEF Held, HasCoin, OwnRecovery
  <2>3. Held = {i \in 1 .. n : \E v \in Wallet :
                  HasCoin(v) /\ OwnRecovery(v) = signed[i]}
    BY <1>2 DEF Held
  <2>4. \A i \in 1 .. n + 1 : i \in 1 .. n \/ i = n + 1
    BY <1>2
  <2>5. 1 .. n \subseteq 1 .. n + 1
    BY <1>2
  <2> QED
    BY <1>4, <1>8, <2>2, <2>3, <2>4, <2>5
<1>10. Settled' = Settled
  <2>1. spender' = spender
    BY <1>1 DEF chain
  <2>2. CASE spender = none
    BY <2>1, <2>2 DEF Settled
  <2>3. CASE spender # none
    <3>1. PICK v \in Wallet : v = spender /\ HasCoin(v)
      BY <2>3 DEF Inv, SpendInv, RangeInv
    <3>2. PICK k \in 1 .. n : OwnRecovery(v) = signed[k]
      BY <1>8, <3>1
    <3>3. Settled = k
      BY <2>3, <3>1, <3>2, SettledIs
    <3>4. OwnRecovery(spender)' = signed[k]
      BY <1>1, <2>1, <3>1, <3>2 DEF OwnRecovery
    <3>5. \A i \in 1 .. n + 1 : signed'[i] = signed[k] <=> i = k
      <4>1. \A i \in 1 .. n : signed[i] = signed[k] <=> i = k
        BY Distinct
      <4>2. signed'[n + 1] # signed[k]
        BY <1>4, <1>8, <3>1, <3>2
      <4> QED
        BY <1>2, <1>4, <4>1, <4>2
    <3>6. Settled' = k
      BY <1>2, <1>4, <2>1, <2>3, <3>4, <3>5 DEF Settled
    <3> QED
      BY <3>3, <3>6
  <2> QED
    BY <2>2, <2>3
<1> QED
  BY <1>1, <1>2, <1>5, <1>6, <1>7, <1>9, <1>10, AbstractForms DEF chain

(* The receiver accepts the newest package. *)
LEMMA AcceptIsAbstract ==
  ASSUME Inv, [Next]_vars, NEW w \in Wallet, AcceptTransfer(w), ~ HasCoin(w)
  PROVE  Abstract!Accept
<1> DEFINE n == Len(signed)
<1>1. PICK package \in run[w].package :
        /\ CanAccept(w, package)
        /\ Save(w, [wallet[w] EXCEPT !.incoming = FALSE,
                                     !.history  = package.history,
                                     !.own      = Len(package.history),
                                     !.owner    = TRUE,
                                     !.handoff  = package.handoff])
  BY DEF AcceptTransfer
<1>2. /\ UNCHANGED <<signed, confirmations, spender>>
      /\ wallet[w].own = 0 /\ package \in envelopes /\ package.to = w
  BY <1>1 DEF AcceptTransfer, At, Inv, RunInv, signer, chain, HasCoin
<1>3. /\ package \in Packages /\ Prefix(package.history)
      /\ Len(package.history) = n /\ Receiver(signed[n]) = w
  BY <1>2, NewestPackage
<1>4. /\ n \in Nat \ {0} /\ DOMAIN signed = 1 .. n /\ Len(Grants) = n
      /\ Grants[n].delay = Delay(signed[n]) /\ Delay(signed[n]) \in Nat
  BY GrantsAre, Listed, RecoveryIs DEF Inv, RangeInv
<1>5. package.history[n] = signed[n]
  BY <1>3, <1>4 DEF Prefix
<1>6. /\ wallet'[w].own = n /\ wallet'[w].history = package.history
      /\ \A v \in Wallet \ {w} : wallet'[v] = wallet[v]
  <2>1. w \in DOMAIN wallet /\ wallet[w] \in States
    BY DEF Inv, RangeInv
  <2>2. PICK state : state = [wallet[w] EXCEPT
                                 !.incoming = FALSE,
                                 !.history  = package.history,
                                 !.own      = Len(package.history),
                                 !.owner    = TRUE,
                                 !.handoff  = package.handoff]
    OBVIOUS
  <2>3. state.own = n /\ state.history = package.history
    BY <1>3, <2>1, <2>2 DEF States
  <2>4. wallet' = [wallet EXCEPT ![w] = state]
    BY <1>1, <2>2 DEF Save
  <2> QED
    BY <2>1, <2>3, <2>4
<1>7. HasCoin(w)' /\ OwnRecovery(w)' = signed[n]
  BY <1>4, <1>5, <1>6 DEF HasCoin, OwnRecovery
<1>8. \A v \in Wallet \ {w} :
        /\ HasCoin(v)' <=> HasCoin(v)
        /\ OwnRecovery(v)' = OwnRecovery(v)
  BY <1>6 DEF HasCoin, OwnRecovery
<1>9. n \notin Held
  <2> SUFFICES ASSUME NEW v \in Wallet, HasCoin(v), OwnRecovery(v) = signed[n]
               PROVE  FALSE
    BY DEF Held
  <2>1. Receiver(signed[n]) = v
    BY OwnedIs
  <2> QED
    BY <1>3, <2>1
<1>10. Held' = Held \cup {n}
  <2>1. \A i \in 1 .. n :
          (\E v \in Wallet : HasCoin(v)' /\ OwnRecovery(v)' = signed[i])
            <=> \/ \E v \in Wallet : HasCoin(v) /\ OwnRecovery(v) = signed[i]
                \/ i = n
    <3>1. n \in 1 .. n
      BY <1>4
    <3>2. \A i \in 1 .. n : signed[n] = signed[i] => i = n
      BY <3>1, Distinct
    <3>3. \A i \in 1 .. n :
            HasCoin(w)' /\ OwnRecovery(w)' = signed[i] <=> i = n
      BY <1>7, <3>2
    <3>4. \A v \in Wallet \ {w} : \A i \in 1 .. n :
            (HasCoin(v)' /\ OwnRecovery(v)' = signed[i])
              <=> (HasCoin(v) /\ OwnRecovery(v) = signed[i])
      BY <1>6 DEF HasCoin, OwnRecovery
    <3> QED
      BY <3>3, <3>4 DEF HasCoin, OwnRecovery
  <2>2. Held' = {i \in 1 .. n : \E v \in Wallet :
                   HasCoin(v)' /\ OwnRecovery(v)' = signed[i]}
    BY <1>2, <1>4 DEF Held, HasCoin, OwnRecovery
  <2>3. Held = {i \in 1 .. n : \E v \in Wallet :
                  HasCoin(v) /\ OwnRecovery(v) = signed[i]}
    BY <1>4 DEF Held
  <2>4. n \in 1 .. n
    BY <1>4
  <2> QED
    BY <2>1, <2>2, <2>3, <2>4
<1>11. spender = none /\ confirmations < Delay(signed[n])
  <2>1. Latest(package.history) = signed[n]
    BY <1>3, <1>5 DEF Latest
  <2> QED
    BY <1>1, <1>4, <2>1, DelayAssumption, TransferFacts
       DEF CanAccept, FundingObserved, HasReactionMargin, Inv, RangeInv
<1>12. Grants' = Grants /\ Settled = 0 /\ Settled' = 0
  BY <1>2, <1>11 DEF Grants, Settled
<1> QED
  BY <1>2, <1>4, <1>9, <1>10, <1>11, <1>12, AbstractForms

(* An owner whose exit confirms settles its own position. *)
LEMMA ConfirmSettles ==
  ASSUME Inv, NEW w \in Wallet, ConfirmExit(w)
  PROVE  \E i \in Held : Abstract!Settle(i)
<1> DEFINE n == Len(signed)
<1>1. /\ HasCoin(w) /\ spender = none /\ spender' = w /\ w # none
      /\ confirmations >= Delay(OwnRecovery(w))
      /\ UNCHANGED <<signed, wallet, confirmations>>
  BY TransferFacts DEF ConfirmExit, signer, none
<1>2. PICK i \in 1 .. n : OwnRecovery(w) = signed[i]
  BY <1>1, OwnedIs
<1>3. DOMAIN signed = 1 .. n /\ Grants[i].delay = Delay(signed[i])
  BY GrantsAre
<1>4. i \in Held
  BY <1>1, <1>2, <1>3 DEF Held
<1>5. Grants' = Grants /\ Held' = Held
  BY <1>1 DEF Grants, Held, HasCoin, OwnRecovery
<1>6. \A k \in 1 .. n : signed[k] = signed[i] <=> k = i
  BY Distinct
<1>7. OwnRecovery(spender)' = signed[i]
  BY <1>1, <1>2 DEF OwnRecovery
<1>8. Settled = 0 /\ Settled' = i
  BY <1>1, <1>3, <1>6, <1>7 DEF Settled
<1> QED
  BY <1>1, <1>2, <1>3, <1>4, <1>5, <1>8, AbstractForms

(* A step is one of these four, or leaves the signatures and the chain     *)
(* alone.                                                                  *)
LEMMA StepCases ==
  ASSUME [Next]_vars
  PROVE  \/ \E message \in net : Sign(message)
         \/ \E w \in Wallet : ConfirmExit(w)
         \/ Mine
         \/ UNCHANGED <<signed, chain>>
<1>1. CASE \E w \in Wallet : Step(w)
  <2>1. PICK w \in Wallet : Step(w)
    BY <1>1
  <2>2. CASE \/ \E to \in Wallet : StartSign(w, to)
             \/ \E step, next \in Steps : ReadStatus(w, step, next)
             \/ BeginTransfer(w) \/ ValidatePending(w) \/ SendSign(w)
    BY <2>2 DEF StartSign, ReadStatus, BeginTransfer, ValidatePending,
       SendSign, signer
  <2>3. CASE RecordResponse(w) \/ CompleteTransfer(w) \/ WritePackage(w)
    BY <2>3 DEF RecordResponse, CompleteTransfer, WritePackage, signer
  <2>4. CASE \/ \E package \in envelopes : StartAccept(w, package)
             \/ AcceptTransfer(w) \/ Refuse(w)
    BY <2>4 DEF StartAccept, AcceptTransfer, Refuse, signer
  <2> QED
    BY <2>1, <2>2, <2>3, <2>4 DEF Step, Steps
<1>2. CASE \E w \in Wallet : Stop(w) \/ CreateRequest(w) \/ PrepareExit(w)
  BY <1>2 DEF Stop, CreateRequest, PrepareExit, signer
<1>3. CASE \E message \in net : Retry(message) \/ RefuseSign(message)
  BY <1>3 DEF Retry, RefuseSign, signer
<1>4. CASE Restart \/ LateRegister
  BY <1>4 DEF Restart, LateRegister
<1>5. CASE UNCHANGED vars
  BY <1>5 DEF vars, signer
<1> QED
  BY <1>1, <1>2, <1>3, <1>4, <1>5 DEF Next, Handle

LEMMA StepIsAbstract == Inv /\ [Next]_vars => [Abstract!Next]_(Abstract!vars)
<1> SUFFICES ASSUME Inv, [Next]_vars
             PROVE  Abstract!Next \/ UNCHANGED Abstract!vars
  OBVIOUS
<1>1. CASE \E w \in Wallet : AcceptTransfer(w) /\ ~ HasCoin(w)
  BY <1>1, AcceptIsAbstract, AbstractForms
<1>2. CASE \A w \in Wallet : ~ (AcceptTransfer(w) /\ ~ HasCoin(w))
  <2>1. \A v \in Wallet : /\ HasCoin(v)' <=> HasCoin(v)
                          /\ HasCoin(v) => OwnRecovery(v)' = OwnRecovery(v)
    BY <1>2, StepKeeps
  <2>2. CASE \E message \in net : Sign(message)
    BY <2>2, SignGrants, AbstractForms
  <2>3. CASE \E w \in Wallet : ConfirmExit(w)
    BY <2>3, ConfirmSettles, AbstractForms
  <2>4. CASE Mine
    <3>1. UNCHANGED <<Grants, Held, Settled>>
      BY <2>1, <2>4, HeldKept DEF Mine, signer
    <3> QED
      BY <2>4, <3>1, AbstractForms DEF Mine
  <2>5. CASE UNCHANGED <<signed, chain>>
    <3>1. UNCHANGED <<Grants, Held, Settled>>
      BY <2>1, <2>5, HeldKept DEF chain
    <3> QED
      BY <2>5, <3>1, AbstractForms DEF chain
  <2> QED
    BY <2>2, <2>3, <2>4, <2>5, StepCases
<1> QED
  BY <1>1, <1>2

(* Transfer implements Statechain: the coin is passed on only by its       *)
(* latest owner, accepted only by the wallet it was last signed to, and    *)
(* settled once, by a wallet that has accepted it.                         *)
THEOREM TransferIsStatechain == Spec => ImplementsStatechain
<1>1. Inv /\ [Next]_vars => [Abstract!Next]_(Abstract!vars)
  BY StepIsAbstract
<1> QED
  BY <1>1, InitIsAbstract, Invariance,
     PTL DEF Spec, ImplementsStatechain, Abstract!Spec
=============================================================================
