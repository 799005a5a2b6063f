---------------------------- MODULE FundingProofs ----------------------------
(***************************************************************************)
(* Theorems about Funding and about CoreFunding, for any number of boots   *)
(* of the signer and any bound on the attempts.                            *)
(*                                                                         *)
(* Both programs share the journal, the signer and the network, so one     *)
(* invariant serves both.  It says where the recovery of a funded wallet   *)
(* comes from: a wallet draws one attempt in its life, every request to    *)
(* sign asks for that attempt, and an answer signed by the boot that runs  *)
(* is the one in its cache.                                                *)
(***************************************************************************)
EXTENDS CoreFunding, FiniteSetTheorems, TLAPS

UnderWay(wallet) == wallet.pending \in {"prepared", "responded"}

Response == [signature    : [key : 1 .. MaxBoots, sighash : 1 .. MaxTries],
             next_handoff : 1 .. MaxBoots]

(* The coin of the boot that runs, before and after its only signature. *)
FreshCoin == NewCoin(COIN, CapabilityHash(0), boots)

SignedAnswer(h) == AnswerTo(FreshCoin, AttemptRequest(1), h)

UsedCoin(h) == SignedCoin(FreshCoin, AttemptRequest(1), SignedAnswer(h))

(* One attempt is drawn in the life of a wallet; the journal tells how far *)
(* it has come, and the command works on what it has saved.                *)
JournalInv ==
  /\ mem = disk
  /\ tries \in {0, 1} /\ tries <= MaxTries /\ disk.attempt = tries
  /\ tries = 1 <=> UnderWay(disk) \/ MayBroadcast(disk)
  /\ UnderWay(disk) => disk.stage = "Prepared"
  /\ disk.pending = "responded" <=> disk.response # {}
  /\ disk.stage # "none" => disk.enclave_key # 0
  /\ IF MayBroadcast(disk)
     THEN HoldsRecovery(disk) /\ disk.capability = 1
     ELSE disk.withdrawal = 0

(* What the journal holds at each step of a command, of either program.    *)
ControlInv ==
  /\ pc \in {"idle", "register", "await_register", "prepare", "select_source",
             "check", "check_source", "sign", "await_sign", "secure",
             "complete", "broadcast", "mark",
             "journal", "validate", "attempt", "begin"}
  /\ pc \in {"register", "await_register"} => disk.enclave_key = 0
  /\ pc \notin {"idle", "register", "await_register"} => disk.enclave_key # 0
  /\ pc \in {"prepare", "select_source", "journal"} => disk.stage = "none"
  /\ pc \in {"validate", "attempt", "begin"} =>
       disk.stage = "Prepared" /\ tries = 0
  /\ pc \in {"check", "check_source", "sign", "await_sign"} =>
       disk.pending = "prepared"
  /\ pc \in {"secure", "complete"} => disk.pending = "responded"
  /\ pc = "mark" => MayBroadcast(disk)

(* The coin of the running boot is new or has signed the one attempt.  A   *)
(* wallet that pinned this boot has its coin there.                        *)
SignerInv ==
  /\ drawn \in 0 .. boots
  /\ disk.enclave_key \in 0 .. boots
  /\ disk.enclave_key = boots => Registered
  /\ ~ Registered => drawn < boots
  /\ Registered =>
       \/ coins[COIN] = FreshCoin /\ drawn < boots
       \/ tries = 1 /\ \E h \in 1 .. drawn : coins[COIN] = UsedCoin(h)

(* An answer to the one attempt, which the running boot has in its cache   *)
(* if it gave it.                                                          *)
Genuine(r) ==
  /\ r \in Response
  /\ r.signature.sighash = 1
  /\ r.signature.key \in disk.enclave_key .. boots
  /\ r.signature.key = boots => Registered /\ coins[COIN] = UsedCoin(r.next_handoff)

(* The status of a coin of this boot or an earlier one. *)
OfABoot(s) ==
  /\ s.signing_pubkey \in 1 .. boots
  /\ s.signing_pubkey = boots => Registered

(* One answer is waited for, by the command that asked. *)
MessageInv ==
  /\ \A m \in net : m.method = "sign" => tries = 1 /\ m.attempt = 1
  /\ \A m \in net : m.awaited =>
       pc = IF m.method = "sign" THEN "await_sign" ELSE "await_register"
  /\ \A m, n \in net : m.awaited /\ n.awaited => m = n
  /\ reply # {} => /\ pc \in {"await_sign", "await_register"}
                   /\ \A m \in net : ~ m.awaited
  /\ pc = "await_sign" => \A r \in reply : Genuine(r)
  /\ pc = "await_register" => \A s \in reply : OfABoot(s)
  /\ \A r \in disk.response : Genuine(r)

ChainInv ==
  /\ funding = "mempool" => source = "confirmed"
  /\ funding = "confirmed" => source = "spent"
  /\ funding # "unknown" => MayBroadcast(disk)

(* The wallet that may broadcast holds the handoff of the signer it pinned. *)
OwnerInv ==
  MayBroadcast(disk) /\ disk.enclave_key = boots => coins[COIN] = UsedCoin(disk.handoff)

Inv ==
  /\ TypeOK /\ JournalInv /\ ControlInv /\ SignerInv /\ MessageInv
  /\ ChainInv /\ OwnerInv

(* Core holds the deposit for good before an attempt is drawn. *)
LockInv ==
  tries = 1 \/ pc \in {"attempt", "begin"} => lock = "persistent" \/ walletTx

CoreInv == Inv /\ LockInv

-----------------------------------------------------------------------------
(* The steps that change nothing but the position of the command (and the  *)
(* status it read), between two steps at which no answer is waited for.    *)
LEMMA MoveInv ==
  ASSUME Inv, UNCHANGED <<signer, net, reply, disk, mem, chain, tries>>,
         pc \notin {"await_sign", "await_register"},
         pc' \notin {"await_sign", "await_register", "idle"},
         ControlInv'
  PROVE  Inv'
BY DEF Inv, TypeOK, JournalInv, SignerInv, MessageInv, ChainInv, OwnerInv,
       signer, chain, Registered, FreshCoin, UsedCoin, SignedAnswer, Genuine

(* The commands move on, or read a status, with the journal as it was.     *)
LEMMA StartFundInv == ASSUME Inv, StartFund \/ StartCoreFund PROVE Inv'
<1>1. /\ UNCHANGED <<signer, net, reply, disk, mem, chain, tries>>
      /\ pc = "idle" /\ disk.enclave_key # 0
      /\ pc' \in {EntryPoint(disk), CoreEntryPoint(disk)}
  BY DEF StartFund, StartCoreFund
<1>2. disk \in Wallets
  BY DEF Inv, TypeOK
<1>3. \/ pc' = "prepare" /\ disk.stage = "none"
      \/ pc' = "check" /\ disk.pending = "prepared"
      \/ pc' = "secure" /\ disk.pending = "responded"
      \/ pc' = "validate" /\ disk.stage = "Prepared" /\ ~ UnderWay(disk)
      \/ pc' = "broadcast"
  BY <1>1, <1>2 DEF EntryPoint, CoreEntryPoint, Fresh, Wallets, UnderWay,
     Inv, JournalInv, MayBroadcast
<1>4. ControlInv'
  BY <1>1, <1>3 DEF ControlInv, Inv, JournalInv, MayBroadcast, UnderWay
<1> QED
  BY <1>1, <1>3, <1>4, MoveInv

LEMMA ReadInv ==
  ASSUME Inv,
         \/ ReadInitialStatus \/ FindCommitted \/ FindUncommitted
         \/ ReadFinalStatus \/ CheckSource \/ CheckLockedSource
         \/ ReadAttemptStatus \/ SelectInputs \/ ValidateJournal
         \/ BroadcastFunding /\ UNCHANGED funding
         \/ BroadcastThroughCore /\ UNCHANGED funding
  PROVE  Inv'
<1>1. /\ UNCHANGED <<signer, net, reply, disk, mem, chain, tries>>
      /\ \/ pc = "prepare" /\ pc' = "select_source"
         \/ pc = "check" /\ pc' \in {"sign", "check_source"}
         \/ pc = "check_source" /\ pc' = "sign"
         \/ pc = "secure" /\ pc' = "complete"
         \/ pc = "attempt" /\ pc' = "begin"
         \/ pc = "select_source" /\ pc' = "journal"
         \/ pc = "validate" /\ pc' = "attempt"
         \/ pc = "broadcast" /\ pc' = "mark" /\ MayBroadcast(mem)
  BY DEF ReadInitialStatus, FindCommitted, FindUncommitted, ReadFinalStatus,
     CheckSource, CheckLockedSource, ReadAttemptStatus, SelectInputs,
     ValidateJournal, BroadcastFunding, BroadcastThroughCore, Goto, chain
<1>2. ControlInv'
  BY <1>1 DEF Inv, ControlInv, JournalInv, MayBroadcast
<1> QED
  BY <1>1, <1>2, MoveInv

(* What is left in the network was there, and nobody waits for it. *)
Unawaited ==
  /\ net' \subseteq [method : {"register", "sign"}, attempt : 0 .. MaxTries,
                     awaited : BOOLEAN]
  /\ \A m \in net' : ~ m.awaited /\ \E n \in net : m.method = n.method
                                                   /\ m.attempt = n.attempt

(* A command ends, by itself or from outside, and nobody waits any more.   *)
LEMMA EndInv ==
  ASSUME Inv, UNCHANGED <<signer, disk, chain, tries>>,
         mem' = disk, pc' = "idle", reply' = {}, Unawaited
  PROVE  Inv'
BY DEF Unawaited, Inv, TypeOK, JournalInv, ControlInv, SignerInv, MessageInv, ChainInv,
       OwnerInv, signer, chain, Registered, FreshCoin, UsedCoin, SignedAnswer,
       Genuine, MayBroadcast

LEMMA StopInv == ASSUME Inv, Stop PROVE Inv'
<1> DEFINE Message == [method : {"register", "sign"}, attempt : 0 .. MaxTries,
                       awaited : BOOLEAN]
<1>1. \A m \in Message :
        /\ [m EXCEPT !.awaited = FALSE] \in Message
        /\ ~ [m EXCEPT !.awaited = FALSE].awaited
        /\ [m EXCEPT !.awaited = FALSE].method = m.method
        /\ [m EXCEPT !.awaited = FALSE].attempt = m.attempt
  OBVIOUS
<1>2. net \subseteq Message
  BY DEF Inv, TypeOK
<1>3. net' = {[m EXCEPT !.awaited = FALSE] : m \in net}
  BY DEF Stop, Abandoned
<1> HIDE DEF Message
<1>4. /\ net' \subseteq Message
      /\ \A m \in net' : ~ m.awaited /\ \E n \in net : m.method = n.method
                                                       /\ m.attempt = n.attempt
  <2>1. ASSUME NEW m \in net'
        PROVE  /\ m \in Message /\ ~ m.awaited
               /\ \E n \in net : m.method = n.method /\ m.attempt = n.attempt
    <3>1. PICK n \in net : m = [n EXCEPT !.awaited = FALSE]
      BY <1>3, <2>1
    <3>2. m \in Message /\ ~ m.awaited /\ m.method = n.method /\ m.attempt = n.attempt
      BY ONLY <1>1, <1>2, <3>1, n \in net
    <3> QED
      BY ONLY <3>2, n \in net
  <2> QED
    BY <2>1
<1>5. /\ mem' = disk /\ pc' = "idle" /\ reply' = {}
      /\ UNCHANGED <<signer, disk, chain, tries>>
  BY DEF Stop, Done
<1>6. Unawaited
  BY <1>4 DEF Unawaited, Message
<1> QED
  BY <1>5, <1>6, EndInv

LEMMA RefuseInv == ASSUME Inv, Refuse \/ RefuseCore PROVE Inv'
<1>1. pc # "idle" /\ (reply # {} \/ pc \notin {"await_sign", "await_register"})
  BY DEF Refuse, RefuseCore, CheckFails, CoreCheckFails
<1>2. \A m \in net : ~ m.awaited
  BY <1>1 DEF Inv, TypeOK, MessageInv
<1>3. /\ mem' = disk /\ pc' = "idle" /\ reply' = {}
      /\ UNCHANGED <<signer, disk, net, chain, tries>>
  BY DEF Refuse, RefuseCore, Done
<1>4. Unawaited
  BY <1>2, <1>3 DEF Unawaited, Inv, TypeOK
<1> QED
  BY <1>3, <1>4, EndInv

LEMMA SendInv == ASSUME Inv, SendRegister \/ SendSign PROVE Inv'
<1>1. PICK m \in [method : {"register", "sign"}, attempt : 0 .. MaxTries,
                  awaited : BOOLEAN] :
        /\ net' = net \cup {m} /\ m.awaited
        /\ \/ pc = "register" /\ pc' = "await_register" /\ m.method = "register"
           \/ /\ pc = "sign" /\ pc' = "await_sign" /\ m.method = "sign"
              /\ tries = 1 /\ m.attempt = 1
  <2>1. CASE SendRegister
    <3> DEFINE m == [method |-> "register", attempt |-> 0, awaited |-> TRUE]
    <3>1. m \in [method : {"register", "sign"}, attempt : 0 .. MaxTries,
                 awaited : BOOLEAN]
      BY FundingBounds
    <3>2. m.method = "register" /\ m.awaited /\ net' = net \cup {m}
          /\ pc = "register" /\ pc' = "await_register"
      BY <2>1 DEF SendRegister, Send, Goto
    <3> HIDE DEF m
    <3> QED
      BY <3>1, <3>2
  <2>2. CASE SendSign
    <3>1. tries = 1 /\ mem.attempt = 1 /\ 1 \in 0 .. MaxTries
      BY <2>2, FundingBounds
         DEF SendSign, Goto, Inv, JournalInv, ControlInv, UnderWay
    <3> DEFINE m == [method |-> "sign", attempt |-> 1, awaited |-> TRUE]
    <3>2. m \in [method : {"register", "sign"}, attempt : 0 .. MaxTries,
                 awaited : BOOLEAN]
      BY <3>1
    <3>3. m.method = "sign" /\ m.attempt = 1 /\ m.awaited /\ net' = net \cup {m}
          /\ pc = "sign" /\ pc' = "await_sign"
      BY <2>2, <3>1 DEF SendSign, Send, Goto
    <3> HIDE DEF m
    <3> QED
      BY <3>1, <3>2, <3>3
  <2> QED
    BY <2>1, <2>2
<1>2. UNCHANGED <<signer, reply, disk, mem, chain, tries>>
  BY DEF SendRegister, SendSign
<1>3. reply = {} /\ \A n \in net : ~ n.awaited
  BY <1>1 DEF Inv, MessageInv
<1> QED
  BY <1>1, <1>2, <1>3
     DEF Inv, TypeOK, JournalInv, ControlInv, SignerInv, MessageInv, ChainInv,
         OwnerInv, signer, chain, Registered, FreshCoin, UsedCoin,
         SignedAnswer, Genuine, MayBroadcast

-----------------------------------------------------------------------------
(* The steps that save the journal. *)

(* The registration is journaled, and then closed with the pinned key.     *)
LEMMA StartRegisterInv == ASSUME Inv, StartRegister PROVE Inv'
<1>1. /\ disk' = [disk EXCEPT !.pending = "registration"] /\ mem' = disk'
      /\ disk.enclave_key = 0 /\ pc = "idle" /\ pc' = "register"
      /\ UNCHANGED <<signer, net, reply, chain, tries>>
  BY DEF StartRegister, Save
<1>2. disk \in Wallets /\ disk.response = {}
  BY <1>1 DEF Inv, TypeOK, JournalInv, UnderWay
<1>3. /\ disk' \in Wallets /\ disk'.pending = "registration"
      /\ disk'.attempt = disk.attempt /\ disk'.response = disk.response
      /\ disk'.enclave_key = disk.enclave_key /\ disk'.stage = disk.stage
      /\ disk'.capability = disk.capability /\ disk'.handoff = disk.handoff
      /\ disk'.history = disk.history /\ disk'.withdrawal = disk.withdrawal
  BY <1>1, <1>2 DEF Wallets
<1> QED
  BY <1>1, <1>2, <1>3
     DEF Inv, TypeOK, JournalInv, ControlInv, SignerInv, MessageInv, ChainInv,
         OwnerInv, signer, chain, Registered, FreshCoin, UsedCoin,
         SignedAnswer, Genuine, MayBroadcast, UnderWay, HoldsRecovery

LEMMA FinishRegisterInv == ASSUME Inv, FinishRegister PROVE Inv'
<1>1. PICK answer \in reply :
        disk' = [mem EXCEPT !.pending     = "none",
                            !.enclave_key = answer.signing_pubkey]
        /\ mem' = disk'
  BY DEF FinishRegister, Save
<1>2. /\ pc = "await_register" /\ pc' = "idle" /\ reply' = {}
      /\ UNCHANGED <<signer, net, chain, tries>>
  BY DEF FinishRegister, Done, Goto
<1>3. /\ disk \in Wallets /\ mem = disk /\ disk.enclave_key = 0
      /\ disk.stage = "none" /\ disk.response = {} /\ tries = 0
      /\ \A m \in net : ~ m.awaited
  BY <1>2 DEF Inv, TypeOK, JournalInv, ControlInv, MessageInv, UnderWay,
              MayBroadcast
<1>4. /\ answer.signing_pubkey \in 1 .. boots
      /\ answer.signing_pubkey = boots => Registered
      /\ answer.signing_pubkey \in 0 .. MaxBoots
  BY <1>2, FundingBounds DEF Inv, MessageInv, OfABoot, TypeOK
<1>5. /\ disk' \in Wallets /\ disk'.pending = "none"
      /\ disk'.attempt = disk.attempt /\ disk'.response = {}
      /\ disk'.enclave_key = answer.signing_pubkey /\ disk'.stage = "none"
      /\ disk'.withdrawal = disk.withdrawal
  <2>1. disk' = [disk EXCEPT !.pending     = "none",
                             !.enclave_key = answer.signing_pubkey]
    BY <1>1, <1>3
  <2>2. disk \in Wallets /\ disk.response = {} /\ disk.stage = "none"
    BY <1>3
  <2>3. disk' \in Wallets
    BY ONLY <1>4, <2>1, <2>2 DEF Wallets
  <2>4. disk'.pending = "none" /\ disk'.enclave_key = answer.signing_pubkey
    BY ONLY <2>1, <2>2 DEF Wallets
  <2>5. /\ disk'.attempt = disk.attempt /\ disk'.response = disk.response
        /\ disk'.stage = disk.stage /\ disk'.withdrawal = disk.withdrawal
    BY ONLY <2>1, <2>2 DEF Wallets
  <2> QED
    BY ONLY <2>2, <2>3, <2>4, <2>5
<1> QED
  BY <1>1, <1>2, <1>3, <1>4, <1>5
     DEF Inv, TypeOK, JournalInv, ControlInv, SignerInv, MessageInv, ChainInv,
         OwnerInv, signer, chain, Registered, FreshCoin, UsedCoin,
         SignedAnswer, MayBroadcast, UnderWay

(* The funding transaction and the attempt are journaled, together with an *)
(* explorer and one after the other with Core.  No request to sign is in   *)
(* the network before: there was no attempt to sign for.                   *)
LEMMA JournalFundingInv == ASSUME Inv, JournalFunding PROVE Inv'
<1>1. /\ disk' = [mem EXCEPT !.stage = "Prepared"] /\ mem' = disk'
      /\ pc = "journal" /\ pc' = "validate"
      /\ UNCHANGED <<signer, net, reply, status, chain, tries>>
  BY DEF JournalFunding, Save, Goto
<1>2. /\ disk \in Wallets /\ mem = disk /\ disk.stage = "none"
      /\ disk.enclave_key # 0 /\ tries = 0
  BY <1>1 DEF Inv, TypeOK, JournalInv, ControlInv, UnderWay, MayBroadcast
<1>3. /\ disk' \in Wallets /\ disk'.stage = "Prepared"
      /\ disk'.attempt = disk.attempt /\ disk'.response = disk.response
      /\ disk'.enclave_key = disk.enclave_key /\ disk'.pending = disk.pending
      /\ disk'.withdrawal = disk.withdrawal
  BY <1>1, <1>2 DEF Wallets
<1> QED
  BY <1>1, <1>2, <1>3
     DEF Inv, TypeOK, JournalInv, ControlInv, SignerInv, MessageInv, ChainInv,
         OwnerInv, signer, chain, Registered, FreshCoin, UsedCoin,
         SignedAnswer, Genuine, MayBroadcast, UnderWay

LEMMA JournalAttemptInv ==
  ASSUME Inv, BeginFunding \/ JournalAttempt PROVE Inv'
<1>1. /\ \/ /\ pc = "select_source"
            /\ disk' = [mem EXCEPT !.pending = "prepared",
                                   !.attempt = tries + 1,
                                   !.stage   = "Prepared"]
         \/ /\ pc = "begin"
            /\ disk' = [mem EXCEPT !.pending = "prepared",
                                   !.attempt = tries + 1]
      /\ mem' = disk' /\ pc' = "check" /\ tries' = tries + 1
      /\ tries < MaxTries
      /\ UNCHANGED <<signer, net, reply, chain>>
  BY DEF BeginFunding, JournalAttempt, Save, Goto
<1>2. /\ disk \in Wallets /\ mem = disk /\ disk.enclave_key # 0
      /\ tries = 0
      /\ pc = "begin" => disk.stage = "Prepared"
  BY <1>1 DEF Inv, TypeOK, JournalInv, ControlInv, UnderWay, MayBroadcast
<1>3. tries' = 1 /\ 1 \in 0 .. MaxTries /\ 1 <= MaxTries
  BY <1>1, <1>2, FundingBounds
<1>4. disk.response = {} /\ disk.withdrawal = 0
  BY <1>1, <1>2 DEF Inv, TypeOK, JournalInv, UnderWay, MayBroadcast
<1>5. /\ disk' \in Wallets /\ disk'.stage = "Prepared"
      /\ disk'.attempt = 1 /\ disk'.response = {}
      /\ disk'.enclave_key = disk.enclave_key /\ disk'.pending = "prepared"
      /\ disk'.withdrawal = 0
  <2>1. CASE pc = "select_source"
    <3>1. disk' = [disk EXCEPT !.pending = "prepared", !.attempt = 1,
                               !.stage = "Prepared"]
      BY <1>1, <1>2, <2>1
    <3>2. disk' \in Wallets
      BY <1>2, <1>3, <3>1 DEF Wallets
    <3> QED
      BY <1>2, <1>4, <3>1, <3>2 DEF Wallets
  <2>2. CASE pc = "begin"
    <3>1. disk' = [disk EXCEPT !.pending = "prepared", !.attempt = 1]
      BY <1>1, <1>2, <2>2
    <3>2. disk' \in Wallets
      BY <1>2, <1>3, <3>1 DEF Wallets
    <3> QED
      BY <1>2, <1>4, <2>2, <3>1, <3>2 DEF Wallets
  <2> QED
    BY <1>1, <2>1, <2>2
<1> QED
  BY <1>1, <1>2, <1>3, <1>4, <1>5
     DEF Inv, TypeOK, JournalInv, ControlInv, SignerInv, MessageInv, ChainInv,
         OwnerInv, signer, chain, Registered, FreshCoin, UsedCoin,
         SignedAnswer, MayBroadcast, UnderWay

(* record_sign_response. *)
LEMMA RecordResponseInv == ASSUME Inv, RecordResponse PROVE Inv'
<1>1. PICK answer \in reply :
        /\ disk' = [mem EXCEPT !.pending = "responded", !.response = {answer}]
        /\ mem' = disk'
  BY DEF RecordResponse, Save
<1>2. /\ pc = "await_sign" /\ pc' = "secure" /\ reply' = {}
      /\ UNCHANGED <<signer, net, chain, tries>>
  BY DEF RecordResponse, Done, Goto
<1>3. /\ disk \in Wallets /\ mem = disk /\ disk.pending = "prepared"
      /\ disk.stage = "Prepared" /\ disk.response = {}
      /\ \A m \in net : ~ m.awaited
  BY <1>2 DEF Inv, TypeOK, JournalInv, ControlInv, MessageInv, UnderWay
<1>4. Genuine(answer) /\ answer \in Response
  BY <1>2 DEF Inv, MessageInv, Genuine
<1>5. /\ disk' \in Wallets /\ disk'.pending = "responded"
      /\ disk'.attempt = disk.attempt /\ disk'.response = {answer}
      /\ disk'.enclave_key = disk.enclave_key /\ disk'.stage = "Prepared"
      /\ disk'.withdrawal = disk.withdrawal
  BY <1>1, <1>3, <1>4 DEF Wallets, Response
<1>6. Genuine(answer)'
  BY <1>2, <1>4, <1>5 DEF Genuine, signer, Registered, UsedCoin, SignedAnswer, FreshCoin
<1> QED
  BY <1>1, <1>2, <1>3, <1>4, <1>5, <1>6
     DEF Inv, TypeOK, JournalInv, ControlInv, SignerInv, MessageInv, ChainInv,
         OwnerInv, signer, chain, Registered, FreshCoin, UsedCoin,
         SignedAnswer, MayBroadcast, UnderWay

(* What the signer answered, if the wallet accepts it: its capability and  *)
(* handoff are then the pair its own signer spends next.                   *)
LEMMA UsedCoinShape ==
  ASSUME NEW h
  PROVE  /\ UsedCoin(h).signature_count = 1
         /\ UsedCoin(h).signing_key = boots
         /\ UsedCoin(h).authorization = Authorization(COIN, CapabilityHash(1), h)
         /\ CachedResponse(UsedCoin(h)) = SignedAnswer(h)
         /\ IsRetry(UsedCoin(h), AttemptRequest(1))
         /\ SignedAnswer(h).next_handoff = h
         /\ SignedAnswer(h).signature = [key |-> boots, sighash |-> 1]
<1>1. /\ UsedCoin(h).signature_count = 1
      /\ UsedCoin(h).signing_key = boots
      /\ UsedCoin(h).authorization = Authorization(COIN, CapabilityHash(1), h)
      /\ SignedAnswer(h).next_handoff = h
      /\ SignedAnswer(h).signature = [key |-> boots, sighash |-> 1]
  BY DEF UsedCoin, SignedCoin, SignedAnswer, AnswerTo, FreshCoin, NewCoin,
         Produced, AttemptRequest
<1> DEFINE pair == [request |-> AttemptRequest(1), response |-> SignedAnswer(h)]
<1>2. UsedCoin(h).last = {pair}
  BY DEF UsedCoin, SignedCoin
<1>3. pair.request = AttemptRequest(1) /\ pair.response = SignedAnswer(h)
  OBVIOUS
<1> HIDE DEF pair
<1>4. (CHOOSE p \in {pair} : TRUE) = pair
  OBVIOUS
<1> QED
  BY <1>1, <1>2, <1>3, <1>4 DEF IsRetry, CachedResponse

LEMMA FreshCoinShape ==
  /\ FreshCoin.signature_count = 0
  /\ FreshCoin.signing_key = boots
  /\ FreshCoin.last = {}
  /\ FreshCoin.authorization =
       Authorization(COIN, CapabilityHash(0), INITIAL_HANDOFF)
BY DEF FreshCoin, NewCoin

LEMMA SecureRecoveryInv == ASSUME Inv, SecureRecovery PROVE Inv'
<1>1. PICK response \in mem.response :
        /\ AnswerIsLive(mem, status, response)
        /\ disk' = Secured(mem, response) /\ mem' = disk'
  BY DEF SecureRecovery, Save
<1>2. /\ pc = "complete" /\ pc' = "broadcast"
      /\ UNCHANGED <<signer, net, reply, chain, tries>>
  BY DEF SecureRecovery, Goto
<1>3. /\ disk \in Wallets /\ mem = disk /\ disk.pending = "responded"
      /\ disk.attempt = 1 /\ tries = 1 /\ disk.enclave_key # 0
      /\ funding = "unknown" /\ reply = {}
  BY <1>2 DEF Inv, TypeOK, JournalInv, ControlInv, MessageInv, ChainInv,
              UnderWay, MayBroadcast
<1>4. response \in Response /\ Genuine(response)
  BY <1>1, <1>3 DEF Inv, MessageInv, Genuine
<1>5. response.signature = [key |-> disk.enclave_key, sighash |-> 1]
  BY <1>1, <1>3 DEF AnswerIsLive
<1>6. response.signature.key = disk.enclave_key
  BY <1>5
<1>7. /\ response.signature \in [key : 1 .. MaxBoots, sighash : 1 .. MaxTries]
      /\ response.next_handoff \in 1 .. MaxBoots
      /\ 1 \in 0 .. MaxTries
  BY <1>4, <1>3 DEF Response, Wallets
<1>8. /\ disk' \in Wallets /\ disk'.pending = "none"
      /\ disk'.attempt = 1 /\ disk'.response = {}
      /\ disk'.enclave_key = disk.enclave_key
      /\ disk'.stage = "RecoverySecured" /\ disk'.capability = 1
      /\ disk'.handoff = response.next_handoff
      /\ disk'.history = {response.signature} /\ disk'.withdrawal = 1
  <2>1. disk' = [disk EXCEPT !.pending    = "none",
                             !.response   = {},
                             !.stage      = "RecoverySecured",
                             !.capability = 1,
                             !.handoff    = response.next_handoff,
                             !.history    = {response.signature},
                             !.withdrawal = 1]
    BY <1>1, <1>3 DEF Secured
  <2>2. response.next_handoff \in 0 .. MaxBoots
    BY <1>7, FundingBounds
  <2> QED
    BY <1>3, <1>7, <2>1, <2>2 DEF Wallets
<1>9. HoldsRecovery(disk')
  BY <1>5, <1>8 DEF HoldsRecovery
<1>10. OwnerInv'
  BY <1>2, <1>4, <1>6, <1>8
     DEF OwnerInv, Genuine, signer, UsedCoin, SignedAnswer, FreshCoin
<1> QED
  BY <1>1, <1>2, <1>3, <1>8, <1>9, <1>10
     DEF Inv, TypeOK, JournalInv, ControlInv, SignerInv, MessageInv, ChainInv,
         signer, chain, Registered, FreshCoin, UsedCoin,
         SignedAnswer, MayBroadcast, UnderWay

LEMMA MarkBroadcastInv == ASSUME Inv, MarkBroadcast PROVE Inv'
<1>1. /\ disk' = [mem EXCEPT !.stage = "Broadcast"] /\ mem' = disk'
      /\ pc = "mark" /\ pc' = "idle" /\ reply' = {}
      /\ UNCHANGED <<signer, net, chain, tries>>
  BY DEF MarkBroadcast, Save, Goto, Done
<1>2. /\ disk \in Wallets /\ mem = disk /\ MayBroadcast(disk)
      /\ disk.enclave_key # 0 /\ \A m \in net : ~ m.awaited
  BY <1>1 DEF Inv, TypeOK, JournalInv, ControlInv, MessageInv
<1>3. /\ disk' \in Wallets /\ disk'.stage = "Broadcast"
      /\ disk'.attempt = disk.attempt /\ disk'.response = disk.response
      /\ disk'.enclave_key = disk.enclave_key /\ disk'.pending = disk.pending
      /\ disk'.capability = disk.capability /\ disk'.handoff = disk.handoff
      /\ disk'.history = disk.history /\ disk'.withdrawal = disk.withdrawal
  BY <1>1, <1>2 DEF Wallets
<1>4. ~ UnderWay(disk) /\ ~ UnderWay(disk') /\ MayBroadcast(disk')
  BY <1>2, <1>3 DEF Inv, JournalInv, UnderWay, MayBroadcast
<1> QED
  BY <1>1, <1>2, <1>3, <1>4
     DEF Inv, TypeOK, JournalInv, ControlInv, SignerInv, MessageInv, ChainInv,
         OwnerInv, signer, chain, Registered, FreshCoin, UsedCoin,
         SignedAnswer, Genuine, HoldsRecovery

-----------------------------------------------------------------------------
(* The chain. *)

LEMMA BroadcastInv ==
  ASSUME Inv, BroadcastFunding \/ BroadcastThroughCore PROVE Inv'
<1>1. CASE UNCHANGED funding
  BY <1>1, ReadInv
<1>2. CASE ~ UNCHANGED funding
  <2>1. /\ pc = "broadcast" /\ pc' = "mark" /\ MayBroadcast(disk)
        /\ source = "confirmed" /\ funding' = "mempool"
        /\ UNCHANGED <<signer, net, reply, disk, mem, source, tries>>
    BY <1>2 DEF BroadcastFunding, BroadcastThroughCore, Goto, Submitted, Inv,
                JournalInv
  <2> QED
    BY <2>1 DEF Inv, TypeOK, JournalInv, ControlInv, SignerInv, MessageInv,
       ChainInv, OwnerInv, signer, Registered, FreshCoin, UsedCoin,
       SignedAnswer, Genuine, MayBroadcast
<1> QED
  BY <1>1, <1>2

LEMMA ChainStepInv ==
  ASSUME Inv, Confirm \/ Evict \/ LoseSource PROVE Inv'
<1>1. /\ UNCHANGED <<signer, net, reply, disk, mem, pc, tries>>
      /\ funding' # "unknown" => funding # "unknown"
      /\ funding' = "mempool" => source' = "confirmed"
      /\ funding' = "confirmed" => source' = "spent"
      /\ source' \in {"confirmed", "spent", "gone"}
      /\ funding' \in {"unknown", "mempool", "confirmed"}
  BY DEF Confirm, Evict, LoseSource, Inv, ChainInv, TypeOK
<1>2. TypeOK'
  BY <1>1 DEF Inv, TypeOK, signer
<1>3. ChainInv'
  BY <1>1 DEF Inv, ChainInv, MayBroadcast
<1> QED
  BY <1>1, <1>2, <1>3
     DEF Inv, JournalInv, ControlInv, SignerInv, MessageInv, OwnerInv, signer,
         Registered, FreshCoin, UsedCoin, SignedAnswer, Genuine, OfABoot,
         MayBroadcast, UnderWay

-----------------------------------------------------------------------------
(* The signer. *)

(* What the answer to a message leaves in the network and for the command. *)
LEMMA AnsweredInv ==
  ASSUME Inv, UNCHANGED <<disk, mem, pc, chain, tries>>,
         SignerInv', TypeOK', OwnerInv',
         \A r : Genuine(r) => Genuine(r)',
         \A s : OfABoot(s) => OfABoot(s)',
         NEW message \in net, NEW answer, Answered(message, answer),
         IF message.method = "sign" THEN Genuine(answer)' ELSE OfABoot(answer)'
  PROVE  Inv'
<1>1. net' = net \ {message}
      /\ reply' = IF message.awaited THEN {answer} ELSE reply
  BY DEF Answered
<1>2. MessageInv'
  BY <1>1 DEF Inv, MessageInv, TypeOK
<1> QED
  BY <1>2 DEF Inv, JournalInv, ControlInv, ChainInv, chain, MayBroadcast, UnderWay

LEMMA HandleRegisterInv ==
  ASSUME Inv, NEW message \in net, HandleRegister(message) PROVE Inv'
<1>1. /\ message.method = "register"
      /\ coins' = IF Registered THEN coins ELSE [id \in {COIN} |-> FreshCoin]
      /\ Answered(message, StatusOf(coins'[COIN]))
      /\ UNCHANGED <<drawn, boots, disk, mem, pc, status, chain, tries>>
  BY DEF HandleRegister, FreshCoin
<1>2. Registered'
  BY <1>1 DEF Registered
<1>3. ~ Registered => coins'[COIN] = FreshCoin /\ DOMAIN coins' = {COIN}
  BY <1>1 DEF COIN
<1>4. SignerInv'
  BY <1>1, <1>2, <1>3
     DEF Inv, SignerInv, FreshCoin, UsedCoin, SignedAnswer, Registered
<1>5. coins'[COIN].signing_key = boots
  BY <1>1, <1>3, FreshCoinShape, UsedCoinShape DEF Inv, SignerInv
<1> PICK answer : answer = StatusOf(coins'[COIN])
  OBVIOUS
<1>6. OfABoot(answer)'
  BY <1>1, <1>2, <1>5 DEF OfABoot, StatusOf, Inv, TypeOK
<1>7. TypeOK'
  BY <1>1, <1>3 DEF Inv, TypeOK, chain, Answered, MessageInv
<1>8. \A r : Genuine(r) => Genuine(r)'
  BY <1>1, <1>2 DEF Genuine, UsedCoin, SignedAnswer, FreshCoin, Registered
<1>9. \A s : OfABoot(s) => OfABoot(s)'
  BY <1>1, <1>2 DEF OfABoot
<1>10. OwnerInv'
  BY <1>1 DEF Inv, OwnerInv, SignerInv, UsedCoin, SignedAnswer, FreshCoin,
              MayBroadcast
<1> QED
  BY <1>1, <1>4, <1>6, <1>7, <1>8, <1>9, <1>10, AnsweredInv

(* A request to sign asks for the one attempt; a coin that has signed has  *)
(* signed that, and answers from its cache.                                *)
LEMMA HandleSignInv ==
  ASSUME Inv, NEW message \in net, HandleSign(message) PROVE Inv'
<1> DEFINE coin == coins[COIN]
           request == AttemptRequest(1)
<1>1. /\ message.method = "sign" /\ message.attempt = 1 /\ tries = 1
      /\ Registered
      /\ UNCHANGED <<boots, disk, mem, pc, status, chain, tries>>
  BY DEF HandleSign, Inv, MessageInv
<1>2. \/ /\ IsRetry(coin, request)
         /\ Answered(message, CachedResponse(coin))
         /\ UNCHANGED <<coins, drawn>>
      \/ /\ ~ IsRetry(coin, request)
         /\ LET response == AnswerTo(coin, request, drawn + 1)
            IN  /\ coins' = [id \in {COIN} |-> SignedCoin(coin, request, response)]
                /\ Answered(message, response)
         /\ drawn' = drawn + 1
  BY <1>1 DEF HandleSign
<1>3. CASE coin = FreshCoin /\ drawn < boots
  <2>1. ~ IsRetry(coin, request)
    BY <1>3, FreshCoinShape DEF IsRetry
  <2>2. /\ Answered(message, SignedAnswer(drawn + 1))
        /\ coins' = [id \in {COIN} |-> UsedCoin(drawn + 1)]
        /\ drawn' = drawn + 1
    BY <1>2, <1>3, <2>1 DEF SignedAnswer, UsedCoin
  <2>3. Registered' /\ coins'[COIN] = UsedCoin(drawn + 1) /\ DOMAIN coins' = {COIN}
    BY <2>2 DEF Registered
  <2>4. coin # UsedCoin(1) /\ \A h : coin # UsedCoin(h)
    BY <1>3, FreshCoinShape, UsedCoinShape
  <2>5. \A h : UsedCoin(h)' = UsedCoin(h)
    BY <1>1 DEF UsedCoin, SignedAnswer, FreshCoin
  <2>6. drawn' \in 0 .. boots /\ drawn' \in 0 .. MaxBoots /\ drawn + 1 \in 1 .. drawn'
        /\ drawn + 1 \in 1 .. MaxBoots
    BY <1>3, <2>2, FundingBounds DEF Inv, SignerInv, TypeOK
  <2>7. SignerInv'
    BY <1>1, <2>3, <2>5, <2>6 DEF Inv, SignerInv
  <2>8. \A r : Genuine(r) => Genuine(r)'
    BY <1>1, <2>3, <2>4, <2>5 DEF Genuine
  <2>9. \A s : OfABoot(s) => OfABoot(s)'
    BY <1>1, <2>3 DEF OfABoot
  <2>10. TypeOK'
    BY <1>1, <2>2, <2>3, <2>6 DEF Inv, TypeOK, chain, Answered, MessageInv
  <2>11. OwnerInv'
    BY <1>1, <1>3, <2>4, <2>5 DEF Inv, OwnerInv, MayBroadcast
  <2> PICK answer : answer = SignedAnswer(drawn + 1)
    OBVIOUS
  <2>12. answer.signature = [key |-> boots, sighash |-> 1]
         /\ answer.next_handoff = drawn + 1
    BY UsedCoinShape
  <2>13. answer \in Response
    BY <1>1, <2>6, <2>12, FundingBounds
       DEF SignedAnswer, AnswerTo, Response, Inv, TypeOK, JournalInv
  <2>14. Genuine(answer)'
    BY <1>1, <2>3, <2>5, <2>12, <2>13 DEF Genuine, Inv, SignerInv, TypeOK
  <2> QED
    BY <1>1, <2>2, <2>7, <2>8, <2>9, <2>10, <2>11, <2>14, AnsweredInv
<1>4. CASE \E h \in 1 .. drawn : coin = UsedCoin(h)
  <2>1. PICK h \in 1 .. drawn : coin = UsedCoin(h)
    BY <1>4
  <2>2. Answered(message, SignedAnswer(h)) /\ UNCHANGED <<coins, drawn>>
    BY <1>2, <2>1, UsedCoinShape
  <2>3. UNCHANGED <<signer, disk, mem, pc, chain, tries>>
    BY <1>1, <2>2 DEF signer
  <2>4. /\ SignerInv' /\ TypeOK' /\ OwnerInv'
        /\ \A r : Genuine(r) => Genuine(r)'
        /\ \A s : OfABoot(s) => OfABoot(s)'
    BY <1>1, <2>2, <2>3 DEF Inv, SignerInv, TypeOK, OwnerInv, Genuine, OfABoot,
       signer, chain, Registered, UsedCoin, SignedAnswer, FreshCoin,
       MayBroadcast, Answered, MessageInv
  <2> PICK answer : answer = SignedAnswer(h)
    OBVIOUS
  <2>5. answer.signature = [key |-> boots, sighash |-> 1]
        /\ answer.next_handoff = h
    BY UsedCoinShape
  <2>6. h \in 1 .. MaxBoots
    BY FundingBounds DEF Inv, TypeOK
  <2>7. answer \in Response
    BY <1>1, <2>5, <2>6, FundingBounds
       DEF SignedAnswer, AnswerTo, Response, Inv, TypeOK, JournalInv
  <2>8. Genuine(answer)
    BY <1>1, <2>1, <2>5, <2>7 DEF Genuine, Inv, SignerInv, TypeOK
  <2> QED
    BY <1>1, <2>2, <2>3, <2>4, <2>8, AnsweredInv
<1> QED
  BY <1>1, <1>3, <1>4 DEF Inv, SignerInv

LEMMA RefuseSignInv ==
  ASSUME Inv, NEW message \in net, RefuseSign(message) PROVE Inv'
<1>1. CASE message.awaited
  BY <1>1, EndInv DEF Unawaited, RefuseSign, Done, Inv, TypeOK, MessageInv
<1>2. CASE ~ message.awaited
  BY <1>2
     DEF RefuseSign, Inv, TypeOK, JournalInv, ControlInv, SignerInv, MessageInv,
         ChainInv, OwnerInv, signer, chain, Registered, FreshCoin, UsedCoin,
         SignedAnswer, Genuine, OfABoot, MayBroadcast, UnderWay
<1> QED
  BY <1>1, <1>2

(* A boot that nobody pinned yet starts without coins. *)
LEMMA RestartInv == ASSUME Inv, Restart PROVE Inv'
<1>1. /\ boots' = boots + 1 /\ boots' \in 1 .. MaxBoots
      /\ DOMAIN coins' = {} /\ ~ Registered'
      /\ UNCHANGED <<drawn, net, reply, disk, mem, pc, status, chain, tries>>
  BY FundingBounds DEF Restart, Inv, TypeOK, Registered
<1>2. \A n \in Nat : n <= boots => n < boots' /\ n # boots'
  BY <1>1, FundingBounds DEF Inv, TypeOK
<1>3. SignerInv' /\ OwnerInv'
  BY <1>1, <1>2, FundingBounds DEF Inv, TypeOK, SignerInv, OwnerInv
<1>4. ASSUME NEW r, Genuine(r) PROVE Genuine(r)'
  <2>1. disk.enclave_key \in Nat /\ boots \in Nat
    BY FundingBounds DEF Inv, TypeOK, Wallets
  <2>2. r.signature.key \in disk.enclave_key' .. boots' /\ r.signature.key # boots'
    BY <1>1, <1>2, <1>4, <2>1 DEF Genuine
  <2> QED
    BY <1>4, <2>2 DEF Genuine, Response
<1>5. \A s : OfABoot(s) => OfABoot(s)'
  BY <1>1, <1>2, FundingBounds DEF OfABoot, Inv, TypeOK
<1>6. TypeOK'
  BY <1>1 DEF Inv, TypeOK, chain
<1> QED
  BY <1>1, <1>3, <1>4, <1>5, <1>6
     DEF Inv, JournalInv, ControlInv, MessageInv, ChainInv, chain, MayBroadcast,
         UnderWay

-----------------------------------------------------------------------------
LEMMA InitInv == Init => Inv
<1> SUFFICES ASSUME Init PROVE Inv
  OBVIOUS
<1>1. EmptyWallet \in Wallets
  BY FundingBounds DEF EmptyWallet, Wallets, INITIAL_HANDOFF
<1> QED
  BY <1>1, FundingBounds
     DEF Init, Inv, TypeOK, JournalInv, ControlInv, SignerInv, MessageInv,
         ChainInv, OwnerInv, EmptyWallet, Registered, MayBroadcast, UnderWay

LEMMA StutterInv == ASSUME Inv, UNCHANGED vars PROVE Inv'
BY DEF vars, Inv, TypeOK, JournalInv, ControlInv, SignerInv, MessageInv,
       ChainInv, OwnerInv, signer, chain, Registered, FreshCoin, UsedCoin,
       SignedAnswer, Genuine, OfABoot, MayBroadcast, UnderWay, HoldsRecovery

(* The steps both programs take. *)
LEMMA SharedInv ==
  ASSUME Inv,
         \/ StartRegister \/ SendRegister \/ FinishRegister
         \/ ReadInitialStatus \/ FindCommitted \/ FindUncommitted \/ SendSign
         \/ RecordResponse \/ ReadFinalStatus \/ SecureRecovery \/ MarkBroadcast
         \/ Stop \/ Handle \/ Restart \/ Confirm \/ Evict \/ LoseSource
  PROVE  Inv'
BY StartRegisterInv, SendInv, FinishRegisterInv, ReadInv, RecordResponseInv,
   SecureRecoveryInv, MarkBroadcastInv, StopInv, HandleRegisterInv,
   HandleSignInv, RefuseSignInv, RestartInv, ChainStepInv
   DEF Handle

LEMMA NextInv == ASSUME Inv, [Next]_vars PROVE Inv'
BY SharedInv, StartFundInv, JournalAttemptInv, ReadInv, BroadcastInv,
   RefuseInv, StutterInv
   DEF Next, Wallet

LEMMA CoreNextInv == ASSUME Inv, [CoreNext]_coreVars PROVE Inv'
BY SharedInv, StartFundInv, JournalFundingInv, JournalAttemptInv, ReadInv,
   BroadcastInv, RefuseInv, StutterInv
   DEF CoreNext, CoreWallet, CoreRestart, OperatorUnlock, OperatorSpend, coreVars

(* A persistent lock is dropped only when Core's wallet holds the          *)
(* transaction, and what it selects again is not reserved.                 *)
LEMMA LockKept == ASSUME CoreInv, [CoreNext]_coreVars PROVE LockInv'
<1> SUFFICES ASSUME tries' = 1 \/ pc' \in {"attempt", "begin"}
             PROVE  (lock = "persistent" \/ walletTx)'
  BY DEF LockInv
<1>1. CASE tries = 1 \/ pc \in {"attempt", "begin"}
  BY <1>1 DEF CoreInv, LockInv, CoreNext, CoreWallet, CoreRestart,
     OperatorUnlock, OperatorSpend, coreVars, core, StartCoreFund, SelectInputs,
     JournalFunding, ValidateJournal, ReadAttemptStatus, JournalAttempt,
     CheckLockedSource, BroadcastThroughCore, RefuseCore, CanSelect, Reserved,
     ValidatePreparedFunding
<1>2. CASE ~ (tries = 1 \/ pc \in {"attempt", "begin"})
  <2>1. ValidateJournal
    BY <1>2, FundingBounds DEF CoreInv, Inv, CoreNext, CoreWallet, CoreRestart,
       OperatorUnlock, OperatorSpend, coreVars, vars, StartCoreFund,
       CoreEntryPoint, SelectInputs, JournalFunding, ReadAttemptStatus,
       JournalAttempt, CheckLockedSource, BroadcastThroughCore, RefuseCore,
       StartRegister, SendRegister, FinishRegister, ReadInitialStatus,
       FindCommitted, FindUncommitted, SendSign, RecordResponse,
       ReadFinalStatus, SecureRecovery, MarkBroadcast, Stop, Handle,
       HandleRegister, HandleSign, RefuseSign, Restart, Confirm, Evict,
       LoseSource, Goto
  <2> QED
    BY <2>1 DEF ValidateJournal, ValidatePreparedFunding
<1> QED
  BY <1>1, <1>2

-----------------------------------------------------------------------------
(* What the invariant says about the properties. *)

LEMMA RecoveryFollows == Inv => RecoveryBeforeFunding
BY DEF Inv, ChainInv, JournalInv, RecoveryBeforeFunding

LEMMA AttemptFollows == Inv => AttemptIsRecoverable
<1> SUFFICES ASSUME Inv, UnderWay(disk), Registered,
                    coins[COIN].signing_key = disk.enclave_key
             PROVE  LET coin    == coins[COIN]
                        request == AttemptRequest(disk.attempt)
                    IN  \/ /\ disk.pending = "prepared"
                           /\ coin.signature_count = 0
                           /\ CanSign(coin, request)
                        \/ /\ IsRetry(coin, request)
                           /\ \A response \in disk.response :
                                response.signature.key = coin.signing_key
                                  => response = CachedResponse(coin)
  BY DEF AttemptIsRecoverable, UnderWay
<1>1. disk.attempt = 1
  BY DEF Inv, JournalInv
<1>2. CASE coins[COIN] = FreshCoin
  <2>1. disk.enclave_key = boots
    BY <1>2, FreshCoinShape
  <2>2. \A r \in disk.response : FALSE
    <3> SUFFICES ASSUME NEW r \in disk.response PROVE FALSE
      OBVIOUS
    <3>1. Genuine(r)
      BY DEF Inv, MessageInv
    <3>2. r.signature.key = boots
      BY <2>1, <3>1, FundingBounds DEF Genuine, Inv, TypeOK
    <3>3. coins[COIN] = UsedCoin(r.next_handoff)
      BY <3>1, <3>2 DEF Genuine
    <3> QED
      BY <1>2, <3>3, FreshCoinShape, UsedCoinShape
  <2>3. disk.pending = "prepared"
    BY <2>2 DEF UnderWay, Inv, JournalInv
  <2>4. CapabilityHash(1) # CapabilityHash(0)
    BY DEF CapabilityHash
  <2>5. CanSign(FreshCoin, AttemptRequest(1))
    BY <2>4, FreshCoinShape, SigningAssumption, MaxCountAssumption
       DEF CanSign, AttemptRequest, Consumed
  <2> QED
    BY <1>1, <1>2, <2>3, <2>5, FreshCoinShape
<1>3. CASE \E h \in 1 .. drawn : coins[COIN] = UsedCoin(h)
  <2>1. PICK h \in 1 .. drawn : coins[COIN] = UsedCoin(h)
    BY <1>3
  <2>2. ASSUME NEW r \in disk.response, r.signature.key = coins[COIN].signing_key
        PROVE  r = CachedResponse(coins[COIN])
    <3>1. Genuine(r) /\ r.signature.key = boots
      BY <2>1, <2>2, UsedCoinShape DEF Inv, MessageInv
    <3>2. UsedCoin(h) = UsedCoin(r.next_handoff)
      BY <2>1, <3>1 DEF Genuine
    <3>3. SignedAnswer(h) = SignedAnswer(r.next_handoff)
      BY <3>2, UsedCoinShape
    <3>4. r.next_handoff = h
      BY <3>3, UsedCoinShape
    <3>5. r.signature = [key |-> boots, sighash |-> 1]
      BY <3>1 DEF Genuine, Response
    <3>6. r = [signature    |-> [key |-> boots, sighash |-> 1],
               next_handoff |-> h]
      BY <3>1, <3>4, <3>5 DEF Genuine, Response
    <3>7. SignedAnswer(h) = [signature    |-> [key |-> boots, sighash |-> 1],
                             next_handoff |-> h]
      BY DEF SignedAnswer, AnswerTo, FreshCoin, NewCoin, AttemptRequest
    <3> QED
      BY <2>1, <3>6, <3>7, UsedCoinShape
  <2> QED
    BY <1>1, <2>1, <2>2, UsedCoinShape
<1> QED
  BY <1>2, <1>3 DEF Inv, SignerInv

LEMMA OwnerFollows == Inv => SecuredWalletOwnsCoin
<1> SUFFICES ASSUME Inv, MayBroadcast(disk), Registered,
                    coins[COIN].signing_key = disk.enclave_key
             PROVE  /\ coins[COIN].signature_count = Cardinality(disk.history)
                    /\ coins[COIN].authorization =
                         Authorization(COIN, CapabilityHash(disk.capability),
                                       disk.handoff)
  BY DEF SecuredWalletOwnsCoin, MayBroadcast
<1>1. disk.enclave_key = boots
  BY FreshCoinShape, UsedCoinShape DEF Inv, SignerInv
<1>2. coins[COIN] = UsedCoin(disk.handoff) /\ disk.capability = 1
  BY <1>1 DEF Inv, OwnerInv, JournalInv
<1>3. Cardinality(disk.history) = 1
  BY FS_Singleton DEF Inv, JournalInv, HoldsRecovery
<1> QED
  BY <1>2, <1>3, UsedCoinShape

-----------------------------------------------------------------------------
(* The invariant of `coin fund` through an explorer, and through Core. *)
THEOREM Invariance == Spec => []Inv
BY InitInv, NextInv, PTL DEF Spec

(* In Bitcoin Core's program the deposit is also locked in time. *)
THEOREM CoreInvariance == CoreSpec => []CoreInv
<1>1. CoreInit => CoreInv
  BY InitInv, FundingBounds DEF CoreInit, CoreInv, LockInv, Init
<1>2. CoreInv /\ [CoreNext]_coreVars => CoreInv'
  BY CoreNextInv, LockKept DEF CoreInv
<1> QED
  BY <1>1, <1>2, PTL DEF CoreSpec

(* The journal is well typed, and between two commands nothing is unsaved  *)
(* or waited for.                                                          *)
THEOREM TypeCorrect == Spec => []TypeOK
<1>1. Inv => TypeOK
  BY DEF Inv
<1> QED
  BY <1>1, Invariance, PTL

(* README.md, "A crash before RecoverySecured cannot broadcast": the       *)
(* network has the funding transaction only when wallet.enc holds a        *)
(* recovery signed by the pinned signer.                                   *)
THEOREM RecoveryComesFirst == Spec => []RecoveryBeforeFunding
BY Invariance, RecoveryFollows, PTL

(* An attempt that was interrupted anywhere can be finished as long as the *)
(* pinned signer lives: begin_funding drew it once and the signer has      *)
(* either not signed it or caches its answer.                              *)
THEOREM AttemptRecovers == Spec => []AttemptIsRecoverable
BY Invariance, AttemptFollows, PTL

(* complete_funding_recovery leaves the wallet with the capability and the *)
(* handoff its signer accepts next.                                        *)
THEOREM FundedWalletOwns == Spec => []SecuredWalletOwnsCoin
BY Invariance, OwnerFollows, PTL

(* The same three for fund_coin through Bitcoin Core.                      *)
THEOREM CoreFundingIsSafe ==
  CoreSpec => [](RecoveryBeforeFunding /\ AttemptIsRecoverable
                   /\ SecuredWalletOwnsCoin)
<1>1. CoreInv => RecoveryBeforeFunding /\ AttemptIsRecoverable
                   /\ SecuredWalletOwnsCoin
  BY RecoveryFollows, AttemptFollows, OwnerFollows DEF CoreInv
<1> QED
  BY <1>1, CoreInvariance, PTL

(* The deposit is locked for good (validate_prepared_funding) before an    *)
(* attempt is drawn, so from the first request to sign until the           *)
(* broadcast no other payment of the Core wallet takes it.                 *)
THEOREM AskedStaysReserved == CoreSpec => []AskedFundingIsReserved
<1>1. ASSUME CoreInv, Asked PROVE Reserved
  <2>1. tries = 1
    BY <1>1, FreshCoinShape DEF CoreInv, Inv, Asked, JournalInv, UnderWay,
       MayBroadcast, MessageInv, SignerInv
  <2> QED
    BY <1>1, <2>1 DEF CoreInv, LockInv, Reserved
<1>2. CoreInv => AskedFundingIsReserved
  BY <1>1 DEF AskedFundingIsReserved
<1> QED
  BY <1>2, CoreInvariance, PTL

-----------------------------------------------------------------------------
(* The refinement: a step of either program secures the recovery, moves    *)
(* the deposit, or changes nothing that SafeFunding sees.                  *)
Deposit ==
  CASE funding = "confirmed" -> "locked"
    [] funding = "mempool"   -> "offered"
    [] source = "gone"       -> "lost"
    [] OTHER                 -> "held"

LEMMA DepositCases ==
  Inv => /\ funding = "confirmed" => Deposit = "locked"
         /\ funding = "mempool" => Deposit = "offered"
         /\ funding = "unknown" /\ source = "gone" => Deposit = "lost"
         /\ funding = "unknown" /\ source # "gone" => Deposit = "held"
BY DEF Deposit, Inv, ChainInv

LEMMA RecoveryIsStage == Inv => (HoldsRecovery(disk) <=> MayBroadcast(disk))
BY DEF Inv, JournalInv, HoldsRecovery

LEMMA SafeStepForms ==
  /\ Safe!Next <=>
       \/ ~ HoldsRecovery(disk) /\ HoldsRecovery(disk)' /\ UNCHANGED Deposit
       \/ /\ UNCHANGED HoldsRecovery(disk)
          /\ \/ HoldsRecovery(disk) /\ Deposit = "held" /\ Deposit' = "offered"
             \/ Deposit = "offered" /\ Deposit' = "locked"
             \/ Deposit = "offered" /\ Deposit' = "held"
             \/ Deposit \in {"held", "offered"} /\ Deposit' = "lost"
  /\ UNCHANGED Safe!vars <=> UNCHANGED <<Deposit, HoldsRecovery(disk)>>
BY DEF Safe!Next, Safe!Secure, Safe!Offer, Safe!Lock, Safe!Return, Safe!Lose,
       Safe!vars, Deposit, HoldsRecovery

(* The saves, and the steps of the chain. *)
LEMMA SaveKeepsStage ==
  ASSUME Inv, MayBroadcast(disk),
         \/ StartRegister \/ FinishRegister \/ BeginFunding \/ JournalFunding
         \/ JournalAttempt \/ RecordResponse \/ SecureRecovery \/ MarkBroadcast
  PROVE  MayBroadcast(disk)'
<1>1. disk \in Wallets /\ mem = disk
  BY DEF Inv, TypeOK, JournalInv
<1>2. CASE StartRegister \/ FinishRegister \/ JournalAttempt \/ RecordResponse
  <2>1. disk'.stage = disk.stage
    BY <1>1, <1>2 DEF StartRegister, FinishRegister, JournalAttempt,
       RecordResponse, Save, Wallets
  <2> QED
    BY <2>1 DEF MayBroadcast
<1>3. CASE SecureRecovery \/ MarkBroadcast
  BY <1>1, <1>3 DEF SecureRecovery, MarkBroadcast, Save, Secured, Wallets, MayBroadcast
<1>4. ~ (BeginFunding \/ JournalFunding)
  BY <1>1 DEF BeginFunding, CanBegin, Fresh, JournalFunding, Goto, Inv, ControlInv,
              MayBroadcast
<1> QED
  BY <1>2, <1>3, <1>4

LEMMA DepositMoves ==
  ASSUME Inv, Inv', UNCHANGED disk,
         \/ BroadcastFunding \/ BroadcastThroughCore
         \/ Confirm \/ Evict \/ LoseSource
  PROVE  [Safe!Next]_(Safe!vars)
<1>1. UNCHANGED HoldsRecovery(disk)
  OBVIOUS
<1>2. CASE UNCHANGED <<funding, source>>
  BY <1>1, <1>2, SafeStepForms DEF Deposit
<1>3. CASE (BroadcastFunding \/ BroadcastThroughCore) /\ ~ UNCHANGED funding
  <2>1. /\ MayBroadcast(disk) /\ funding = "unknown" /\ source = "confirmed"
        /\ funding' = "mempool" /\ source' = source
    BY <1>3 DEF BroadcastFunding, BroadcastThroughCore, Submitted, Inv, JournalInv
  <2>2. HoldsRecovery(disk) /\ Deposit = "held" /\ Deposit' = "offered"
    BY <2>1, DepositCases, RecoveryIsStage DEF Deposit
  <2> QED
    BY <1>1, <2>2, SafeStepForms
<1>4. CASE Confirm
  <2>1. Deposit = "offered" /\ Deposit' = "locked"
    BY <1>4, DepositCases DEF Confirm, Deposit
  <2> QED
    BY <1>1, <2>1, SafeStepForms
<1>5. CASE Evict
  <2>1. funding = "mempool" /\ source = "confirmed" /\ funding' = "unknown"
        /\ source' = source
    BY <1>5 DEF Evict, Inv, ChainInv
  <2>2. Deposit = "offered" /\ Deposit' = "held"
    BY <2>1, DepositCases DEF Deposit
  <2> QED
    BY <1>1, <2>2, SafeStepForms
<1>6. CASE LoseSource
  <2>1. Deposit \in {"held", "offered"} /\ Deposit' = "lost"
    BY <1>6, DepositCases DEF LoseSource, Deposit, Inv, ChainInv, TypeOK
  <2> QED
    BY <1>1, <2>1, SafeStepForms
<1>7. BroadcastFunding \/ BroadcastThroughCore => UNCHANGED source
  BY DEF BroadcastFunding, BroadcastThroughCore
<1> QED
  BY <1>2, <1>3, <1>4, <1>5, <1>6, <1>7

LEMMA StepIsSafe ==
  ASSUME Inv, Inv', [Next]_vars \/ [CoreNext]_coreVars
  PROVE  [Safe!Next]_(Safe!vars)
<1>1. CASE UNCHANGED <<disk, funding, source>>
  BY <1>1, SafeStepForms DEF Deposit
<1>2. CASE /\ UNCHANGED <<funding, source>>
           /\ \/ StartRegister \/ FinishRegister \/ BeginFunding
              \/ JournalFunding \/ JournalAttempt \/ RecordResponse
              \/ SecureRecovery \/ MarkBroadcast
  <2>1. UNCHANGED Deposit
    BY <1>2 DEF Deposit
  <2>2. HoldsRecovery(disk) => HoldsRecovery(disk)'
    BY <1>2, SaveKeepsStage, RecoveryIsStage DEF Inv, JournalInv
  <2>3. HoldsRecovery(disk) \in BOOLEAN /\ HoldsRecovery(disk)' \in BOOLEAN
    BY ONLY DEF HoldsRecovery
  <2> QED
    BY <2>1, <2>2, <2>3, SafeStepForms
<1>3. \/ UNCHANGED <<disk, funding, source>>
      \/ /\ UNCHANGED <<funding, source>>
         /\ \/ StartRegister \/ FinishRegister \/ BeginFunding
            \/ JournalFunding \/ JournalAttempt \/ RecordResponse
            \/ SecureRecovery \/ MarkBroadcast
      \/ /\ UNCHANGED disk
         /\ \/ BroadcastFunding \/ BroadcastThroughCore
            \/ Confirm \/ Evict \/ LoseSource
  BY DEF Next, Wallet, CoreNext, CoreWallet, vars, coreVars, chain,
     StartRegister, SendRegister, FinishRegister, StartFund, ReadInitialStatus,
     BeginFunding, FindCommitted, FindUncommitted, CheckSource, SendSign,
     RecordResponse, ReadFinalStatus, SecureRecovery, BroadcastFunding,
     MarkBroadcast, Refuse, Stop, Handle, HandleRegister, HandleSign,
     RefuseSign, Restart, Confirm, Evict, LoseSource, StartCoreFund,
     SelectInputs, JournalFunding, ValidateJournal, ReadAttemptStatus,
     JournalAttempt, CheckLockedSource, BroadcastThroughCore, RefuseCore,
     CoreRestart, OperatorUnlock, OperatorSpend
<1> QED
  BY <1>1, <1>2, <1>3, DepositMoves

LEMMA InitIsSafe == Init => Safe!Init
BY DEF Init, Safe!Init, EmptyWallet, HoldsRecovery

(* Funding through an explorer implements SafeFunding: the recovery is     *)
(* secured once and for ever, and before the deposit is offered.           *)
THEOREM FundingIsSafe == Spec => ImplementsSafeFunding
<1>1. Inv /\ Inv' /\ [Next]_vars => [Safe!Next]_(Safe!vars)
  BY StepIsSafe
<1> QED
  BY <1>1, InitIsSafe, Invariance, PTL DEF Spec, ImplementsSafeFunding, Safe!Spec

(* So does funding through Bitcoin Core, for the same mapping. *)
THEOREM CoreFundingRefines == CoreSpec => ImplementsSafeFunding
<1>1. CoreInv /\ CoreInv' /\ [CoreNext]_coreVars => [Safe!Next]_(Safe!vars)
  BY StepIsSafe DEF CoreInv
<1>2. CoreInit => Safe!Init
  BY InitIsSafe DEF CoreInit
<1> QED
  BY <1>1, <1>2, CoreInvariance, PTL DEF CoreSpec, ImplementsSafeFunding, Safe!Spec
=============================================================================
