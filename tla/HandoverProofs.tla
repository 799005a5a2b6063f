--------------------------- MODULE HandoverProofs ---------------------------
(***************************************************************************)
(* Theorems about Handover, for any wallets, terms and number of draws.    *)
(*                                                                         *)
(* RerunsAgree is not inductive: it says nothing of where an envelope in   *)
(* somebody's hands comes from.  Inv adds that every undamaged one is in   *)
(* the journal of the wallet that sealed it, and that a handoff of the     *)
(* signer is in the hands of one sender.                                   *)
(***************************************************************************)
EXTENDS Handover, TLAPS

Journals ==
  [coin     : BOOLEAN,
   owner    : BOOLEAN,
   draw     : Nat,
   handoff  : Nat,
   incoming : SUBSET Requests,
   accepted : SUBSET (Requests \X Envelopes),
   pending  : SUBSET Requests,
   answer   : SUBSET Nat,
   outgoing : SUBSET [request : Requests, envelope : Envelopes]]

(* The journals, the signer and the files are well formed. *)
TypeOK ==
  /\ wallet \in [Wallet -> Journals]
  /\ authority \in [holder : Wallet, draw : Nat, handoff : Nat]
  /\ cache \subseteq [from : Wallet, request : Requests, handoff : Nat]
  /\ requestFiles \subseteq Requests
  /\ packageFiles \subseteq Envelopes
  /\ draws \in [requests : 0 .. MaxDraws, envelopes : 0 .. MaxDraws]
  /\ DOMAIN taken = Wallet

(* The handoffs the signer answered wallet w with. *)
Handoffs(w) ==
  wallet[w].answer \cup {sent.envelope.handoff : sent \in wallet[w].outgoing}

(* The signer tells a handoff to one sender. *)
HandoffInv ==
  /\ \A a, b \in cache : a = b
  /\ \A w \in Wallet : \A h \in Handoffs(w) : h <= authority.handoff
  /\ \A v, w \in Wallet : v # w => Handoffs(v) \cap Handoffs(w) = {}
  /\ \A answer \in cache :
       /\ answer.handoff = authority.handoff
       /\ \A w \in Wallet : answer.handoff \in Handoffs(w) => w = answer.from

(* A wallet sends once, and what it keeps is the envelope over the request *)
(* it was asked with.                                                      *)
SentInv ==
  \A w \in Wallet :
    /\ \A s, t \in wallet[w].outgoing : s = t
    /\ \A s \in wallet[w].outgoing : s.envelope.request = s.request
    /\ wallet[w].outgoing # {} => ~ wallet[w].owner /\ wallet[w].coin
    /\ wallet[w].pending # {} => wallet[w].owner
    /\ wallet[w].owner => wallet[w].coin

(* An undamaged envelope is in the journal of its sender. *)
FromSender(envelope) ==
  \E w \in Wallet : \E s \in wallet[w].outgoing : s.envelope = envelope

PackageInv ==
  \A envelope \in packageFiles : envelope.intact => FromSender(envelope)

(* What a wallet calls accepted is one package, as it came from a sender,  *)
(* over the request this wallet had saved.                                 *)
AcceptedInv ==
  \A w \in Wallet :
    /\ \A p, q \in wallet[w].accepted : p = q
    /\ \A pair \in wallet[w].accepted :
         /\ FromSender(pair[2])
         /\ pair[2].request = pair[1]
         /\ taken[w] = {[saved |-> pair[1], envelope |-> pair[2]]}

Inv == TypeOK /\ HandoffInv /\ SentInv /\ PackageInv /\ AcceptedInv

-----------------------------------------------------------------------------
(* Saving the journal of one wallet. *)
LEMMA SaveEffect ==
  ASSUME TypeOK, NEW w \in Wallet, NEW state \in Journals, Save(w, state)
  PROVE  /\ wallet' \in [Wallet -> Journals]
         /\ wallet'[w] = state
         /\ \A v \in Wallet : v # w => wallet'[v] = wallet[v]
BY DEF Save, TypeOK

(* A step that keeps what a wallet sent, was answered, accepted and owns.  *)
LEMMA QuietInv ==
  ASSUME Inv, TypeOK', UNCHANGED <<signer, taken>>,
         \A w \in Wallet : /\ wallet'[w].outgoing = wallet[w].outgoing
                           /\ wallet'[w].answer = wallet[w].answer
                           /\ wallet'[w].accepted = wallet[w].accepted
                           /\ wallet'[w].owner = wallet[w].owner
                           /\ wallet'[w].coin = wallet[w].coin,
         \A w \in Wallet : wallet'[w].pending = wallet[w].pending
                             \/ wallet[w].owner,
         \A e \in packageFiles' : e.intact => FromSender(e)
  PROVE  Inv'
<1>1. \A w \in Wallet : Handoffs(w)' = Handoffs(w)
  BY DEF Handoffs
<1>2. \A e : FromSender(e) => FromSender(e)'
  BY DEF FromSender
<1>3. HandoffInv'
  BY <1>1 DEF Inv, HandoffInv, signer
<1>4. SentInv'
  BY DEF Inv, SentInv
<1>5. PackageInv' /\ AcceptedInv'
  BY <1>2 DEF Inv, PackageInv, AcceptedInv
<1> QED
  BY <1>3, <1>4, <1>5 DEF Inv

LEMMA DrawRequestInv ==
  ASSUME Inv, NEW w \in Wallet, NEW terms \in Terms, DrawRequest(w, terms)
  PROVE  Inv'
<1> DEFINE request == [to |-> w, draw |-> draws.requests + 1, terms |-> terms]
           state == [wallet[w] EXCEPT !.incoming = {request}]
<1>1. /\ Save(w, state) /\ draws.requests < MaxDraws
      /\ draws' = [draws EXCEPT !.requests = @ + 1]
      /\ UNCHANGED <<signer, files, taken>>
  BY DEF DrawRequest
<1>2. draws.requests + 1 \in 1 .. MaxDraws
  BY <1>1, HandoverAssumption DEF Inv, TypeOK
<1>3. request \in Requests
  BY <1>2 DEF Requests
<1>4. wallet[w] \in Journals
  BY DEF Inv, TypeOK
<1> HIDE DEF request
<1>5. /\ state \in Journals
      /\ state.outgoing = wallet[w].outgoing /\ state.answer = wallet[w].answer
      /\ state.accepted = wallet[w].accepted /\ state.owner = wallet[w].owner
      /\ state.pending = wallet[w].pending /\ state.coin = wallet[w].coin
  BY <1>3, <1>4 DEF Journals
<1> HIDE DEF state
<1>6. /\ wallet' \in [Wallet -> Journals] /\ wallet'[w] = state
      /\ \A v \in Wallet : v # w => wallet'[v] = wallet[v]
  BY <1>1, <1>5, SaveEffect DEF Inv
<1>7. draws' \in [requests : 0 .. MaxDraws, envelopes : 0 .. MaxDraws]
  BY <1>1, <1>2, HandoverAssumption DEF Inv, TypeOK
<1>8. TypeOK'
  BY <1>1, <1>6, <1>7 DEF Inv, TypeOK, signer, files
<1> QED
  BY <1>1, <1>5, <1>6, <1>8, QuietInv DEF Inv, PackageInv, files

LEMMA BeginTransferInv ==
  ASSUME Inv, NEW w \in Wallet, NEW request \in requestFiles,
         BeginTransfer(w, request)
  PROVE  Inv'
<1> DEFINE state == [wallet[w] EXCEPT !.pending = {request}]
<1>1. /\ Save(w, state) /\ wallet[w].owner
      /\ UNCHANGED <<signer, files, draws, taken>>
  BY DEF BeginTransfer
<1>2. wallet[w] \in Journals /\ request \in Requests
  BY DEF Inv, TypeOK
<1>3. /\ state \in Journals
      /\ state.outgoing = wallet[w].outgoing /\ state.answer = wallet[w].answer
      /\ state.accepted = wallet[w].accepted /\ state.owner = wallet[w].owner
      /\ state.coin = wallet[w].coin
  BY <1>2 DEF Journals
<1> HIDE DEF state
<1>4. /\ wallet' \in [Wallet -> Journals] /\ wallet'[w] = state
      /\ \A v \in Wallet : v # w => wallet'[v] = wallet[v]
  BY <1>1, <1>3, SaveEffect DEF Inv
<1>5. TypeOK'
  BY <1>1, <1>4 DEF Inv, TypeOK, signer, files
<1> QED
  BY <1>1, <1>3, <1>4, <1>5, QuietInv DEF Inv, PackageInv, files

(* The files: written from a journal, edited or damaged. *)
LEMMA FilesInv ==
  ASSUME Inv, UNCHANGED <<wallet, signer, draws, taken>>,
         requestFiles' \subseteq Requests, packageFiles' \subseteq Envelopes,
         \A e \in packageFiles' : e.intact => e \in packageFiles \/ FromSender(e)
  PROVE  Inv'
<1>1. TypeOK'
  BY DEF Inv, TypeOK, signer
<1> QED
  BY <1>1, QuietInv DEF Inv, PackageInv

LEMMA WriteRequestInv ==
  ASSUME Inv, NEW w \in Wallet, WriteRequest(w) PROVE Inv'
BY FilesInv DEF WriteRequest, Inv, TypeOK, Journals

LEMMA WritePackageInv ==
  ASSUME Inv, NEW w \in Wallet, NEW request \in requestFiles,
         WritePackage(w, request)
  PROVE  Inv'
<1>1. PICK sent \in wallet[w].outgoing :
        /\ packageFiles' = packageFiles \cup {sent.envelope}
        /\ UNCHANGED <<wallet, signer, requestFiles, draws, taken>>
  BY DEF WritePackage
<1>2. sent.envelope \in Envelopes
  BY DEF Inv, TypeOK, Journals
<1>3. FromSender(sent.envelope)
  BY DEF FromSender
<1> QED
  BY <1>1, <1>2, <1>3, FilesInv DEF Inv, TypeOK

LEMMA EditRequestInv ==
  ASSUME Inv, NEW request \in requestFiles, NEW terms \in Terms,
         EditRequest(request, terms)
  PROVE  Inv'
<1>1. [request EXCEPT !.terms = terms] \in Requests
  BY DEF Inv, TypeOK, Requests
<1> QED
  BY <1>1, FilesInv DEF EditRequest, Inv, TypeOK

LEMMA DamagePackageInv ==
  ASSUME Inv, NEW envelope \in packageFiles, DamagePackage(envelope)
  PROVE  Inv'
<1> DEFINE damaged == [envelope EXCEPT !.intact = FALSE]
<1>1. damaged \in Envelopes /\ ~ damaged.intact
  BY DEF Inv, TypeOK, Envelopes
<1>2. packageFiles' = packageFiles \cup {damaged}
      /\ UNCHANGED <<wallet, signer, requestFiles, draws, taken>>
  BY DEF DamagePackage
<1> HIDE DEF damaged
<1> QED
  BY <1>1, <1>2, FilesInv DEF Inv, TypeOK

(* The signer draws a handoff nobody has. *)
LEMMA SignInv == ASSUME Inv, NEW w \in Wallet, Sign(w) PROVE Inv'
<1>1. PICK request \in wallet[w].pending :
        /\ authority' = [holder  |-> request.to, draw |-> request.draw,
                         handoff |-> authority.handoff + 1]
        /\ cache' = {[from    |-> w, request |-> request,
                      handoff |-> authority.handoff + 1]}
        /\ UNCHANGED <<wallet, files, draws, taken>>
  BY DEF Sign
<1>2. request \in Requests
  BY DEF Inv, TypeOK, Journals
<1>3. /\ authority.handoff + 1 \in Nat /\ request.to \in Wallet /\ request.draw \in Nat
      /\ authority'.handoff = authority.handoff + 1
      /\ authority.handoff \in Nat
  BY <1>1, <1>2, HandoverAssumption DEF Inv, TypeOK, Requests
<1>4. TypeOK'
  BY <1>1, <1>2, <1>3 DEF Inv, TypeOK, files
<1>5. \A v \in Wallet : Handoffs(v)' = Handoffs(v)
  BY <1>1 DEF Handoffs
<1>6. \A v \in Wallet : Handoffs(v) \subseteq Nat
  BY DEF Handoffs, Inv, TypeOK, Journals, Envelopes
<1>7. HandoffInv'
  BY <1>1, <1>3, <1>5, <1>6 DEF Inv, HandoffInv
<1>8. SentInv' /\ PackageInv' /\ AcceptedInv'
  BY <1>1 DEF Inv, SentInv, PackageInv, AcceptedInv, FromSender, files
<1> QED
  BY <1>4, <1>7, <1>8 DEF Inv

(* The answer of the cache is recorded by the sender it was given to. *)
LEMMA RecordResponseInv ==
  ASSUME Inv, NEW w \in Wallet, RecordResponse(w) PROVE Inv'
<1>1. PICK answer \in cache :
        /\ answer.from = w /\ wallet[w].answer = {}
        /\ Save(w, [wallet[w] EXCEPT !.answer = {answer.handoff}])
        /\ UNCHANGED <<signer, files, draws, taken>>
  BY DEF RecordResponse
<1> DEFINE state == [wallet[w] EXCEPT !.answer = {answer.handoff}]
<1>2. wallet[w] \in Journals /\ answer.handoff \in Nat
  BY DEF Inv, TypeOK
<1>3. /\ state \in Journals /\ state.answer = {answer.handoff}
      /\ state.outgoing = wallet[w].outgoing /\ state.pending = wallet[w].pending
      /\ state.accepted = wallet[w].accepted /\ state.owner = wallet[w].owner
      /\ state.coin = wallet[w].coin
  BY <1>2 DEF Journals
<1>4. Save(w, state)
  BY <1>1
<1> HIDE DEF state
<1>5. /\ wallet' \in [Wallet -> Journals] /\ wallet'[w] = state
      /\ \A v \in Wallet : v # w => wallet'[v] = wallet[v]
  BY <1>3, <1>4, SaveEffect DEF Inv
<1>6. TypeOK'
  BY <1>1, <1>5 DEF Inv, TypeOK, signer, files
<1>7. Handoffs(w)' = Handoffs(w) \cup {answer.handoff}
      /\ \A v \in Wallet : v # w => Handoffs(v)' = Handoffs(v)
  BY <1>1, <1>3, <1>5 DEF Handoffs
<1>8. answer.handoff = authority.handoff
      /\ \A v \in Wallet : answer.handoff \in Handoffs(v) => v = w
  BY <1>1 DEF Inv, HandoffInv
<1>9. HandoffInv'
  <2>1. \A v \in Wallet : \A h \in Handoffs(v)' : h <= authority'.handoff
    BY <1>1, <1>2, <1>7, <1>8 DEF Inv, HandoffInv, signer
  <2>2. \A u, v \in Wallet : u # v => Handoffs(u)' \cap Handoffs(v)' = {}
    BY <1>7, <1>8 DEF Inv, HandoffInv
  <2>3. \A a \in cache : a.handoff = authority.handoff /\ a.from = w
    BY <1>1, <1>8 DEF Inv, HandoffInv
  <2> QED
    BY <1>1, <1>7, <1>8, <2>1, <2>2, <2>3 DEF Inv, HandoffInv, signer
<1>10. \A e : FromSender(e) => FromSender(e)'
  BY <1>3, <1>5 DEF FromSender
<1>11. SentInv'
  BY <1>3, <1>5 DEF Inv, SentInv
<1>12. PackageInv' /\ AcceptedInv'
  BY <1>1, <1>3, <1>5, <1>10 DEF Inv, PackageInv, AcceptedInv, files
<1> QED
  BY <1>6, <1>9, <1>11, <1>12 DEF Inv

(* complete_transfer keeps the envelope it seals with the response. *)
LEMMA CompleteTransferInv ==
  ASSUME Inv, NEW w \in Wallet, CompleteTransfer(w) PROVE Inv'
<1>1. PICK request \in wallet[w].pending, handoff \in wallet[w].answer :
        /\ draws.envelopes < MaxDraws
        /\ draws' = [draws EXCEPT !.envelopes = @ + 1]
        /\ Save(w, Sent(wallet[w], request, Sealed(request, handoff)))
        /\ UNCHANGED <<signer, files, taken>>
  BY DEF CompleteTransfer
<1> DEFINE envelope == Sealed(request, handoff)
           sent == [request |-> request, envelope |-> envelope]
           state == Sent(wallet[w], request, envelope)
<1>2. wallet[w] \in Journals /\ request \in Requests /\ handoff \in Nat
  BY DEF Inv, TypeOK, Journals
<1>3. draws.envelopes + 1 \in 1 .. MaxDraws
      /\ draws' \in [requests : 0 .. MaxDraws, envelopes : 0 .. MaxDraws]
  BY <1>1, HandoverAssumption DEF Inv, TypeOK
<1>4. envelope \in Envelopes /\ envelope.request = request /\ envelope.handoff = handoff
  BY <1>2, <1>3 DEF Sealed, Envelopes
<1> HIDE DEF envelope
<1>5. sent \in [request : Requests, envelope : Envelopes]
      /\ sent.request = request /\ sent.envelope = envelope
  BY <1>2, <1>4
<1>6. state = [wallet[w] EXCEPT !.owner = FALSE, !.pending = {}, !.answer = {},
                                !.outgoing = {sent}]
  BY DEF Sent
<1>7. Save(w, state)
  BY <1>1 DEF envelope
<1> HIDE DEF sent, state
<1>8. /\ state \in Journals /\ state.answer = {} /\ state.outgoing = {sent}
      /\ state.pending = {} /\ ~ state.owner
      /\ state.accepted = wallet[w].accepted /\ state.coin = wallet[w].coin
  BY <1>2, <1>5, <1>6 DEF Journals
<1>9. /\ wallet' \in [Wallet -> Journals] /\ wallet'[w] = state
      /\ \A v \in Wallet : v # w => wallet'[v] = wallet[v]
  BY <1>7, <1>8, SaveEffect DEF Inv
<1>10. TypeOK'
  BY <1>1, <1>3, <1>9 DEF Inv, TypeOK, signer, files
<1>11. wallet[w].outgoing = {} /\ wallet[w].coin
  BY DEF Inv, SentInv
<1>12. Handoffs(w)' \subseteq Handoffs(w)
       /\ \A v \in Wallet : v # w => Handoffs(v)' = Handoffs(v)
  BY <1>4, <1>5, <1>8, <1>9 DEF Handoffs
<1>13. HandoffInv'
  BY <1>1, <1>12 DEF Inv, HandoffInv, signer
<1>14. \A e : FromSender(e) => FromSender(e)'
  BY <1>9, <1>11 DEF FromSender
<1>15. SentInv'
  <2> SUFFICES ASSUME NEW v \in Wallet
               PROVE  /\ \A s, t \in wallet'[v].outgoing : s = t
                      /\ \A s \in wallet'[v].outgoing : s.envelope.request = s.request
                      /\ wallet'[v].outgoing # {} =>
                           ~ wallet'[v].owner /\ wallet'[v].coin
                      /\ wallet'[v].pending # {} => wallet'[v].owner
                      /\ wallet'[v].owner => wallet'[v].coin
    BY DEF SentInv
  <2>1. CASE v = w
    <3>1. sent.envelope.request = sent.request
      BY <1>4, <1>5
    <3>2. /\ wallet'[v].outgoing = {sent} /\ wallet'[v].pending = {}
          /\ ~ wallet'[v].owner /\ wallet'[v].coin
      BY <2>1, <1>8, <1>9, <1>11
    <3> QED
      BY ONLY <3>1, <3>2
  <2>2. CASE v # w
    BY <2>2, <1>9 DEF Inv, SentInv
  <2> QED
    BY <2>1, <2>2
<1>16. PackageInv' /\ AcceptedInv'
  BY <1>1, <1>8, <1>9, <1>14 DEF Inv, PackageInv, AcceptedInv, files
<1> QED
  BY <1>10, <1>13, <1>15, <1>16 DEF Inv

LEMMA AcceptTransferInv ==
  ASSUME Inv, NEW w \in Wallet, NEW request \in requestFiles,
         NEW envelope \in packageFiles, AcceptTransfer(w, request, envelope)
  PROVE  Inv'
<1>1. PICK saved \in wallet[w].incoming :
        /\ ~ wallet[w].coin /\ saved = request
        /\ envelope.intact /\ envelope.request = request
        /\ Save(w, [wallet[w] EXCEPT !.coin     = TRUE,
                                     !.owner    = TRUE,
                                     !.draw     = saved.draw,
                                     !.handoff  = envelope.handoff,
                                     !.incoming = {},
                                     !.accepted = {<<request, envelope>>}])
        /\ taken' = [taken EXCEPT ![w] = {[saved |-> saved, envelope |-> envelope]}]
        /\ UNCHANGED <<signer, files, draws>>
  BY DEF AcceptTransfer, Decrypts, SameRequest
<1> DEFINE pair == <<request, envelope>>
           state == [wallet[w] EXCEPT !.coin     = TRUE,
                                      !.owner    = TRUE,
                                      !.draw     = saved.draw,
                                      !.handoff  = envelope.handoff,
                                      !.incoming = {},
                                      !.accepted = {pair}]
<1>2. /\ wallet[w] \in Journals /\ request \in Requests /\ envelope \in Envelopes
      /\ saved.draw \in Nat /\ envelope.handoff \in Nat
  BY <1>1, HandoverAssumption DEF Inv, TypeOK, Journals, Requests, Envelopes
<1>3. pair \in Requests \X Envelopes /\ pair[1] = request /\ pair[2] = envelope
  BY <1>2
<1>4. Save(w, state)
  BY <1>1
<1> HIDE DEF pair
<1>5. /\ state \in Journals /\ state.answer = wallet[w].answer
      /\ state.outgoing = wallet[w].outgoing /\ state.pending = wallet[w].pending
      /\ state.accepted = {pair} /\ state.coin /\ state.owner
  BY <1>2, <1>3 DEF Journals
<1> HIDE DEF state
<1>6. /\ wallet' \in [Wallet -> Journals] /\ wallet'[w] = state
      /\ \A v \in Wallet : v # w => wallet'[v] = wallet[v]
  BY <1>4, <1>5, SaveEffect DEF Inv
<1>7. /\ DOMAIN taken' = Wallet
      /\ taken'[w] = {[saved |-> pair[1], envelope |-> pair[2]]}
      /\ \A v \in Wallet : v # w => taken'[v] = taken[v]
  BY <1>1, <1>3 DEF Inv, TypeOK
<1>8. TypeOK'
  BY <1>1, <1>6, <1>7 DEF Inv, TypeOK, signer, files
<1>9. \A v \in Wallet : Handoffs(v)' = Handoffs(v)
  BY <1>5, <1>6 DEF Handoffs
<1>10. HandoffInv'
  BY <1>1, <1>9 DEF Inv, HandoffInv, signer
<1>11. SentInv'
  BY <1>1, <1>5, <1>6 DEF Inv, SentInv
<1>12. \A e : FromSender(e) => FromSender(e)'
  BY <1>5, <1>6 DEF FromSender
<1>13. FromSender(envelope)
  BY <1>1 DEF Inv, PackageInv
<1>14. PackageInv'
  BY <1>1, <1>12 DEF Inv, PackageInv, files
<1>15. AcceptedInv'
  BY <1>1, <1>3, <1>5, <1>6, <1>7, <1>12, <1>13 DEF Inv, AcceptedInv
<1> QED
  BY <1>8, <1>10, <1>11, <1>14, <1>15 DEF Inv

-----------------------------------------------------------------------------
LEMMA InitInv == Init => Inv
<1> SUFFICES ASSUME Init PROVE Inv
  OBVIOUS
<1> DEFINE funded == [EmptyWallet EXCEPT !.coin = TRUE, !.owner = TRUE]
<1>1. /\ EmptyWallet \in Journals /\ EmptyWallet.accepted = {}
      /\ EmptyWallet.answer = {} /\ EmptyWallet.outgoing = {}
      /\ EmptyWallet.pending = {}
      /\ ~ EmptyWallet.owner
  BY DEF EmptyWallet, Journals
<1>2. /\ funded \in Journals /\ funded.accepted = {} /\ funded.answer = {}
      /\ funded.outgoing = {} /\ funded.coin /\ funded.pending = {}
  BY DEF EmptyWallet, Journals
<1>3. \A w \in Wallet : wallet[w] = EmptyWallet \/ wallet[w] = funded
  BY DEF Init
<1> HIDE DEF funded
<1>4. \A w \in Wallet : wallet[w] \in Journals
  BY <1>1, <1>2, <1>3
<1>5. TypeOK
  BY <1>4, HandoverAssumption DEF Init, TypeOK
<1>6. \A w \in Wallet : Handoffs(w) = {} /\ wallet[w].outgoing = {}
                          /\ wallet[w].accepted = {}
  BY <1>1, <1>2, <1>3 DEF Handoffs
<1>7. \A w \in Wallet : wallet[w].owner => wallet[w].coin
  BY <1>1, <1>2, <1>3
<1>8. \A w \in Wallet : wallet[w].pending = {}
  BY <1>1, <1>2, <1>3
<1> QED
  BY <1>5, <1>6, <1>7, <1>8 DEF Init, Inv, HandoffInv, SentInv, PackageInv, AcceptedInv

LEMMA NextInv == ASSUME Inv, [Next]_vars PROVE Inv'
<1>1. CASE UNCHANGED vars
  BY <1>1, FilesInv DEF vars, files, Inv, TypeOK
<1>2. CASE Next
  BY <1>2, DrawRequestInv, WriteRequestInv, BeginTransferInv, WritePackageInv,
     SignInv, RecordResponseInv, CompleteTransferInv, AcceptTransferInv,
     EditRequestInv, DamagePackageInv
     DEF Next, Request, Send, Receive
<1> QED
  BY <1>1, <1>2

(* Whatever files the commands of either side are given, in any order.     *)
THEOREM Invariance == Spec => []Inv
BY InitInv, NextInv, PTL DEF Spec

(* A rerun of `coin sign` would write the very package the receiver        *)
(* journaled (complete_transfer keeps what it sealed, accept_transfer a    *)
(* fingerprint of it).                                                     *)
THEOREM SenderAndReceiverAgree == Spec => []RerunsAgree
<1>1. ASSUME Inv, NEW v \in Wallet, NEW w \in Wallet,
             NEW sent \in wallet[v].outgoing, NEW pair \in wallet[w].accepted,
             sent.envelope.handoff = pair[2].handoff
      PROVE  AlreadyAccepted(w, sent.request, sent.envelope)
  <2>1. PICK u \in Wallet : \E s \in wallet[u].outgoing : s.envelope = pair[2]
    BY <1>1 DEF Inv, AcceptedInv, FromSender
  <2>2. PICK s \in wallet[u].outgoing : s.envelope = pair[2]
    BY <2>1
  <2>3. /\ sent.envelope.handoff \in Handoffs(v)
        /\ sent.envelope.handoff \in Handoffs(u)
    BY <1>1, <2>2 DEF Handoffs
  <2>4. u = v
    BY <1>1, <2>3 DEF Inv, HandoffInv
  <2>5. sent = s
    BY <1>1, <2>4 DEF Inv, SentInv
  <2>6. sent.envelope = pair[2] /\ sent.request = pair[1]
    BY <1>1, <2>2, <2>5 DEF Inv, SentInv, AcceptedInv
  <2>7. pair = <<pair[1], pair[2]>>
    BY <1>1 DEF Inv, TypeOK, Journals
  <2>8. wallet[w].accepted = {pair}
    BY <1>1 DEF Inv, AcceptedInv
  <2> QED
    BY <2>6, <2>7, <2>8 DEF AlreadyAccepted
<1>2. Inv => RerunsAgree
  BY <1>1 DEF RerunsAgree
<1> QED
  BY <1>2, Invariance, PTL

(* accept_transfer takes no package for an edited request, and what it     *)
(* answers "already accepted" to is what it accepted.                      *)
THEOREM AcceptedOnOwnTerms == Spec => []AcceptedAsAsked
<1>1. Inv => AcceptedAsAsked
  <2> SUFFICES ASSUME Inv, NEW w \in Wallet, NEW request \in requestFiles,
                      NEW envelope \in packageFiles,
                      wallet[w].accepted = {<<request, envelope>>}
               PROVE  taken[w] = {[saved |-> request, envelope |-> envelope]}
    BY DEF AcceptedAsAsked, AlreadyAccepted
  <2> DEFINE pair == <<request, envelope>>
  <2>1. pair \in wallet[w].accepted /\ pair[1] = request /\ pair[2] = envelope
    OBVIOUS
  <2> HIDE DEF pair
  <2> QED
    BY <2>1 DEF Inv, AcceptedInv
<1> QED
  BY <1>1, Invariance, PTL
=============================================================================
