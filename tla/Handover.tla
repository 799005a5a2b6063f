------------------------------- MODULE Handover -------------------------------
(***************************************************************************)
(* The two files of a transfer, a request and a package, between the       *)
(* journals of the wallets that write and read them: begin_transfer_request *)
(* and accept_transfer in src/wallet-core/src/state.rs, TransferRequest,   *)
(* TransferEnvelope, encrypt_transfer and decrypt_transfer in              *)
(* src/wallet-core/src/transfer.rs, and the commands around them in        *)
(* src/wallet/src/cli.rs.                                                  *)
(*                                                                         *)
(* Files are carried by hand.  They may be old, belong to another          *)
(* transfer, be edited or damaged, and a command may be run again with any *)
(* of them.  What a request and an envelope draw at random is drawn anew   *)
(* by every run that gets that far.  Commands stop between any two saves.  *)
(*                                                                         *)
(* Abstractions.  One coin; the chain, the delays and restarts of the      *)
(* signer are in Transfer.  A request is drawn by a wallet: its draw       *)
(* stands for its ID, capability, withdrawal and transport key; its terms  *)
(* are the coin, outpoint, amount and margin it names.  An envelope is     *)
(* sealed over one exact request (the associated data of the encryption)   *)
(* under a fresh nonce; a fingerprint is the envelope.                     *)
(***************************************************************************)
EXTENDS Naturals, FiniteSets

CONSTANTS
  Wallet,
  First,      \* the wallet that funded the coin
  Terms,      \* what a request may ask for
  Fitting,    \* terms that name this coin, its outpoint and its amount
  MaxDraws    \* bound: draws of requests, and of envelopes

ASSUME HandoverAssumption ==
  First \in Wallet /\ Fitting \subseteq Terms /\ MaxDraws \in Nat

VARIABLES
  wallet,         \* each wallet.enc
  authority,      \* what the signer accepts next: a capability and a handoff
  cache,          \* its latest answer
  requestFiles, packageFiles,
  draws,          \* random draws so far, of requests and of envelopes
  taken           \* history: the two files each wallet accepted

signer == <<authority, cache>>
files  == <<requestFiles, packageFiles>>
vars   == <<wallet, signer, files, draws, taken>>

Requests == [to : Wallet, draw : 1 .. MaxDraws, terms : Terms]

Envelopes ==
  [request : Requests, nonce : 1 .. MaxDraws, handoff : Nat, intact : BOOLEAN]

EmptyWallet ==
  [coin     |-> FALSE,
   owner    |-> FALSE,   \* current_capability is Some
   draw     |-> 0,       \* the capability it owns the coin with
   handoff  |-> 0,
   incoming |-> {},      \* the request this wallet waits for
   accepted |-> {},      \* accepted_request, accepted_envelope_fingerprint
   pending  |-> {},      \* the request of a prepared or responded transfer
   answer   |-> {},      \* the handoff of its saved response
   outgoing |-> {}]      \* OutgoingTransfer

Init ==
  /\ wallet = [w \in Wallet |->
                 IF w = First
                 THEN [EmptyWallet EXCEPT !.coin = TRUE, !.owner = TRUE]
                 ELSE EmptyWallet]
  /\ authority = [holder |-> First, draw |-> 0, handoff |-> 0]
  /\ cache = {}
  /\ requestFiles = {}
  /\ packageFiles = {}
  /\ draws = [requests |-> 0, envelopes |-> 0]
  /\ taken = [w \in Wallet |-> {}]

Save(w, state) == wallet' = [wallet EXCEPT ![w] = state]

-----------------------------------------------------------------------------
(* transfer request *)

(* begin_transfer_request: a saved request is returned again, for the same *)
(* terms only.                                                             *)
MayDrawAgain(state) == ~ state.coin

MayDraw(state) == ~ state.coin /\ state.incoming = {}

DrawRequest(w, terms) ==
  LET request == [to |-> w, draw |-> draws.requests + 1, terms |-> terms]
  IN  /\ MayDraw(wallet[w])
      /\ draws.requests < MaxDraws
      /\ draws' = [draws EXCEPT !.requests = @ + 1]
      /\ Save(w, [wallet[w] EXCEPT !.incoming = {request}])
      /\ UNCHANGED <<signer, files, taken>>

(* The saved request is written, by this run or by a later one. *)
WriteRequest(w) ==
  /\ ~ wallet[w].coin
  /\ wallet[w].incoming # {}
  /\ requestFiles' = requestFiles \cup wallet[w].incoming
  /\ UNCHANGED <<wallet, signer, packageFiles, draws, taken>>

-----------------------------------------------------------------------------
(* coin sign *)

(* validate_outgoing_transfer_request and begin_transfer: the request asks *)
(* for this coin and for another capability than the sender's own.  The    *)
(* sender cannot tell whether it is what its receiver saved, nor whether   *)
(* it was accepted before.                                                 *)
BeginTransfer(w, request) ==
  LET state == wallet[w]
  IN  /\ state.owner
      /\ state.pending = {} /\ state.outgoing = {}
      /\ request.terms \in Fitting
      /\ <<request.to, request.draw>> # <<w, state.draw>>
      /\ authority = [holder |-> w, draw |-> state.draw, handoff |-> state.handoff]
      /\ Save(w, [state EXCEPT !.pending = {request}])
      /\ UNCHANGED <<signer, files, draws, taken>>

(* The signer rotates its authorization; the answer may be lost. *)
Sign(w) ==
  \E request \in wallet[w].pending :
    LET handoff == authority.handoff + 1 IN
    /\ authority.holder = w /\ authority.draw = wallet[w].draw
    /\ authority.handoff = wallet[w].handoff
    /\ authority' =
         [holder |-> request.to, draw |-> request.draw, handoff |-> handoff]
    /\ cache' = {[from |-> w, request |-> request, handoff |-> handoff]}
    /\ UNCHANGED <<wallet, files, draws, taken>>

(* record_sign_response, of the answer or of its retry. *)
RecordResponse(w) ==
  \E answer \in cache :
    /\ answer.from = w /\ answer.request \in wallet[w].pending
    /\ wallet[w].answer = {}
    /\ Save(w, [wallet[w] EXCEPT !.answer = {answer.handoff}])
    /\ UNCHANGED <<signer, files, draws, taken>>

(* encrypt_transfer. *)
Sealed(request, handoff) ==
  [request |-> request, nonce |-> draws.envelopes + 1, handoff |-> handoff,
   intact |-> TRUE]

(* complete_transfer: the envelope becomes durable before it is written,   *)
(* so that no rerun seals another.                                         *)
SentStillPending(state, request, envelope) ==
  [state EXCEPT !.owner    = FALSE,
                !.outgoing = {[request |-> request, envelope |-> envelope]}]

Sent(state, request, envelope) ==
  [state EXCEPT !.owner    = FALSE,
                !.pending  = {},
                !.answer   = {},
                !.outgoing = {[request |-> request, envelope |-> envelope]}]

CompleteTransfer(w) ==
  \E request \in wallet[w].pending, handoff \in wallet[w].answer :
    /\ draws.envelopes < MaxDraws
    /\ draws' = [draws EXCEPT !.envelopes = @ + 1]
    /\ Save(w, Sent(wallet[w], request, Sealed(request, handoff)))
    /\ UNCHANGED <<signer, files, taken>>

(* `coin sign` with the request it was sent for writes the saved envelope; *)
(* with another request it refuses.                                        *)
WritePackage(w, request) ==
  \E sent \in wallet[w].outgoing :
    /\ sent.request = request
    /\ packageFiles' = packageFiles \cup {sent.envelope}
    /\ UNCHANGED <<wallet, signer, requestFiles, draws, taken>>

-----------------------------------------------------------------------------
(* transfer accept *)

(* decrypt_transfer: the envelope is sealed to the transport key of the    *)
(* saved request, over the request that is given with it.                  *)
Decrypts(saved, request, envelope) ==
  /\ envelope.intact
  /\ envelope.request = request
  /\ saved.to = request.to /\ saved.draw = request.draw

(* The given request is the saved one. *)
SameRequestID(saved, request) ==
  saved.to = request.to /\ saved.draw = request.draw

SameRequest(saved, request) == saved = request

(* accept_transfer: the package is for the saved request, and the signer   *)
(* accepts the pair that comes with it.                                    *)
AcceptTransfer(w, request, envelope) ==
  \E saved \in wallet[w].incoming :
    /\ ~ wallet[w].coin
    /\ Decrypts(saved, request, envelope)
    /\ SameRequest(saved, request)
    /\ authority = [holder |-> w, draw |-> saved.draw, handoff |-> envelope.handoff]
    /\ Save(w, [wallet[w] EXCEPT !.coin     = TRUE,
                                 !.owner    = TRUE,
                                 !.draw     = saved.draw,
                                 !.handoff  = envelope.handoff,
                                 !.incoming = {},
                                 !.accepted = {<<request, envelope>>}])
    /\ taken' = [taken EXCEPT ![w] = {[saved |-> saved, envelope |-> envelope]}]
    /\ UNCHANGED <<signer, files, draws>>

(* A wallet that has a coin answers "already accepted" to the very same    *)
(* files and refuses all others.                                           *)
SameRequestAccepted(w, request, envelope) ==
  \E pair \in wallet[w].accepted : pair[1] = request

AlreadyAccepted(w, request, envelope) ==
  wallet[w].accepted = {<<request, envelope>>}

-----------------------------------------------------------------------------
(* The files in the operators' hands. *)

EditRequest(request, terms) ==
  /\ requestFiles' = requestFiles \cup {[request EXCEPT !.terms = terms]}
  /\ UNCHANGED <<wallet, signer, packageFiles, draws, taken>>

DamagePackage(envelope) ==
  /\ packageFiles' = packageFiles \cup {[envelope EXCEPT !.intact = FALSE]}
  /\ UNCHANGED <<wallet, signer, requestFiles, draws, taken>>

Request(w) == (\E terms \in Terms : DrawRequest(w, terms)) \/ WriteRequest(w)

Send(w) ==
  \/ \E request \in requestFiles : BeginTransfer(w, request) \/ WritePackage(w, request)
  \/ Sign(w) \/ RecordResponse(w) \/ CompleteTransfer(w)

Receive(w) ==
  \E request \in requestFiles, envelope \in packageFiles :
    AcceptTransfer(w, request, envelope)

Next ==
  \/ \E w \in Wallet : Request(w) \/ Send(w) \/ Receive(w)
  \/ \E request \in requestFiles, terms \in Terms : EditRequest(request, terms)
  \/ \E envelope \in packageFiles : DamagePackage(envelope)

Spec == Init /\ [][Next]_vars

(* Operators who rerun what was interrupted. *)
FairSpec ==
  Spec /\ \A w \in Wallet : WF_vars(Send(w)) /\ WF_vars(Receive(w))

-----------------------------------------------------------------------------
(* Sender and receiver agree on a transfer that was accepted: what the     *)
(* receiver journaled is exactly the pair the sender would write again, so *)
(* that a rerun on either side finds the same transfer and never another.  *)
RerunsAgree ==
  \A v, w \in Wallet : \A sent \in wallet[v].outgoing, pair \in wallet[w].accepted :
    sent.envelope.handoff = pair[2].handoff
      => AlreadyAccepted(w, sent.request, sent.envelope)

(* A receiver has the coin on its own terms: it accepted a package for     *)
(* exactly the request it saved, and not for an edited copy of it; and it  *)
(* calls accepted only what it did accept: no damaged or other package,    *)
(* not even one that a later sender sealed over the same request.          *)
AcceptedAsAsked ==
  \A w \in Wallet, request \in requestFiles, envelope \in packageFiles :
    AlreadyAccepted(w, request, envelope) =>
      taken[w] = {[saved |-> request, envelope |-> envelope]}

(* A transfer to a request as it was saved reaches its receiver, wherever  *)
(* `coin sign` and `transfer accept` were stopped.                         *)
TransferIsAccepted ==
  \A v, w \in Wallet :
    (wallet[v].pending \cap wallet[w].incoming # {}) ~> wallet[w].coin
=============================================================================
