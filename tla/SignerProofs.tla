---------------------------- MODULE SignerProofs ----------------------------
(***************************************************************************)
(* Theorems about Signer, for every value of its constants.                *)
(*                                                                         *)
(* NoFork and CountIsHistory are not inductive: nothing in them says that  *)
(* a drawn handoff is new.  Inv adds that handoffs grow along the          *)
(* signatures of a key, that a key belongs to one coin, and that the cache *)
(* is the last signature of the coin.                                      *)
(***************************************************************************)
EXTENDS Signer, FiniteSetTheorems, TLAPS

(* Every key and every handoff in use was drawn before. *)
DrawnInv ==
  /\ \A id \in DOMAIN coins :
       /\ coins[id].signing_key \in 1 .. keys
       /\ coins[id].authorization.handoff <= drawn
  /\ \A a \in issued :
       /\ KeyOf(a) \in 1 .. keys
       /\ a.request.current_handoff < a.response.next_handoff
       /\ a.response.next_handoff <= drawn

(* A key belongs to one coin. *)
KeyInv ==
  \A id1, id2 \in DOMAIN coins :
    coins[id1].signing_key = coins[id2].signing_key => id1 = id2

(* Along one key: one answer a count, counts and handoffs grow together. *)
OrderInv ==
  \A a, b \in issued : KeyOf(a) = KeyOf(b) =>
    /\ a.number = b.number => a = b
    /\ a.number < b.number =>
         a.response.next_handoff <= b.request.current_handoff

(* The registered coin is at the end of the chain of its key. *)
CoinInv ==
  \A id \in DOMAIN coins :
    /\ \A a \in issued : KeyOf(a) = coins[id].signing_key =>
         /\ a.number \in 1 .. coins[id].signature_count
         /\ a.response.next_handoff <= coins[id].authorization.handoff
         /\ a.number = coins[id].signature_count =>
              /\ Produced(a.request, a.response) = coins[id].authorization
              /\ coins[id].last =
                   {[request |-> a.request, response |-> a.response]}
    /\ \A n \in 1 .. coins[id].signature_count :
         \E a \in issued : KeyOf(a) = coins[id].signing_key /\ a.number = n
    /\ coins[id].signature_count = 0 => coins[id].last = {}

(* Neighbours in the chain: the later one spends what the earlier made. *)
ChainInv ==
  \A a, b \in issued :
    KeyOf(a) = KeyOf(b) /\ b.number = a.number + 1
      => Produced(a.request, a.response) = Consumed(b.request)

Inv ==
  TypeOK /\ DrawnInv /\ KeyInv /\ OrderInv /\ CoinInv /\ ChainInv

-----------------------------------------------------------------------------
(* What the map of coins holds after one entry was written (HashMap::insert *)
(* in register, the assignment through get_mut in sign).                   *)
LEMMA InsertEffect ==
  ASSUME NEW id, NEW coin, Insert(id, coin)
  PROVE  /\ DOMAIN coins' = DOMAIN coins \cup {id}
         /\ coins' = [i \in DOMAIN coins' |-> coins'[i]]
         /\ coins'[id] = coin
         /\ \A i \in DOMAIN coins : i # id => coins'[i] = coins[i]
BY DEF Insert

(* A retry records the answer that was recorded when the request was       *)
(* signed, so it changes nothing (the cached branch of sign).              *)
LEMMA RetryChangesNothing ==
  ASSUME Inv, NEW request, RetrySign(request)
  PROVE  UNCHANGED vars
<1> DEFINE coin == coins[request.coin_id]
<1>1. request.coin_id \in DOMAIN coins /\ IsRetry(coin, request)
  BY DEF RetrySign
<1>2. coin \in Coin
  BY <1>1 DEF Inv, TypeOK
<1>3. coin.signature_count # 0 /\ coin.signature_count \in Nat
  BY <1>1, <1>2, MaxCountAssumption DEF Inv, CoinInv, IsRetry, Coin
<1>4. PICK a \in issued : KeyOf(a) = coin.signing_key
                          /\ a.number = coin.signature_count
  BY <1>1, <1>3 DEF Inv, CoinInv
<1>5. coin.last = {[request |-> a.request, response |-> a.response]}
  BY <1>1, <1>4 DEF Inv, CoinInv
<1>6. a.request = request /\ CachedResponse(coin) = a.response
  BY <1>1, <1>5 DEF IsRetry, CachedResponse
<1>7. a = [number   |-> coin.signature_count,
           request  |-> request,
           response |-> CachedResponse(coin)]
  BY <1>4, <1>6 DEF Inv, TypeOK, Answer
<1>8. QED
  BY <1>7 DEF RetrySign, Record, vars

(* What a new signature does to the coin and to the history (the two       *)
(* assignments at the end of sign).                                        *)
LEMMA SignEffect ==
  ASSUME TypeOK, NEW request \in Requests, Sign(request)
  PROVE  LET id       == request.coin_id
             coin     == coins[id]
             response == AnswerTo(coin, request, drawn + 1)
             a        == [number   |-> coin.signature_count + 1,
                          request  |-> request,
                          response |-> response]
         IN  /\ id \in DOMAIN coins
             /\ coin \in Coin
             /\ Consumed(request) = coin.authorization
             /\ request.current_handoff = coin.authorization.handoff
             /\ coin.signature_count + 1 \in 1 .. MaxCount
             /\ response \in SignResponse
             /\ response.next_handoff = drawn + 1
             /\ KeyOf(a) = coin.signing_key
             /\ a \in Answer
             /\ issued' = issued \cup {a}
             /\ drawn' = drawn + 1
             /\ keys' = keys
             /\ DOMAIN coins' = DOMAIN coins
             /\ coins' = [i \in DOMAIN coins' |-> coins'[i]]
             /\ \A i \in DOMAIN coins : i # id => coins'[i] = coins[i]
             /\ coins'[id] \in Coin
             /\ coins'[id].signing_key = coin.signing_key
             /\ coins'[id].signature_count = coin.signature_count + 1
             /\ coins'[id].authorization = Produced(request, response)
             /\ coins'[id].authorization.coin_id = id
             /\ coins'[id].authorization.handoff = drawn + 1
             /\ coins'[id].last =
                  {[request |-> request, response |-> response]}
<1> DEFINE id == request.coin_id
           coin == coins[id]
           response == AnswerTo(coin, request, drawn + 1)
           a == [number |-> coin.signature_count + 1,
                 request |-> request, response |-> response]
<1>1. /\ id \in DOMAIN coins
      /\ CanSign(coin, request)
      /\ Insert(id, SignedCoin(coin, request, response))
      /\ issued' = issued \cup {a}
      /\ drawn' = drawn + 1
      /\ keys' = keys
  BY DEF Sign, Record
<1>2. coin \in Coin
  BY <1>1 DEF TypeOK
<1>3. request \in SignRequest
  BY DEF Requests, SignRequest, TypeOK
<1>4. /\ Consumed(request) = coin.authorization
      /\ request.current_handoff = coin.authorization.handoff
      /\ coin.signature_count + 1 \in 1 .. MaxCount
  BY <1>1, <1>2, MaxCountAssumption DEF CanSign, Consumed, Authorization, Coin
<1>5. /\ response \in SignResponse
      /\ response.next_handoff = drawn + 1
      /\ KeyOf(a) = coin.signing_key
  BY <1>2, <1>3 DEF AnswerTo, SignResponse, SignRequest, Coin, KeyOf, TypeOK
<1>6. a \in Answer
  BY <1>3, <1>4, <1>5 DEF Answer
<1>7. /\ DOMAIN coins' = DOMAIN coins
      /\ coins' = [i \in DOMAIN coins' |-> coins'[i]]
      /\ coins'[id] = SignedCoin(coin, request, response)
      /\ \A i \in DOMAIN coins : i # id => coins'[i] = coins[i]
  BY <1>1, InsertEffect
<1>8. Produced(request, response) =
        [coin_id         |-> id,
         capability_hash |-> request.next_capability_hash,
         handoff         |-> drawn + 1]
  BY <1>5 DEF Produced, Authorization
<1>9. /\ coins'[id].signing_key = coin.signing_key
      /\ coins'[id].signature_count = coin.signature_count + 1
      /\ coins'[id].authorization = Produced(request, response)
      /\ coins'[id].last = {[request |-> request, response |-> response]}
  BY <1>2, <1>7 DEF SignedCoin, Coin
<1>10. coins'[id] \in Coin
  BY <1>2, <1>3, <1>4, <1>5, <1>7, <1>8, MaxCountAssumption
     DEF SignedCoin, Coin, SignRequest, TypeOK
<1>11. /\ coins'[id].authorization.coin_id = id
       /\ coins'[id].authorization.handoff = drawn + 1
  BY <1>8, <1>9
<1>12. QED
  BY <1>1, <1>2, <1>4, <1>5, <1>6, <1>7, <1>9, <1>10, <1>11

-----------------------------------------------------------------------------
(* A process that has just booted (Signer::new) satisfies Inv. *)
LEMMA InitInv == Init => Inv
BY MaxKeysAssumption
   DEF Init, NoCoins, Inv, TypeOK, DrawnInv, KeyInv, OrderInv, CoinInv, ChainInv

(* register: the key of the new coin was never drawn, so it has signed     *)
(* nothing and belongs to no other coin.                                   *)
LEMMA RegisterInv ==
  ASSUME Inv, NEW id \in CoinId, NEW hash \in CapabilityHashes,
         Register(id, hash)
  PROVE  Inv'
<1> USE DEF Inv
<1>1. /\ id \notin DOMAIN coins
      /\ keys' = keys + 1
      /\ keys' \in 1 .. MaxKeys
      /\ drawn' = drawn
      /\ issued' = issued
  BY MaxKeysAssumption DEF Register, Admits, TypeOK
<1>2. /\ DOMAIN coins' = DOMAIN coins \cup {id}
      /\ coins' = [i \in DOMAIN coins' |-> coins'[i]]
      /\ coins'[id] = NewCoin(id, hash, keys + 1)
      /\ \A i \in DOMAIN coins : coins'[i] = coins[i]
  BY <1>1, InsertEffect DEF Register
<1>3. /\ coins'[id].signing_key = keys + 1
      /\ coins'[id].authorization =
           [coin_id |-> id, capability_hash |-> hash, handoff |-> 0]
      /\ coins'[id].signature_count = 0
      /\ coins'[id].last = {}
  BY <1>2 DEF NewCoin, Authorization, INITIAL_HANDOFF
<1>4. coins'[id] \in Coin
  BY <1>2, <1>3, MaxCountAssumption
     DEF Coin, TypeOK, NewCoin, Authorization, INITIAL_HANDOFF
<1>5. TypeOK'
  BY <1>1, <1>2, <1>3, <1>4 DEF TypeOK
<1>6. DrawnInv'
  <2>1. keys \in Nat /\ drawn \in Nat
    BY DEF TypeOK
  <2>2. \A i \in DOMAIN coins' :
          coins'[i].signing_key \in 1 .. keys'
          /\ coins'[i].authorization.handoff <= drawn'
    BY <1>1, <1>2, <1>3, <2>1 DEF DrawnInv
  <2>3. \A a \in issued' : KeyOf(a) \in 1 .. keys'
    BY <1>1, <2>1 DEF DrawnInv
  <2>4. QED
    BY <1>1, <2>2, <2>3 DEF DrawnInv, KeyOf
<1>7. \A a \in issued : KeyOf(a) # keys + 1
  BY DEF DrawnInv, TypeOK
<1>8. \A i \in DOMAIN coins : coins[i].signing_key # keys + 1
  BY DEF DrawnInv, TypeOK
<1>9. KeyInv'
  BY <1>1, <1>2, <1>3, <1>8 DEF KeyInv
<1>10. OrderInv' /\ ChainInv'
  BY <1>1 DEF OrderInv, ChainInv, KeyOf, Produced, Consumed
<1>11. CoinInv'
  BY <1>1, <1>2, <1>3, <1>7 DEF CoinInv, KeyOf
<1>12. QED
  BY <1>5, <1>6, <1>9, <1>10, <1>11

(* sign: the fresh handoff is above every handoff drawn before, so the new *)
(* answer extends the chain of its key at the end.                         *)
LEMMA SignInv ==
  ASSUME Inv, NEW request \in Requests, Sign(request)
  PROVE  Inv'
<1> DEFINE id == request.coin_id
           coin == coins[id]
           response == AnswerTo(coin, request, drawn + 1)
           new == [number |-> coin.signature_count + 1,
                   request |-> request, response |-> response]
<1> USE DEF Inv
<1>1. /\ id \in DOMAIN coins
      /\ coin \in Coin
      /\ Consumed(request) = coin.authorization
      /\ request.current_handoff = coin.authorization.handoff
      /\ coin.signature_count + 1 \in 1 .. MaxCount
      /\ new.response.next_handoff = drawn + 1
      /\ KeyOf(new) = coin.signing_key
      /\ new \in Answer
  BY SignEffect
<1>2. /\ issued' = issued \cup {new}
      /\ drawn' = drawn + 1
      /\ keys' = keys
      /\ DOMAIN coins' = DOMAIN coins
      /\ coins' = [i \in DOMAIN coins' |-> coins'[i]]
      /\ \A i \in DOMAIN coins : i # id => coins'[i] = coins[i]
  BY SignEffect
<1>3. /\ coins'[id] \in Coin
      /\ coins'[id].signing_key = coin.signing_key
      /\ coins'[id].signature_count = coin.signature_count + 1
      /\ coins'[id].authorization = Produced(new.request, new.response)
      /\ coins'[id].authorization.coin_id = id
      /\ coins'[id].authorization.handoff = drawn + 1
      /\ coins'[id].last =
           {[request |-> new.request, response |-> new.response]}
  BY SignEffect
<1>4. new.request = request /\ new.number = coin.signature_count + 1
  OBVIOUS
<1> HIDE DEF new, response
<1>5. TypeOK'
  BY <1>1, <1>2, <1>3 DEF TypeOK
<1>6. coin.signature_count \in Nat /\ drawn \in Nat /\ keys \in Nat
  BY <1>1, MaxCountAssumption DEF Coin, TypeOK
<1>7. coin.authorization.handoff \in Nat /\ coin.authorization.handoff <= drawn
  BY <1>1 DEF Coin, DrawnInv
<1>8. DrawnInv'
  <2>1. \A i \in DOMAIN coins :
          coins[i].authorization.handoff \in Nat
    BY DEF TypeOK, Coin
  <2>2. \A i \in DOMAIN coins' :
          coins'[i].signing_key \in 1 .. keys'
          /\ coins'[i].authorization.handoff <= drawn'
    BY <1>1, <1>2, <1>3, <1>6, <2>1 DEF DrawnInv
  <2>3. ASSUME NEW a \in issued
        PROVE  /\ KeyOf(a) \in 1 .. keys
               /\ a.request.current_handoff < a.response.next_handoff
               /\ a.response.next_handoff <= drawn + 1
    BY <1>6 DEF DrawnInv, TypeOK, Answer, SignResponse, SignRequest
  <2>4. /\ KeyOf(new) \in 1 .. keys
        /\ new.request.current_handoff < new.response.next_handoff
        /\ new.response.next_handoff <= drawn + 1
    BY <1>1, <1>4, <1>6, <1>7 DEF DrawnInv
  <2>5. QED
    BY <1>2, <2>2, <2>3, <2>4 DEF DrawnInv, KeyOf
<1>9. KeyInv'
  BY <1>1, <1>2, <1>3 DEF KeyInv
<1>10. ASSUME NEW a \in issued, KeyOf(a) = coin.signing_key
       PROVE  /\ a.number \in Nat /\ a.number <= coin.signature_count
              /\ a.response.next_handoff <= coin.authorization.handoff
              /\ a.number = coin.signature_count
                   => Produced(a.request, a.response) = coin.authorization
  BY <1>1, <1>6, <1>10 DEF CoinInv
<1>11. OrderInv'
  BY <1>1, <1>2, <1>4, <1>6, <1>10 DEF OrderInv, KeyOf
<1>12. ChainInv'
  <2>1. ASSUME NEW a \in issued, KeyOf(a) = KeyOf(new),
               new.number = a.number + 1
        PROVE  Produced(a.request, a.response) = Consumed(new.request)
    BY <1>1, <1>4, <1>6, <1>10, <2>1
  <2>2. ASSUME NEW b \in issued, KeyOf(b) = KeyOf(new),
               b.number = new.number + 1
        PROVE  FALSE
    BY <1>1, <1>4, <1>6, <1>10, <2>2
  <2>3. new.number # new.number + 1
    BY <1>4, <1>6
  <2>4. QED
    BY <1>2, <2>1, <2>2, <2>3 DEF ChainInv, KeyOf, Produced, Consumed
<1>13. CoinInv'
  <2>1. ASSUME NEW i \in DOMAIN coins, i # id
        PROVE  coins[i].signing_key # coin.signing_key
    BY <1>1, <2>1 DEF KeyInv
  <2> DEFINE At(i) ==
       /\ \A a \in issued' : KeyOf(a) = coins'[i].signing_key =>
            /\ a.number \in 1 .. coins'[i].signature_count
            /\ a.response.next_handoff <= coins'[i].authorization.handoff
            /\ a.number = coins'[i].signature_count =>
                 /\ Produced(a.request, a.response) = coins'[i].authorization
                 /\ coins'[i].last =
                      {[request |-> a.request, response |-> a.response]}
       /\ \A n \in 1 .. coins'[i].signature_count :
            \E a \in issued' : KeyOf(a) = coins'[i].signing_key /\ a.number = n
       /\ coins'[i].signature_count = 0 => coins'[i].last = {}
  <2>2. ASSUME NEW i \in DOMAIN coins, i # id
        PROVE  At(i)
    BY <1>1, <1>2, <2>1, <2>2 DEF CoinInv
  <2>3. At(id)
    <3>1. ASSUME NEW a \in issued, KeyOf(a) = coin.signing_key
          PROVE  /\ a.number \in 1 .. coin.signature_count + 1
                 /\ a.number # coin.signature_count + 1
                 /\ a.response.next_handoff <= drawn + 1
      <4>1. a.response.next_handoff \in Nat
        BY <3>1 DEF TypeOK, Answer, SignResponse
      <4>2. QED
        BY <1>1, <1>6, <1>7, <3>1, <4>1 DEF CoinInv
    <3>2. \A n \in 1 .. coin.signature_count + 1 :
            \E a \in issued' : KeyOf(a) = coin.signing_key /\ a.number = n
      <4>1. \A n \in 1 .. coin.signature_count :
              \E a \in issued : KeyOf(a) = coin.signing_key /\ a.number = n
        BY <1>1 DEF CoinInv
      <4>2. QED
        BY <1>1, <1>2, <1>4, <1>6, <4>1
    <3>3. coin.signature_count + 1 # 0
      BY <1>6
    <3>4. /\ new.number \in 1 .. coin.signature_count + 1
          /\ new.response.next_handoff <= drawn + 1
      BY <1>1, <1>4, <1>6
    <3>5. QED
      BY <1>1, <1>2, <1>3, <1>4, <3>1, <3>2, <3>3, <3>4
  <2>4. \A i \in DOMAIN coins' : At(i)
    BY <1>2, <2>2, <2>3
  <2>5. QED
    BY <2>4 DEF CoinInv, KeyOf, Produced
<1>14. QED
  BY <1>5, <1>8, <1>9, <1>11, <1>12, <1>13

(* A restart of the process forgets the coins but no answer it gave. *)
LEMMA RestartInv == Inv /\ Restart => Inv'
BY DEF Restart, NoCoins, Inv, TypeOK, DrawnInv, KeyInv, OrderInv, CoinInv,
       ChainInv, KeyOf, Produced, Consumed

(* A request that is answered with an error, or a status, changes nothing. *)
LEMMA StutterInv == Inv /\ UNCHANGED vars => Inv'
BY DEF vars, Inv, TypeOK, DrawnInv, KeyInv, OrderInv, CoinInv, ChainInv,
       KeyOf, Produced, Consumed, Coin, Answer

(* Every request and every restart keeps Inv. *)
LEMMA NextInv == Inv /\ [Next]_vars => Inv'
<1> SUFFICES ASSUME Inv, [Next]_vars PROVE Inv'
  OBVIOUS
<1>1. CASE \E id \in CoinId, hash \in CapabilityHashes : Register(id, hash)
  BY <1>1, RegisterInv
<1>2. CASE \E request \in Requests : RetrySign(request)
  BY <1>2, RetryChangesNothing, StutterInv
<1>3. CASE \E request \in Requests : Sign(request)
  BY <1>3, SignInv
<1>4. CASE Restart
  BY <1>4, RestartInv
<1>5. CASE UNCHANGED vars
  BY <1>5, StutterInv
<1>6. QED
  BY <1>1, <1>2, <1>3, <1>4, <1>5 DEF Next

(* Inv holds in every state of the process, whatever the clients send. *)
THEOREM Invariance == Spec => []Inv
BY InitInv, NextInv, PTL DEF Spec

-----------------------------------------------------------------------------
(* Type correctness, including the width of signature_count: the checked   *)
(* addition keeps it within u64.                                           *)
THEOREM TypeCorrect == Spec => []TypeOK
BY Invariance, PTL DEF Inv

(* Two answers of one key for one authorization are the same answer: a     *)
(* retry never yields a second signature, and two owners that race on one  *)
(* authorization never both get one.                                       *)
THEOREM NoForkHolds == Spec => []NoFork
<1>1. Inv => NoFork
  <2> SUFFICES ASSUME Inv, NEW a \in issued, NEW b \in issued,
                      KeyOf(a) = KeyOf(b),
                      Consumed(a.request) = Consumed(b.request)
               PROVE  a = b
    BY DEF NoFork
  <2>1. a.request.current_handoff = b.request.current_handoff
    BY DEF Consumed, Authorization
  <2>2. /\ a.request.current_handoff < a.response.next_handoff
        /\ b.request.current_handoff < b.response.next_handoff
    BY DEF Inv, DrawnInv
  <2>3. /\ a.number \in Nat /\ b.number \in Nat
        /\ a.request.current_handoff \in Nat
        /\ a.response.next_handoff \in Nat /\ b.response.next_handoff \in Nat
    BY DEF Inv, TypeOK, Answer, SignRequest, SignResponse
  <2>4. /\ a.number < b.number =>
             a.response.next_handoff <= b.request.current_handoff
        /\ b.number < a.number =>
             b.response.next_handoff <= a.request.current_handoff
        /\ a.number = b.number => a = b
    BY DEF Inv, OrderInv
  <2>5. QED
    BY <2>1, <2>2, <2>3, <2>4
<1>2. QED
  BY <1>1, Invariance, PTL

(* The count a wallet reads in a status is the length of the one chain of  *)
(* signatures its coin has.                                                *)
THEOREM CountIsHistoryHolds == Spec => []CountIsHistory
<1>1. Inv => CountIsHistory
  <2> SUFFICES ASSUME Inv, NEW id \in DOMAIN coins
               PROVE  LET coin == coins[id]
                          made(n) == {a \in issued :
                             KeyOf(a) = coin.signing_key /\ a.number = n}
                      IN  /\ \A a \in issued : KeyOf(a) = coin.signing_key =>
                               a.number \in 1 .. coin.signature_count
                          /\ \A n \in 1 .. coin.signature_count :
                               \E a \in made(n) :
                                 /\ made(n) = {a}
                                 /\ IF n = coin.signature_count
                                    THEN Produced(a.request, a.response)
                                           = coin.authorization
                                    ELSE \A b \in made(n + 1) :
                                           Produced(a.request, a.response)
                                             = Consumed(b.request)
    BY DEF CountIsHistory
  <2> DEFINE coin == coins[id]
             made(n) == {a \in issued :
                           KeyOf(a) = coin.signing_key /\ a.number = n}
  <2>1. \A a \in issued : KeyOf(a) = coin.signing_key =>
          a.number \in 1 .. coin.signature_count
    BY DEF Inv, CoinInv
  <2>2. ASSUME NEW n \in 1 .. coin.signature_count
        PROVE  \E a \in made(n) :
                 /\ made(n) = {a}
                 /\ IF n = coin.signature_count
                    THEN Produced(a.request, a.response) = coin.authorization
                    ELSE \A b \in made(n + 1) :
                           Produced(a.request, a.response) = Consumed(b.request)
    <3>1. PICK a \in issued : KeyOf(a) = coin.signing_key /\ a.number = n
      BY DEF Inv, CoinInv
    <3>2. made(n) = {a}
      BY <3>1 DEF Inv, OrderInv
    <3>3. n = coin.signature_count
            => Produced(a.request, a.response) = coin.authorization
      BY <3>1 DEF Inv, CoinInv
    <3>4. \A b \in made(n + 1) :
            Produced(a.request, a.response) = Consumed(b.request)
      BY <3>1 DEF Inv, ChainInv
    <3>5. QED
      BY <3>1, <3>2, <3>3, <3>4
  <2>3. QED
    BY <2>1, <2>2
<1>2. QED
  BY <1>1, Invariance, PTL

(* The answer to the latest request of a living process is never lost. *)
THEOREM LatestIsRecoverableHolds == Spec => []LatestIsRecoverable
<1>1. Inv => LatestIsRecoverable
  <2> SUFFICES ASSUME Inv, NEW id \in DOMAIN coins, NEW a \in issued,
                      KeyOf(a) = coins[id].signing_key,
                      a.number = coins[id].signature_count
               PROVE  /\ IsRetry(coins[id], a.request)
                      /\ CachedResponse(coins[id]) = a.response
    BY DEF LatestIsRecoverable
  <2>1. coins[id].last = {[request |-> a.request, response |-> a.response]}
    BY DEF Inv, CoinInv
  <2>2. IsRetry(coins[id], a.request)
    BY <2>1 DEF IsRetry
  <2>3. PICK pair \in coins[id].last :
          CachedResponse(coins[id]) = pair.response
    <3>1. \E pair \in coins[id].last : TRUE
      BY <2>1
    <3>2. QED
      BY <3>1, Zenon DEF CachedResponse
  <2>4. QED
    BY <2>1, <2>2, <2>3
<1>2. QED
  BY <1>1, Invariance, PTL

(* A spent authorization is never current again. *)
THEOREM SpentStaysSpentHolds == Spec => []SpentStaysSpent
<1>1. Inv => SpentStaysSpent
  <2> SUFFICES ASSUME Inv, NEW id \in DOMAIN coins, NEW a \in issued,
                      KeyOf(a) = coins[id].signing_key,
                      Consumed(a.request) = coins[id].authorization
               PROVE  FALSE
    BY DEF SpentStaysSpent
  <2>1. a.request.current_handoff = coins[id].authorization.handoff
    BY DEF Consumed, Authorization
  <2>2. /\ a.request.current_handoff < a.response.next_handoff
        /\ a.response.next_handoff <= coins[id].authorization.handoff
    BY DEF Inv, DrawnInv, CoinInv
  <2>3. /\ a.request.current_handoff \in Nat /\ a.response.next_handoff \in Nat
    BY DEF Inv, TypeOK, Answer, SignRequest, SignResponse
  <2>4. QED
    BY <2>1, <2>2, <2>3
<1>2. QED
  BY <1>1, Invariance, PTL

(* Registration and signing never reset or drop a coin. *)
THEOREM RegistrationIsStickyHolds == Spec => RegistrationIsSticky
<1>1. ASSUME Inv, [Next]_vars
      PROVE  [coins' = NoCoins \/ \A id \in DOMAIN coins : KeepsCoin(id)]_vars
  <2>1. ASSUME NEW id \in CoinId, NEW hash \in CapabilityHashes,
               Register(id, hash)
        PROVE  \A i \in DOMAIN coins : KeepsCoin(i)
    <3>1. \A i \in DOMAIN coins : i \in DOMAIN coins' /\ coins'[i] = coins[i]
      BY <2>1, InsertEffect DEF Register, Admits
    <3>2. \A i \in DOMAIN coins : coins[i].signature_count \in Nat
      BY <1>1, MaxCountAssumption DEF Inv, TypeOK, Coin
    <3>3. QED
      BY <3>1, <3>2 DEF KeepsCoin
  <2>2. ASSUME NEW request \in Requests, Sign(request)
        PROVE  \A i \in DOMAIN coins : KeepsCoin(i)
    <3>1. \A i \in DOMAIN coins : coins[i].signature_count \in Nat
      BY <1>1, MaxCountAssumption DEF Inv, TypeOK, Coin
    <3>2. /\ DOMAIN coins' = DOMAIN coins
          /\ \A i \in DOMAIN coins :
               i # request.coin_id => coins'[i] = coins[i]
          /\ coins'[request.coin_id].signing_key
               = coins[request.coin_id].signing_key
          /\ coins'[request.coin_id].signature_count
               = coins[request.coin_id].signature_count + 1
      BY <1>1, <2>2, SignEffect DEF Inv
    <3>3. ASSUME NEW i \in DOMAIN coins PROVE KeepsCoin(i)
      <4>1. CASE i = request.coin_id
        BY <3>1, <3>2, <4>1 DEF KeepsCoin
      <4>2. CASE i # request.coin_id
        BY <3>1, <3>2, <4>2 DEF KeepsCoin
      <4>3. QED
        BY <4>1, <4>2
    <3>4. QED
      BY <3>3
  <2>3. CASE \E request \in Requests : RetrySign(request)
    BY <1>1, <2>3, RetryChangesNothing
  <2>4. CASE Restart
    BY <2>4 DEF Restart
  <2>5. QED
    BY <1>1, <2>1, <2>2, <2>3, <2>4 DEF Next
<1>2. QED
  BY <1>1, Invariance, PTL DEF Spec, RegistrationIsSticky

(* The map of a process never outgrows LIMIT. *)
THEOREM CapacityBoundHolds == Spec => []CapacityBound
<1> DEFINE Capacity == IsFiniteSet(DOMAIN coins) /\ CapacityBound
<1>1. Init => Capacity
  BY FS_EmptySet, LimitAssumption DEF Init, NoCoins, CapacityBound
<1>2. Inv /\ Capacity /\ [Next]_vars => Capacity'
  <2> SUFFICES ASSUME Inv, Capacity, [Next]_vars PROVE Capacity'
    OBVIOUS
  <2>1. ASSUME NEW id \in CoinId, NEW hash \in CapabilityHashes,
               Register(id, hash)
        PROVE  Capacity'
    <3>1. DOMAIN coins' = DOMAIN coins \cup {id}
      BY <2>1, InsertEffect DEF Register
    <3>2. id \notin DOMAIN coins /\ Cardinality(DOMAIN coins) < LIMIT
      BY <2>1 DEF Register, Admits
    <3>3. /\ IsFiniteSet(DOMAIN coins')
          /\ Cardinality(DOMAIN coins') = Cardinality(DOMAIN coins) + 1
      BY <3>1, <3>2, FS_AddElement
    <3>4. Cardinality(DOMAIN coins) \in Nat
      BY FS_CardinalityType
    <3>5. QED
      BY <3>2, <3>3, <3>4, LimitAssumption DEF CapacityBound
  <2>2. ASSUME NEW request \in Requests, Sign(request)
        PROVE  Capacity'
    <3>1. DOMAIN coins' = DOMAIN coins
      BY <2>2, SignEffect DEF Inv
    <3>2. QED
      BY <3>1 DEF CapacityBound
  <2>3. CASE \E request \in Requests : RetrySign(request)
    BY <2>3, RetryChangesNothing DEF vars, CapacityBound
  <2>4. CASE Restart
    BY <2>4, FS_EmptySet, LimitAssumption DEF Restart, NoCoins, CapacityBound
  <2>5. CASE UNCHANGED vars
    BY <2>5 DEF vars, CapacityBound
  <2>6. QED
    BY <2>1, <2>2, <2>3, <2>4, <2>5 DEF Next
<1>3. QED
  BY <1>1, <1>2, Invariance, PTL DEF Spec

=============================================================================
