---------------------------- MODULE ReceiptProofs ----------------------------
(***************************************************************************)
(* Theorems about Receipt, for every set of wallets and margins, every     *)
(* step between recoveries and both integer widths.                        *)
(*                                                                         *)
(* The heart of them is Complete.  A ladder of recoveries, all signed by   *)
(* the signer, descends, so that no recovery is in it twice: if it is as   *)
(* long as the signer's count, a list of the places where the signer       *)
(* signed them is an injection of a finite set into itself, and leaves no  *)
(* place out.  This holds in whatever order the signer was asked, and      *)
(* whatever else it signed.  Inv adds that every history a command can     *)
(* look at, edited or old, is made of such signatures, and that a wallet   *)
(* that gave its coin away has fewer of them than the signer.              *)
(***************************************************************************)
EXTENDS Receipt, SequenceTheorems, FiniteSetTheorems,
        WellFoundedInduction, TLAPS

Signatures ==
  [to : Wallet \cup {copy}, delay : Nat, canonical : BOOLEAN]

(* A ladder: every recovery is a step below the one before. *)
Steps(list) ==
  \A i \in 1 .. Len(list) - 1 : list[i].delay = list[i + 1].delay + DELAY_STEP

Descending(list) ==
  \A i, j \in 1 .. Len(list) : i < j => list[i].delay > list[j].delay

(* What VerifiedIsComplete says of a look. *)
Shown ==
  /\ Len(look.history) = Len(look.signed)
  /\ ToSet(look.signed) \subseteq ToSet(look.history)

Given(list) == list \in Seq(Signatures) /\ list # << >>

(* A history shows signatures of that list, in any order. *)
Part(history, list) ==
  /\ history \in Seq(Signatures)
  /\ \A i \in 1 .. Len(history) : \E j \in 1 .. Len(list) : history[i] = list[j]

(* The places of its signatures in that list are all the places. *)
Covers(history, list) ==
  \E f \in [1 .. Len(list) -> 1 .. Len(list)] :
    /\ \A i \in 1 .. Len(list) : history[i] = list[f[i]]
    /\ \A k \in 1 .. Len(list) : \E i \in 1 .. Len(list) : f[i] = k

WalletInv ==
  /\ wallet \in [Wallet -> [history : Seq(Signatures), owner : BOOLEAN,
                            pending : SUBSET Signatures]]
  /\ \A w \in Wallet :
       /\ Part(wallet[w].history, signed)
       /\ \A s \in wallet[w].pending :
            wallet[w].history # << >> /\ Part(<<s>>, signed)
       /\ ~ wallet[w].owner /\ wallet[w].history # << >> =>
            Len(wallet[w].history) = 1 /\ Len(signed) >= 2
  /\ \A p \in package : p.to \in Wallet \cup {copy} /\ Part(p.history, signed)

LookInv ==
  /\ look \in [kind : {none, "export", "verify", "status"},
               wallet : Wallet \cup {none}, margin : Nat,
               history : Seq(Signatures), count : Nat,
               step : {"idle", "signer", "confirmations", "outspend"},
               signed : Seq(Signatures), holder : Wallet \cup {copy, none},
               confirmations : Nat]
  /\ look.step # "idle" => Part(look.history, signed)
  /\ look.step \in {"confirmations", "outspend"} =>
       Given(look.signed) /\ Part(look.history, look.signed)
  /\ look.step # "idle" /\ look.kind = "status" =>
       /\ look.wallet \in Wallet
       /\ look.history = wallet[look.wallet].history
       /\ look.history # << >>
       /\ look.step # "signer" /\ ~ wallet[look.wallet].owner =>
            Len(look.signed) >= 2

StateInv ==
  /\ Given(signed)
  /\ holder \in Wallet \cup {copy}
  /\ confirmations \in Nat
  /\ WalletInv
  /\ \A r \in receipt : Part(r.history, signed) /\ r.count \in Nat
  /\ LookInv

Inv ==
  /\ StateInv
  /\ VerifiedIsComplete /\ VerifiedLeavesMargin /\ OwnedReportIsTrue

-----------------------------------------------------------------------------
(* Induction over a set of numbers. *)
LEMMA Induction ==
  ASSUME NEW S, NEW n \in Nat, 1 \in S,
         \A i \in 1 .. n : i \in S /\ i + 1 <= n => i + 1 \in S
  PROVE  \A i \in 1 .. n : i \in S
<1> DEFINE Rest == {i \in 1 .. n : i \notin S}
<1> SUFFICES ASSUME Rest # {} PROVE FALSE
  OBVIOUS
<1>1. PICK m \in Rest : \A k \in Rest : ~ (<<k, m>> \in OpToRel(<, Nat))
  <2>1. Rest \subseteq Nat
    OBVIOUS
  <2> HIDE DEF Rest
  <2> QED
    BY <2>1, NatLessThanWellFounded, WFMin
<1>2. m \in 2 .. n
  OBVIOUS
<1>3. m - 1 \notin Rest
  <2>1. <<m - 1, m>> \in OpToRel(<, Nat)
    <3>1. <<m - 1, m>> \in Nat \X Nat /\ m - 1 < m
      BY <1>2
    <3> QED
      BY <3>1 DEF OpToRel
  <2> QED
    BY <1>1, <2>1
<1>4. m - 1 \in 1 .. n /\ m - 1 \in S /\ (m - 1) + 1 = m
  BY <1>2, <1>3
<1> QED
  BY <1>2, <1>4

(* Lists of signatures have delays. *)
LEMMA Listed ==
  ASSUME NEW list \in Seq(Signatures)
  PROVE  /\ Len(list) \in Nat /\ DOMAIN list = 1 .. Len(list)
         /\ list # << >> => Len(list) >= 1
         /\ \A i \in 1 .. Len(list) : list[i] \in Signatures /\ list[i].delay \in Nat
<1>1. Len(list) \in Nat /\ DOMAIN list = 1 .. Len(list)
  BY LenProperties
<1>2. \A i \in 1 .. Len(list) : list[i] \in Signatures
  BY ElementOfSeq
<1>3. \A s \in Signatures : s.delay \in Nat
  BY DEF Signatures
<1>4. list # << >> => Len(list) >= 1
  BY <1>1, EmptySeq
<1> QED
  BY <1>1, <1>2, <1>3, <1>4

(* A ladder descends, so that its recoveries are all different. *)
LEMMA StepsDescend ==
  ASSUME NEW history \in Seq(Signatures), Steps(history)
  PROVE  Descending(history)
<1> DEFINE n == Len(history)
<1>1. /\ n \in Nat /\ DELAY_STEP \in Nat \ {0}
      /\ \A i \in 1 .. n : history[i].delay \in Nat
  BY Listed, DelaysAssumption
<1>2. SUFFICES ASSUME NEW i \in 1 .. n, NEW j \in 1 .. n, i < j
               PROVE  history[i].delay > history[j].delay
  BY DEF Descending
<1> DEFINE S == {k \in 1 .. n : i < k => history[i].delay > history[k].delay}
<1>3. 1 \in S
  BY <1>1, <1>2
<1>4. ASSUME NEW k \in 1 .. n, k \in S, k + 1 <= n PROVE k + 1 \in S
  <2>1. k + 1 \in 1 .. n /\ k \in 1 .. n - 1
    BY <1>1, <1>4
  <2>2. history[k].delay = history[k + 1].delay + DELAY_STEP
    BY <2>1 DEF Steps
  <2>3. history[k].delay > history[k + 1].delay
    BY <1>1, <2>1, <2>2
  <2>4. ASSUME i < k + 1 PROVE history[i].delay > history[k + 1].delay
    <3>1. CASE i = k
      BY <2>3, <3>1
    <3>2. CASE i # k
      <4>1. history[i].delay > history[k].delay
        BY <1>1, <1>4, <2>4, <3>2
      <4> QED
        BY <1>1, <2>1, <2>3, <4>1
    <3> QED
      BY <3>1, <3>2
  <2> QED
    BY <2>1, <2>4
<1>5. \A k \in 1 .. n : k \in S
  <2> HIDE DEF n, S
  <2> QED
    BY <1>1, <1>2, <1>3, <1>4, Induction
<1> QED
  BY <1>2, <1>5

(* A ladder that is as long as the list of what was signed shows all of    *)
(* it: the places of its recoveries in that list are all the places.       *)
LEMMA Complete ==
  ASSUME NEW list \in Seq(Signatures), NEW history, Part(history, list),
         Len(history) = Len(list), Steps(history)
  PROVE  Covers(history, list)
<1> DEFINE n == Len(list)
           f == [i \in 1 .. n |-> CHOOSE j \in 1 .. n : history[i] = list[j]]
<1>1. /\ n \in Nat /\ Descending(history)
      /\ \A i \in 1 .. n : history[i].delay \in Nat
  BY Listed, StepsDescend DEF Part
<1>2. \A i \in 1 .. n : \E j \in 1 .. n : history[i] = list[j]
  BY DEF Part
<1>3. \A i \in 1 .. n : f[i] \in 1 .. n /\ history[i] = list[f[i]]
  BY <1>2
<1>4. f \in [1 .. n -> 1 .. n]
  BY <1>3
<1> HIDE DEF f
<1>5. ASSUME NEW i \in 1 .. n, NEW j \in 1 .. n, f[i] = f[j] PROVE i = j
  <2>1. history[i].delay = history[j].delay
    BY <1>3, <1>5
  <2>2. \A x, y \in 1 .. n : x < y => history[x].delay > history[y].delay
    BY <1>1 DEF Descending
  <2>3. ~ (i < j) /\ ~ (j < i)
    BY <1>1, <2>1, <2>2
  <2> QED
    BY <1>1, <2>3
<1>6. f \in Injection(1 .. n, 1 .. n)
  BY <1>4, <1>5 DEF Injection, IsInjective
<1>7. f \in Surjection(1 .. n, 1 .. n)
  <2>1. IsFiniteSet(1 .. n)
    <3>1. 1 \in Int /\ n \in Int
      BY <1>1
    <3> HIDE DEF n
    <3> QED
      BY <3>1, FS_Interval
  <2> QED
    BY <1>6, <2>1, FS_Injection
<1>8. \A k \in 1 .. n : \E i \in 1 .. n : f[i] = k
  BY <1>7 DEF Surjection
<1> QED
  BY <1>3, <1>4, <1>8 DEF Covers

(* What the code's ladder check says of the delays. *)
LEMMA LadderSteps ==
  ASSUME NEW history \in Seq(Signatures), NEW blocks \in Nat,
         Ladder(blocks, DelaysOf(history))
  PROVE  Steps(history)
<1> DEFINE delays == DelaysOf(history)
<1>1. Len(history) \in Nat /\ DOMAIN history = 1 .. Len(history)
  BY Listed
<1>2. \A i \in 1 .. Len(history) : history[i].delay \in Nat
  BY Listed
<1>3. delays = [i \in 1 .. Len(history) |-> history[i].delay]
  BY <1>1 DEF DelaysOf
<1>4. delays \in Seq(Nat) /\ Len(delays) = Len(history)
  <2>1. delays \in [1 .. Len(history) -> Nat]
    BY <1>2, <1>3
  <2>2. delays \in Seq(Nat)
    BY <1>1, <2>1, SeqDef
  <2>3. DOMAIN delays = 1 .. Len(delays) /\ Len(delays) \in Nat
    BY <2>2, LenProperties
  <2> QED
    BY <1>1, <1>3, <2>2, <2>3
<1>5. ASSUME NEW i \in 1 .. Len(history) - 1
      PROVE  history[i].delay = history[i + 1].delay + DELAY_STEP
  <2>1. delays[i + 1] \in CheckedSub(delays[i], DELAY_STEP)
    BY <1>1, <1>4, <1>5 DEF Ladder, ValidateReactionWindow
  <2>2. delays[i] = history[i].delay /\ delays[i + 1] = history[i + 1].delay
    BY <1>1, <1>3, <1>5
  <2> QED
    BY <1>1, <1>2, <1>5, <2>1, <2>2, DelaysAssumption DEF CheckedSub
<1> QED
  BY <1>5 DEF Steps

(* A reaction margin that is checked without overflow is a margin. *)
LEMMA MarginHolds ==
  ASSUME NEW blocks \in Nat, NEW margin \in Nat, NEW delay \in Nat,
         RequireReactionMargin(blocks, delay, margin)
  PROVE  delay > blocks + margin
BY DEF RequireReactionMargin, CheckedAdd

(* What is part of a list is part of a longer one. *)
LEMMA AppendPart ==
  ASSUME NEW list, Given(list), NEW s \in Signatures
  PROVE  /\ Given(Append(list, s))
         /\ Len(Append(list, s)) = Len(list) + 1
         /\ Part(<<s>>, Append(list, s))
         /\ \A history : Part(history, list) => Part(history, Append(list, s))
<1> DEFINE new == Append(list, s)
           n == Len(list)
<1>1. n \in Nat /\ n >= 1
  BY Listed DEF Given
<1>2. /\ new \in Seq(Signatures) /\ Len(new) = n + 1 /\ new[n + 1] = s
      /\ \A i \in 1 .. n : new[i] = list[i]
  BY <1>1 DEF Given
<1> HIDE DEF new
<1>3. new # << >>
  BY <1>1, <1>2, EmptySeq
<1>4. ASSUME NEW history, Part(history, list) PROVE Part(history, new)
  BY <1>1, <1>2, <1>4 DEF Part
<1>5. Part(<<s>>, new)
  BY <1>1, <1>2 DEF Part
<1> QED
  BY <1>2, <1>3, <1>4, <1>5 DEF Given, new

-----------------------------------------------------------------------------
LEMMA InitInv == Init => Inv
<1> SUFFICES ASSUME Init PROVE Inv
  OBVIOUS
<1> DEFINE s == Signature(First, InitialDelay, TRUE)
<1>1. s \in Signatures
  BY ReceiptAssumption, DelaysAssumption DEF Signature, Signatures
<1>a. signed = <<s>>
  BY DEF Init
<1> HIDE DEF s
<1>2. signed # << >> /\ Len(signed) = 1
      /\ signed \in Seq(Signatures) /\ signed[1] = s
  BY <1>1, <1>a
<1>3. Given(signed) /\ Part(signed, signed) /\ Part(<< >>, signed)
  BY <1>2 DEF Given, Part
<1> DEFINE full  == [history |-> signed, owner |-> TRUE, pending |-> {}]
           empty == [history |-> << >>, owner |-> FALSE, pending |-> {}]
           State == [history : Seq(Signatures), owner : BOOLEAN, pending : SUBSET Signatures]
<1>4. wallet = [w \in Wallet |-> IF w = First THEN full ELSE empty]
  BY DEF Init, EmptyWallet
<1>5. /\ full \in State /\ full.history = signed /\ full.owner /\ full.pending = {}
      /\ empty \in State /\ empty.history = << >> /\ empty.pending = {}
  BY <1>2
<1>6. WalletInv
  <2> HIDE DEF full, empty, State
  <2>1. wallet \in [Wallet -> State] /\ \A w \in Wallet : wallet[w] \in {full, empty}
    BY <1>4, <1>5
  <2>2. package = {}
    BY DEF Init
  <2> QED
    BY <1>3, <1>5, <2>1, <2>2 DEF WalletInv, State
<1>7. LookInv
  <2>1. look = [kind |-> none, wallet |-> none, margin |-> 0, history |-> << >>,
                count |-> 0, step |-> "idle", signed |-> << >>, holder |-> none,
                confirmations |-> 0]
    BY DEF Init, Idle, Look
  <2>2. << >> \in Seq(Signatures)
    OBVIOUS
  <2> QED
    BY <2>1, <2>2 DEF LookInv
<1> QED
  BY <1>3, <1>6, <1>7, ReceiptAssumption
     DEF Init, Inv, StateInv, VerifiedIsComplete, VerifiedLeavesMargin,
         OwnedReportIsTrue

(* A step that prints nothing has only to keep the state in order. *)
LEMMA SilentStep ==
  ASSUME StateInv', report' = {} PROVE Inv'
BY DEF Inv, VerifiedIsComplete, VerifiedLeavesMargin, OwnedReportIsTrue

(* Histories stay part of what the signer signed when it signs more. *)
LEMMA SignMore ==
  ASSUME StateInv, NEW s \in Signatures, signed' = Append(signed, s),
         holder' \in Wallet \cup {copy},
         \/ wallet' = wallet
         \/ \E w \in Wallet : /\ wallet[w].history # << >>
                              /\ wallet' = [wallet EXCEPT ![w].pending = {s}],
         UNCHANGED <<package, chain, receipt, look>>
  PROVE  StateInv'
<1>1. Given(signed) /\ Len(signed) \in Nat
  BY Listed DEF StateInv, Given
<1>2. /\ Given(signed') /\ Len(signed') = Len(signed) + 1
      /\ Part(<<s>>, signed')
      /\ \A history : Part(history, signed) => Part(history, signed')
  BY <1>1, AppendPart
<1> DEFINE Item == [history : Seq(Signatures), owner : BOOLEAN,
                    pending : SUBSET Signatures]
           Kept == \A w \in Wallet : /\ wallet'[w].history = wallet[w].history
                                     /\ wallet'[w].owner = wallet[w].owner
                                     /\ \/ wallet'[w].pending = wallet[w].pending
                                        \/ /\ wallet'[w].pending = {s}
                                           /\ wallet[w].history # << >>
<1>3. wallet \in [Wallet -> Item]
  BY DEF StateInv, WalletInv
<1>4. wallet' \in [Wallet -> Item] /\ Kept
  <2>1. CASE wallet' = wallet
    BY <1>3, <2>1
  <2>2. CASE \E w \in Wallet : /\ wallet[w].history # << >>
                               /\ wallet' = [wallet EXCEPT ![w].pending = {s}]
    <3>1. PICK w \in Wallet : /\ wallet[w].history # << >>
                              /\ wallet' = [wallet EXCEPT ![w].pending = {s}]
      BY <2>2
    <3> DEFINE new == [wallet[w] EXCEPT !.pending = {s}]
    <3>2. /\ new \in Item /\ new.pending = {s}
          /\ new.history = wallet[w].history /\ new.owner = wallet[w].owner
      BY <1>3
    <3>3. wallet' = [wallet EXCEPT ![w] = new]
      BY <3>1
    <3> HIDE DEF new, Item
    <3>4. /\ wallet' \in [Wallet -> Item] /\ wallet'[w] = new
          /\ \A v \in Wallet \ {w} : wallet'[v] = wallet[v]
      BY <1>3, <3>2, <3>3
    <3> QED
      BY <3>1, <3>2, <3>4
  <2> QED
    BY <2>1, <2>2
<1>5. WalletInv'
  <2>1. ASSUME NEW w \in Wallet
        PROVE  /\ Part(wallet'[w].history, signed')
               /\ \A x \in wallet'[w].pending :
                    wallet'[w].history # << >> /\ Part(<<x>>, signed')
               /\ ~ wallet'[w].owner /\ wallet'[w].history # << >> =>
                    Len(wallet'[w].history) = 1 /\ Len(signed') >= 2
    <3>1. /\ Part(wallet[w].history, signed)
          /\ \A x \in wallet[w].pending :
               wallet[w].history # << >> /\ Part(<<x>>, signed)
          /\ ~ wallet[w].owner /\ wallet[w].history # << >> =>
               Len(wallet[w].history) = 1 /\ Len(signed) >= 2
      BY DEF StateInv, WalletInv
    <3>2. /\ wallet'[w].history = wallet[w].history
          /\ wallet'[w].owner = wallet[w].owner
          /\ \/ wallet'[w].pending = wallet[w].pending
             \/ wallet'[w].pending = {s} /\ wallet[w].history # << >>
      BY <1>4
    <3>3. Part(wallet'[w].history, signed')
      BY <1>2, <3>1, <3>2
    <3>4. \A x \in wallet'[w].pending :
            wallet'[w].history # << >> /\ Part(<<x>>, signed')
      BY <1>2, <3>1, <3>2
    <3>5. ~ wallet'[w].owner /\ wallet'[w].history # << >> =>
            Len(wallet'[w].history) = 1 /\ Len(signed') >= 2
      BY <1>1, <1>2, <3>1, <3>2
    <3> QED
      BY <3>3, <3>4, <3>5
  <2>2. \A p \in package' : p.to \in Wallet \cup {copy} /\ Part(p.history, signed')
    BY <1>2 DEF StateInv, WalletInv
  <2> QED
    BY <1>4, <2>1, <2>2 DEF WalletInv
<1>6. LookInv'
  BY <1>2, <1>4 DEF StateInv, LookInv
<1> QED
  BY <1>2, <1>5, <1>6 DEF StateInv, chain

LEMMA SignInv ==
  ASSUME StateInv, NEW w \in Wallet, NEW v \in Wallet, NEW margin \in Margins,
         Sign(w, v, margin)
  PROVE  StateInv'
<1>1. PICK delay \in CheckedSub(Last(wallet[w].history).delay, DELAY_STEP) :
        /\ CanonicalDelay(delay)
        /\ signed' = Append(signed, Signature(v, delay, TRUE))
        /\ wallet' = [wallet EXCEPT ![w].pending = {Signature(v, delay, TRUE)}]
  BY DEF Sign
<1>2. Signature(v, delay, TRUE) \in Signatures
  BY <1>1, DelaysAssumption DEF CanonicalDelay, Signature, Signatures
<1>3. wallet[w].history # << >>
  BY DEF Sign, VerifyHistory
<1> QED
  BY <1>1, <1>2, <1>3, SignMore DEF Sign

LEMMA SignElsewhereInv == ASSUME StateInv, SignElsewhere PROVE StateInv'
<1>1. PICK s \in Foreign : signed' = Append(signed, s)
  BY DEF SignElsewhere
<1>2. s \in Signatures
  <2>1. CASE s = Signature(copy, 0, FALSE)
    BY <2>1 DEF Signature, Signatures
  <2>2. CASE s \in [to : Receiver \cup {copy}, delay : ForeignDelays, canonical : {TRUE}]
    <3>1. Receiver \cup {copy} \subseteq Wallet \cup {copy}
      BY DEF Receiver
    <3>2. \A delay \in ForeignDelays : delay \in Nat
      BY ReceiptAssumption, DelaysAssumption
    <3> QED
      BY <2>2, <3>1, <3>2 DEF Signatures
  <2> QED
    BY <1>1, <2>1, <2>2 DEF Foreign
<1>3. holder' \in Wallet \cup {copy}
  BY DEF SignElsewhere, Receiver
<1> QED
  BY <1>1, <1>2, <1>3, SignMore DEF SignElsewhere

(* Whatever list a sender or an operator of a receipt makes up, it is of   *)
(* signatures the signer gave.                                             *)
LEMMA HistoriesArePart ==
  ASSUME StateInv, NEW history \in Histories
  PROVE  Part(history, signed) /\ Len(history) \in Nat
<1>1. signed \in Seq(Signatures) /\ DOMAIN signed = 1 .. Len(signed)
  BY Listed DEF StateInv, Given
<1>2. PICK m \in 0 .. MaxSignatures : history \in [1 .. m -> ToSet(signed)]
  BY DEF Histories, BoundedSeq, SeqOf
<1>3. m \in Nat
  BY ReceiptAssumption
<1>4. \A i \in 1 .. m : \E j \in 1 .. Len(signed) : history[i] = signed[j]
  BY <1>1, <1>2 DEF ToSet
<1>5. \A i \in 1 .. m : history[i] \in Signatures
  BY <1>1, <1>4, Listed
<1>6. history \in [1 .. m -> Signatures]
  BY <1>2, <1>5
<1>7. history \in Seq(Signatures)
  BY <1>3, <1>6, SeqDef
<1>8. Len(history) = m /\ Len(history) \in Nat
  BY <1>3, <1>6, <1>7, Listed
<1> QED
  BY <1>4, <1>7, <1>8 DEF Part

(* The last recovery of a history, alone, is still part of it. *)
LEMMA LastIsPart ==
  ASSUME NEW list, NEW history, Part(history, list), history # << >>
  PROVE  /\ Part(<<Last(history)>>, list)
         /\ Len(<<Last(history)>>) = 1
         /\ <<Last(history)>> \in Seq(Signatures)
<1>1. /\ Len(history) \in 1 .. Len(history)
      /\ history[Len(history)] \in Signatures
  BY Listed DEF Part
<1>2. PICK j \in 1 .. Len(list) : history[Len(history)] = list[j]
  BY <1>1 DEF Part
<1> QED
  BY <1>1, <1>2 DEF Part, Last

(* A history of signatures the signer gave, and one more of them. *)
LEMMA LongerPart ==
  ASSUME NEW list, NEW history, Part(history, list), NEW s, Part(<<s>>, list)
  PROVE  Part(Append(history, s), list)
<1>1. /\ Len(history) \in Nat /\ history \in Seq(Signatures)
      /\ \A i \in 1 .. Len(history) : \E j \in 1 .. Len(list) : history[i] = list[j]
  BY Listed DEF Part
<1>2. /\ s \in Signatures
      /\ \E j \in 1 .. Len(list) : s = list[j]
  BY DEF Part
<1> DEFINE new == Append(history, s)
<1>3. /\ new \in Seq(Signatures) /\ Len(new) = Len(history) + 1
      /\ new[Len(history) + 1] = s
      /\ \A i \in 1 .. Len(history) : new[i] = history[i]
  BY <1>1, <1>2
<1> HIDE DEF new
<1>4. ASSUME NEW i \in 1 .. Len(new) PROVE \E j \in 1 .. Len(list) : new[i] = list[j]
  <2>1. CASE i = Len(history) + 1
    BY <1>2, <1>3, <2>1
  <2>2. CASE i # Len(history) + 1
    <3>1. i \in 1 .. Len(history)
      BY <1>1, <1>3, <2>2
    <3> QED
      BY <1>1, <1>3, <3>1
  <2> QED
    BY <2>1, <2>2
<1>5. Part(new, list)
  BY <1>3, <1>4 DEF Part
<1> QED
  BY <1>5 DEF new

LEMMA CompleteTransferInv ==
  ASSUME StateInv, NEW w \in Wallet, CompleteTransfer(w) PROVE StateInv'
<1> DEFINE history == wallet[w].history
           sent == [history |-> <<Last(history)>>, owner |-> FALSE, pending |-> {}]
<1>1. /\ ~ Locked(w)
      /\ Len(signed) = Len(history) + 1
      /\ wallet' = [wallet EXCEPT ![w] = sent]
      /\ UNCHANGED <<signed, holder, chain, receipt, look>>
  BY DEF CompleteTransfer, Sent
<1>2. PICK s \in wallet[w].pending :
        package' = {[to |-> s.to, history |-> Append(history, s)]}
  BY DEF CompleteTransfer
<1>3. /\ Part(history, signed) /\ history # << >> /\ history \in Seq(Signatures)
      /\ Part(<<s>>, signed) /\ s \in Signatures
  BY DEF StateInv, WalletInv, Part
<1>4. Len(history) \in Nat /\ Len(history) >= 1
  BY <1>3, Listed
<1> HIDE DEF history
<1>5. /\ Part(<<Last(history)>>, signed) /\ Len(<<Last(history)>>) = 1
      /\ <<Last(history)>> \in Seq(Signatures)
  BY <1>3, LastIsPart
<1>6. /\ sent \in [history : Seq(Signatures), owner : BOOLEAN,
                   pending : SUBSET Signatures]
      /\ Part(sent.history, signed) /\ sent.pending = {} /\ Len(sent.history) = 1
  BY <1>5
<1> HIDE DEF sent
<1>7. s.to \in Wallet \cup {copy} /\ Part(Append(history, s), signed)
  BY <1>3, LongerPart DEF Signatures
<1>8. WalletInv'
  BY <1>1, <1>2, <1>4, <1>6, <1>7 DEF StateInv, WalletInv
<1>9. LookInv'
  BY <1>1 DEF StateInv, WalletInv, LookInv, Locked
<1> QED
  BY <1>1, <1>8, <1>9 DEF StateInv, chain

LEMMA AcceptTransferInv ==
  ASSUME StateInv, NEW v \in Receiver, NEW margin \in Margins,
         NEW history \in Received(v), AcceptTransfer(v, history, margin)
  PROVE  StateInv'
<1>1. /\ ~ Locked(v) /\ history # << >>
      /\ wallet' = [wallet EXCEPT ![v].history = history, ![v].owner = TRUE]
      /\ package' = {}
      /\ UNCHANGED <<signed, holder, chain, receipt, look>>
      /\ v \in Wallet /\ wallet[v].pending = {}
  BY DEF AcceptTransfer, VerifyHistory, Receiver, EmptyWallet
<1>2. Part(history, signed) /\ history \in Seq(Signatures)
  BY HistoriesArePart DEF Received, StateInv, WalletInv, Part
<1>3. /\ wallet'[v].history = history /\ wallet'[v].owner
      /\ wallet'[v].pending = {}
      /\ \A w \in Wallet \ {v} : wallet'[w] = wallet[w]
      /\ wallet' \in [Wallet -> [history : Seq(Signatures), owner : BOOLEAN,
                                 pending : SUBSET Signatures]]
  BY <1>1, <1>2 DEF StateInv, WalletInv
<1>4. WalletInv'
  BY <1>1, <1>2, <1>3 DEF StateInv, WalletInv
<1>5. LookInv'
  BY <1>1, <1>3 DEF StateInv, LookInv, Locked
<1> QED
  BY <1>1, <1>4, <1>5 DEF StateInv, chain

LEMMA ChainInv == ASSUME StateInv, Mine \/ Spend PROVE StateInv'
<1>1. /\ UNCHANGED <<signed, holder, wallet, package, receipt, look>>
      /\ confirmations' \in Nat
  BY DEF Mine, Spend, coin, StateInv
<1> QED
  BY <1>1 DEF StateInv, WalletInv, LookInv

-----------------------------------------------------------------------------
(* The commands that look. *)
LEMMA NewLook ==
  ASSUME StateInv, UNCHANGED <<coin, chain, receipt>>,
         NEW kind \in {"export", "verify", "status"},
         NEW w \in Wallet \cup {none}, NEW margin \in Margins, NEW count \in Nat,
         NEW history, Part(history, signed),
         kind = "status" => /\ w \in Wallet /\ history = wallet[w].history
                            /\ history # << >>,
         look' = Look(kind, w, margin, history, count)
  PROVE  StateInv'
<1>1. UNCHANGED <<signed, holder, wallet, package, confirmations, receipt>>
  BY DEF coin, chain
<1>2. margin \in Nat /\ history \in Seq(Signatures)
  BY ReceiptAssumption DEF U32, Part
<1>3. /\ look' = [kind |-> kind, wallet |-> w, margin |-> margin,
                  history |-> history, count |-> count, step |-> "signer",
                  signed |-> << >>, holder |-> none, confirmations |-> 0]
      /\ << >> \in Seq(Signatures)
  BY DEF Look
<1>4. LookInv'
  BY <1>1, <1>2, <1>3 DEF LookInv
<1> QED
  BY <1>1, <1>4 DEF StateInv, WalletInv

LEMMA StartInv == ASSUME StateInv, Start PROVE StateInv'
<1>1. ASSUME NEW w \in Wallet, NEW margin \in Margins,
             StartExport(w, margin) \/ StartStatus(w, margin)
      PROVE  StateInv'
  <2>1. Part(wallet[w].history, signed)
    BY DEF StateInv, WalletInv
  <2> QED
    BY <1>1, <2>1, NewLook DEF StartExport, StartStatus
<1>2. ASSUME NEW margin \in Margins, StartVerify(margin) PROVE StateInv'
  <2>1. PICK r \in receipt \cup Edited :
          look' = Look("verify", none, margin, r.history, r.count)
    BY <1>2 DEF StartVerify
  <2>2. Part(r.history, signed) /\ r.count \in Nat
    BY HistoriesArePart DEF StateInv, Edited
  <2> QED
    BY <1>2, <2>1, <2>2, NewLook DEF StartVerify
<1> QED
  BY <1>1, <1>2 DEF Start

LEMMA ReadSignerInv == ASSUME StateInv, ReadSigner PROVE StateInv'
<1>1. /\ look.step = "signer"
      /\ look' = [look EXCEPT !.step = "confirmations",
                              !.signed = signed, !.holder = holder]
      /\ UNCHANGED <<signed, holder, wallet, package, confirmations, receipt>>
  BY DEF ReadSigner, At, coin, chain
<1>2. /\ look'.step = "confirmations" /\ look'.signed = signed
      /\ look'.kind = look.kind /\ look'.wallet = look.wallet
      /\ look'.history = look.history
      /\ look' \in [kind : {none, "export", "verify", "status"},
                    wallet : Wallet \cup {none}, margin : Nat,
                    history : Seq(Signatures), count : Nat,
                    step : {"idle", "signer", "confirmations", "outspend"},
                    signed : Seq(Signatures), holder : Wallet \cup {copy, none},
                    confirmations : Nat]
  BY <1>1 DEF StateInv, LookInv, Given
<1>3. LookInv'
  BY <1>1, <1>2 DEF StateInv, WalletInv, LookInv
<1> QED
  BY <1>1, <1>3 DEF StateInv, WalletInv

LEMMA ReadConfirmationsInv == ASSUME StateInv, ReadConfirmations PROVE StateInv'
<1>1. /\ look.step = "confirmations"
      /\ look' = [look EXCEPT !.step = "outspend", !.confirmations = confirmations]
      /\ UNCHANGED <<signed, holder, wallet, package, confirmations, receipt>>
  BY DEF ReadConfirmations, At, coin, chain
<1>2. /\ look'.step = "outspend" /\ look'.signed = look.signed
      /\ look'.kind = look.kind /\ look'.wallet = look.wallet
      /\ look'.history = look.history
      /\ look' \in [kind : {none, "export", "verify", "status"},
                    wallet : Wallet \cup {none}, margin : Nat,
                    history : Seq(Signatures), count : Nat,
                    step : {"idle", "signer", "confirmations", "outspend"},
                    signed : Seq(Signatures), holder : Wallet \cup {copy, none},
                    confirmations : Nat]
  BY <1>1 DEF StateInv, LookInv
<1>3. LookInv'
  BY <1>1, <1>2 DEF StateInv, LookInv
<1> QED
  BY <1>1, <1>3 DEF StateInv, WalletInv

-----------------------------------------------------------------------------
(* What the checks establish.  A history that verifies against the answers *)
(* of the signer shows all it had signed, and its last recovery is the     *)
(* lowest.                                                                 *)
LEMMA CheckedHistory ==
  ASSUME StateInv, look.step = "outspend", Count = Len(look.history),
         NEW blocks \in Nat, Ladder(blocks, DelaysOf(look.history))
  PROVE  /\ Shown
         /\ \E k \in DOMAIN look.signed :
              /\ look.signed[k] = Last(look.history)
              /\ \A i \in DOMAIN look.signed :
                   /\ look.signed[i].delay \in Nat
                   /\ i # k => look.signed[i].delay > look.signed[k].delay
<1> DEFINE n == Len(look.signed)
<1>1. /\ Given(look.signed) /\ Part(look.history, look.signed)
      /\ look.history \in Seq(Signatures) /\ Len(look.history) = n
  BY DEF StateInv, LookInv, Count
<1>2. Steps(look.history) /\ Descending(look.history)
  BY <1>1, LadderSteps, StepsDescend
<1>3. /\ n \in Nat /\ n >= 1
      /\ DOMAIN look.signed = 1 .. n /\ DOMAIN look.history = 1 .. n
      /\ \A i \in 1 .. n : look.history[i].delay \in Nat /\ look.signed[i].delay \in Nat
  BY <1>1, Listed DEF Given
<1>4. PICK f \in [1 .. n -> 1 .. n] :
        /\ \A i \in 1 .. n : look.history[i] = look.signed[f[i]]
        /\ \A k \in 1 .. n : \E i \in 1 .. n : f[i] = k
  <2>1. look.signed \in Seq(Signatures)
    BY <1>1 DEF Given
  <2>2. Part(look.history, look.signed) /\ Len(look.history) = Len(look.signed)
    BY <1>1
  <2>3. Covers(look.history, look.signed)
    BY <1>2, <2>1, <2>2, Complete
  <2> QED
    BY <2>3 DEF Covers
<1> HIDE DEF n
<1>5. Shown
  <2>1. ASSUME NEW k \in 1 .. n
        PROVE  \E i \in 1 .. n : look.signed[k] = look.history[i]
    <3>1. PICK i \in 1 .. n : f[i] = k
      BY <1>4
    <3> QED
      BY <1>4, <3>1
  <2> QED
    BY <1>1, <1>3, <2>1 DEF Shown, ToSet, n
<1>6. n \in 1 .. n /\ f[n] \in 1 .. n
  BY <1>3, <1>4
<1>7. look.signed[f[n]] = Last(look.history)
  BY <1>1, <1>4, <1>6 DEF Last
<1>8. ASSUME NEW k \in 1 .. n, k # f[n]
      PROVE  look.signed[k].delay > look.signed[f[n]].delay
  <2>1. PICK i \in 1 .. n : f[i] = k
    BY <1>4
  <2>2. i < n
    BY <1>3, <1>8, <2>1
  <2>3. look.history[i].delay > look.history[n].delay
    BY <1>1, <1>2, <1>6, <2>2 DEF Descending
  <2> QED
    BY <1>4, <1>6, <2>1, <2>3
<1> QED
  BY <1>3, <1>5, <1>6, <1>7, <1>8

LEMMA CheckedMargin ==
  ASSUME StateInv, look.step = "outspend", Count = Len(look.history),
         NEW blocks \in Nat, Ladder(blocks, DelaysOf(look.history)),
         RequireReactionMargin(look.confirmations, Last(look.history).delay,
                               look.margin)
  PROVE  \A i \in DOMAIN look.signed :
           look.signed[i].delay > look.confirmations + look.margin
<1>1. look.confirmations \in Nat /\ look.margin \in Nat
  BY DEF StateInv, LookInv
<1>2. PICK k \in DOMAIN look.signed :
        /\ look.signed[k] = Last(look.history)
        /\ \A i \in DOMAIN look.signed :
             /\ look.signed[i].delay \in Nat
             /\ i # k => look.signed[i].delay > look.signed[k].delay
  BY CheckedHistory
<1>3. look.signed[k].delay > look.confirmations + look.margin
  BY <1>1, <1>2, MarginHolds
<1>4. ASSUME NEW i \in DOMAIN look.signed
      PROVE  look.signed[i].delay > look.confirmations + look.margin
  <2>1. CASE i = k
    BY <1>3, <2>1
  <2>2. CASE i # k
    BY <1>1, <1>2, <1>3, <2>2
  <2> QED
    BY <2>1, <2>2
<1> QED
  BY <1>4

(* The end of a command: the properties are about what it prints. *)
LEMMA FinishInv ==
  ASSUME StateInv, look.step = "outspend",
         NEW ok, NEW current, NEW owned, NEW safe, Finish(ok, current, owned, safe),
         \/ receipt' = receipt
         \/ receipt' = {[history |-> look.history, count |-> Count]},
         ok /\ current => Shown,
         ok /\ safe => \A i \in DOMAIN look.signed :
           look.signed[i].delay > look.confirmations + look.margin,
         ok /\ owned =>
           /\ look.holder = look.wallet
           /\ \E i \in DOMAIN look.signed :
                /\ look.signed[i].to = look.wallet
                /\ \A j \in DOMAIN look.signed \ {i} :
                     look.signed[i].delay < look.signed[j].delay
  PROVE  Inv'
<1>1. /\ UNCHANGED <<signed, holder, wallet, package, confirmations>>
      /\ look' = Idle
      /\ report' = {[look |-> look, ok |-> ok, current |-> current,
                     owned |-> owned, safe |-> safe]}
  BY DEF Finish, coin, chain
<1>2. LookInv'
  <2>1. look' = [kind |-> none, wallet |-> none, margin |-> 0, history |-> << >>,
                 count |-> 0, step |-> "idle", signed |-> << >>, holder |-> none,
                 confirmations |-> 0]
    BY <1>1 DEF Idle, Look
  <2>2. << >> \in Seq(Signatures)
    OBVIOUS
  <2> QED
    BY <2>1, <2>2 DEF LookInv
<1>3. Part(look.history, signed) /\ Count \in Nat
  BY Listed DEF StateInv, LookInv, Count, Given
<1>4. StateInv'
  BY <1>1, <1>2, <1>3 DEF StateInv, WalletInv
<1>5. \A r \in report' : /\ r.look = look /\ r.ok = ok /\ r.current = current
                         /\ r.owned = owned /\ r.safe = safe
  BY <1>1
<1> QED
  BY <1>4, <1>5
     DEF Inv, Shown, VerifiedIsComplete, VerifiedLeavesMargin, OwnedReportIsTrue

LEMMA FinishPublicInv ==
  ASSUME StateInv, FinishExport \/ FinishVerify PROVE Inv'
<1>1. look.step = "outspend" /\ look.confirmations \in Nat
  BY DEF FinishExport, FinishVerify, At, StateInv, LookInv
<1>2. ASSUME VerifyPublicHistory
      PROVE  /\ Shown
             /\ \A i \in DOMAIN look.signed :
                  look.signed[i].delay > look.confirmations + look.margin
  BY <1>1, <1>2, CheckedHistory, CheckedMargin DEF VerifyPublicHistory
<1>3. CASE FinishExport
  <2> DEFINE ok == FundingSeen(MinConfirmations) /\ VerifyPublicHistory
  <2>1. /\ Finish(ok, ok, FALSE, ok)
        /\ \/ receipt' = receipt
           \/ receipt' = {[history |-> look.history, count |-> Count]}
    BY <1>3 DEF FinishExport
  <2>2. ok => VerifyPublicHistory
    OBVIOUS
  <2> HIDE DEF ok
  <2> QED
    BY <1>1, <1>2, <2>1, <2>2, FinishInv DEF Shown
<1>4. CASE FinishVerify
  <2> DEFINE ok == /\ look.count = Count
                   /\ FundingSeen(MinConfirmations)
                   /\ VerifyPublicHistory
  <2>1. Finish(ok, ok, FALSE, ok) /\ receipt' = receipt
    BY <1>4 DEF FinishVerify
  <2>2. ok => VerifyPublicHistory
    OBVIOUS
  <2> HIDE DEF ok
  <2> QED
    BY <1>1, <1>2, <2>1, <2>2, FinishInv DEF Shown
<1> QED
  BY <1>3, <1>4

LEMMA FinishOwnerInv ==
  ASSUME StateInv, look.step = "outspend", receipt' = receipt,
         StatusOfOwner(look.wallet)
  PROVE  Inv'
<1> DEFINE w == look.wallet
           ok == /\ FundingSeen(IF w = First THEN 0 ELSE MinConfirmations)
                 /\ VerifyHistory(w, Count, look.holder, 0, look.history)
           owned == ok /\ look.confirmations >= MinConfirmations
           safe == ok /\ RequireReactionMargin(look.confirmations,
                                               Last(look.history).delay, look.margin)
<1>1. Finish(ok, ok, owned, safe)
  BY DEF StatusOfOwner
<1>2. ASSUME ok
      PROVE  /\ look.holder = w /\ Count = Len(look.history)
             /\ Last(look.history).to = w
             /\ Ladder(0, DelaysOf(look.history))
  BY <1>2 DEF VerifyHistory, StatusMatches
<1>3. safe => ok /\ RequireReactionMargin(look.confirmations,
                                          Last(look.history).delay, look.margin)
  OBVIOUS
<1>4. owned => ok
  OBVIOUS
<1> HIDE DEF w, ok, owned, safe
<1>5. ASSUME ok PROVE Shown
  BY <1>2, <1>5, CheckedHistory
<1>6. ASSUME safe
      PROVE  \A i \in DOMAIN look.signed :
               look.signed[i].delay > look.confirmations + look.margin
  BY <1>2, <1>3, <1>6, CheckedMargin
<1>7. ASSUME ok
      PROVE  \E i \in DOMAIN look.signed :
               /\ look.signed[i].to = w
               /\ \A j \in DOMAIN look.signed \ {i} :
                    look.signed[i].delay < look.signed[j].delay
  <2>1. PICK k \in DOMAIN look.signed :
          /\ look.signed[k] = Last(look.history)
          /\ \A i \in DOMAIN look.signed :
               /\ look.signed[i].delay \in Nat
               /\ i # k => look.signed[i].delay > look.signed[k].delay
    BY <1>2, <1>7, CheckedHistory
  <2>2. look.signed[k].to = w
    BY <1>2, <1>7, <2>1
  <2>3. \A j \in DOMAIN look.signed \ {k} :
          look.signed[k].delay < look.signed[j].delay
    BY <2>1
  <2> QED
    BY <2>1, <2>2, <2>3
<1>8. w = look.wallet
  BY DEF w
<1> QED
  BY <1>1, <1>2, <1>4, <1>5, <1>3, <1>6, <1>7, <1>8, FinishInv

(* A wallet that gave the coin away has one recovery, and the signer had   *)
(* signed two: its history is never called current.                        *)
LEMMA FinishSenderInv ==
  ASSUME StateInv, look.step = "outspend", look.kind = "status",
         receipt' = receipt, ~ wallet[look.wallet].owner,
         StatusOfSender(look.wallet)
  PROVE  Inv'
<1> DEFINE ok == FundingSeen(IF look.wallet = First THEN 0 ELSE MinConfirmations)
           current == ok /\ Count = Len(look.history)
<1>1. Finish(ok, current, FALSE, FALSE)
  BY DEF StatusOfSender
<1>2. Len(look.history) = 1 /\ Count \in Nat /\ Count >= 2
  BY Listed DEF StateInv, LookInv, WalletInv, Count, Given
<1>3. ~ current
  BY <1>2
<1> HIDE DEF ok, current
<1> QED
  BY <1>1, <1>3, FinishInv DEF Shown

LEMMA FinishStatusInv == ASSUME StateInv, FinishStatus PROVE Inv'
BY FinishOwnerInv, FinishSenderInv DEF FinishStatus, At

LEMMA NextInv == ASSUME Inv, [Next]_vars PROVE Inv'
<1>1. StateInv
  BY DEF Inv
<1>2. CASE (Move \/ Start \/ ReadSigner \/ ReadConfirmations) /\ report' = {}
  BY <1>1, <1>2, SilentStep, SignInv, CompleteTransferInv, AcceptTransferInv,
     SignElsewhereInv, ChainInv, StartInv, ReadSignerInv, ReadConfirmationsInv
     DEF Move, Receiver
<1>3. CASE FinishExport \/ FinishVerify \/ FinishStatus
  BY <1>1, <1>3, FinishPublicInv, FinishStatusInv
<1>4. CASE Printed /\ report' = {}
  <2>1. StateInv'
    BY <1>1, <1>4 DEF Printed, coin, chain, StateInv, WalletInv, LookInv
  <2> QED
    BY <1>4, <2>1, SilentStep
<1>5. CASE UNCHANGED vars
  BY <1>5
     DEF vars, coin, chain, Inv, StateInv, WalletInv, LookInv,
         VerifiedIsComplete, VerifiedLeavesMargin, OwnedReportIsTrue
<1> QED
  BY <1>2, <1>3, <1>4, <1>5 DEF Next

-----------------------------------------------------------------------------
(* Inv is an invariant of Receipt. *)
THEOREM Invariance == Spec => []Inv
<1>1. Inv /\ [Next]_vars => Inv'
  BY NextInv
<1> QED
  BY InitInv, <1>1, PTL DEF Spec

(* A receipt that is exported or verified, or a status called current,     *)
(* shows every transaction the signer had signed for the coin when it was  *)
(* asked, each once: whatever a copy of a wallet had it sign, in whatever  *)
(* order, and to whomever it handed the coin with whatever list.           *)
THEOREM ReceiptsHideNothing == Spec => []VerifiedIsComplete
<1>1. Inv => VerifiedIsComplete
  BY DEF Inv
<1> QED
  BY Invariance, <1>1, PTL

(* What is reported safe leaves the whole margin, at any width.            *)
THEOREM SafeReportsLeaveMargin == Spec => []VerifiedLeavesMargin
<1>1. Inv => VerifiedLeavesMargin
  BY DEF Inv
<1> QED
  BY Invariance, <1>1, PTL

(* A wallet that reports a coin as owned held it when the signer was       *)
(* asked, with the recovery that matures before every other.               *)
THEOREM OwnedMeansNewest == Spec => []OwnedReportIsTrue
<1>1. Inv => OwnedReportIsTrue
  BY DEF Inv
<1> QED
  BY Invariance, <1>1, PTL

=============================================================================
