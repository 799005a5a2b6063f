# Tinylayer in TLA+

TLA+ models of the Tinylayer statechain (`src/`), the TLC configurations that
check them on small instances, and theorems checked by TLAPS. A coin is a
Bitcoin output that the enclave signer and an owner control together. The owner
of a coin holds a pre-signed *recovery*, a zero-fee transaction that spends the
output after a relative delay; a transfer asks the signer for a new recovery
whose delay is ten blocks shorter, payable to the next owner.

The signer keeps everything in memory and forgets it when it restarts. The
wallet is a command-line program that may be killed anywhere. What makes the
system correct is therefore the order in which the wallets save, ask, verify
and publish, against a signer that may answer late, twice or never. That is what
is modelled.

## 1. Inventory

| Component | State | Operations | Talks to |
|---|---|---|---|
| Enclave signer, `enclave/src/lib.rs` | per coin: key, authorization (capability hash, handoff token), signature count, last request and answer | register, status, sign; a restart empties it | any client, one request at a time under a mutex |
| Client library, `client/src/lib.rs` | none | builds and verifies registrations, recoveries, histories | called by the wallet core |
| Wallet core, `wallet-core/src/` | journal: coin, pending operation, funding stage, history; exit and sweep journals | begin/complete registration, funding, transfer; accept; prepare/arm/observe | called by the command line |
| Wallet commands, `wallet/src/cli.rs` | none between runs | `coin register`, `coin fund`, `transfer request`, `coin sign`, `transfer accept`, `coin exit`, `coin source-sweep`, `coin recovery`, receipts, status | store, signer, chain services |
| Store, `wallet/src/store.rs` | `config.json`, `wallet.enc`, `.lock`, output files | init, open, load, save, save_native, write an artifact | file system |
| Chain services, `wallet/src/services.rs` | none | explorer and Bitcoin Core reads and broadcasts | HTTP |
| Codec, encryption, transport, attestation | none | serialise, seal, encrypt, Noise channel | - |

What is hard, and where it is modelled:

- **Lost and late answers.** The signer rotates the authorization when it signs;
  the caller may never hear of it. The cache has one entry (Signer, Funding,
  Transfer). A timed-out request is still on its way and may reach a rebooted
  signer (Funding, Transfer).
- **Crashes between two saves.** Every command saves several times, with
  irreversible steps in between (Funding, Transfer, Exit, SourceSweep).
- **Restarts of the signer** in the middle of anything (Signer, Funding,
  Transfer).
- **A chain read in several calls** while it moves; submissions whose result is
  unknown; evictions, reorganisations, somebody else's transactions (Funding,
  CoreFunding, Exit, SourceSweep, Receipt).
- **A node that forgets or hides**: Bitcoin Core drops locks in a restart and
  shows confirmed transactions only by their unspent outputs (CoreFunding, Exit,
  Transfer).
- **Files carried by hand** between wallets: old, edited, damaged, used twice
  (Handover, Receipt).
- **Several owners' recoveries** of one output, alive at the same time (Transfer,
  Exit).
- **Two journals in one wallet** that must exclude each other: transfer and exit
  (Transfer), funding and sweep (SourceSweep).
- **The file system**: concurrent processes, kills and power losses (Store).

What makes each component correct: the signer never signs one authorization
twice and always has its last answer (NoFork, LatestIsRecoverable); a funding
never leaves the wallet before its recovery is saved (RecoveryBeforeFunding); a
coin has one owner, who matures first (AuthorityIsAccountedFor,
NewestMaturesFirst); an exit or sweep that was posted is the one in the journal
(SentIsJournaled), and no deposit is promised twice (OneSpendPerDeposit); a
transfer is one pair of request and package for both sides, on the receiver's own
terms (RerunsAgree, AcceptedAsAsked); what is reported about a coin hides no
signature (VerifiedIsComplete); no save is lost (NoSaveIsLost).

## 2. Modules

| Module | Models | EXTENDS / INSTANCE |
|---|---|---|
| `Enclave` | the pure parts of the signer: authorization, retry test, signing test, rotation | - |
| `Signer` | the enclave process with arbitrary clients | Enclave |
| `SignerProofs` | theorems about Signer | Signer, TLAPS |
| `Funding` | one wallet: register and fund, with the signer, the network and the deposit | Enclave, SafeFunding |
| `CoreFunding` | the same with Bitcoin Core: its wallet, its locks and its other payments | Funding, SafeFunding |
| `SafeFunding` | abstract: a deposit is offered only while a recovery is safe | - |
| `Transfer` | any number of wallets, the signer and the chain: request, sign, accept, and the exclusion of exit | Enclave, Statechain |
| `Statechain` | abstract: grants in order, each shorter, accepted and settled | - |
| `Handover` | request and package files between the journals of any number of wallets | - |
| `Exit` | `coin exit` with an explorer or with Bitcoin Core | - |
| `SourceSweep` | `coin source-sweep` and the deposits `coin fund` spends | - |
| `Delays` | the arithmetic of delays, confirmations and margins, with its widths | - |
| `Receipt` | `receipt export`, `receipt verify`, `coin status` | Delays |
| `Store` | the wallet directory: lock, replacement, output writer | - |
| `FundingProofs` | theorems about Funding, CoreFunding and their refinement of SafeFunding | CoreFunding, TLAPS |
| `TransferProofs` | theorems about Transfer and its refinement of Statechain | Transfer, TLAPS |
| `HandoverProofs`, `ExitProofs`, `SourceSweepProofs`, `ReceiptProofs`, `StoreProofs` | theorems about the module in the name | that module, TLAPS |

`MC<Module>` gives model values for TLC, and symmetry where no liveness is checked.

`Funding`, `Transfer`, `Exit` and `SourceSweep` share a shape. `disk` (or
`wallet[w]`) is `wallet.enc`; `mem` is the copy the running command works on;
`pc` is its next step. Each call the code makes to the signer, the chain or the
store is a step of its own, so that everything else can happen between them.
`Stop` ends a command at any step and drops `mem`. `net` and `posted` are
messages on their way; a stopped command leaves its own there, marked as no
longer awaited. `CheckFails` and `Refuse` are the error returns. `Save` is the
store's save, which `Store` models in detail; the other modules take it as
atomic, which `Store` justifies for kills (section 6, second finding, says what
it does not justify).

- `Signer` - one action per request: `Register` (register), `RetrySign` and
  `Sign` (the two ways through sign), `Restart` (main). Error answers and status
  change nothing. `issued` is history: every answer ever given.
- `Funding` - StartRegister, SendRegister, FinishRegister for register_coin;
  StartFund to MarkBroadcast for fund_coin_explorer, in code order.
  `EntryPoint` is the switch on the saved stage with which a rerun resumes.
- `CoreFunding` - extends Funding: SelectInputs, JournalFunding, ValidateJournal,
  ReadAttemptStatus, JournalAttempt and CheckLockedSource take the place of the
  deposit selection in `coin fund`, BroadcastThroughCore that of the explorer;
  the signing steps are Funding's. `lock` is what Core reserves, in memory until
  it restarts or for good; CoreRestart, OperatorUnlock and OperatorSpend are the
  node and its other users.
- `Transfer` - CreateRequest; StartSign, BeginTransfer, ValidatePending,
  SendSign, RecordResponse, CompleteTransfer, WritePackage for sign_transfer;
  StartAccept, AcceptTransfer; PrepareExit and ConfirmExit for as much of exit
  as concerns the other wallets. `signed` is history: the signatures of the
  signer the wallets pinned. `sign_transfer` observes the funding before it sends
  an attempt, also one that was answered; wallets in `Unindexed` use a Bitcoin Core
  that cannot show the funding once it is spent (`FundingShown`).
- `Handover` - DrawRequest and WriteRequest (create_transfer_request);
  BeginTransfer, Sign, RecordResponse, CompleteTransfer, WritePackage
  (sign_transfer); AcceptTransfer and AlreadyAccepted (accept_transfer);
  EditRequest and DamagePackage are what happens to files. A draw of a request
  stands for its ID and keys, an envelope for what it was sealed over and a fresh
  nonce. Transfer has the chain, the delays and the signer's restarts, and treats
  a package as the record it carries; Handover has only what tells files apart.
- `Exit` - Start to Refuse follow exit_coin_journaled; ReadChild, ReadParent and
  ReadOutspend are observe_exit_package, which the command enters from three
  places (`site`). `setting`, which never changes, says whose recovery it is and
  which backend is asked; with Core, `Hidden` names the transactions that Core cannot
  look up once they are confirmed; `ChildProved` and `ParentProved` are the proofs
  by unspent output, `Inferred` the parent that a child shows to be mined.
- `Receipt` - a command is a `look` that reads the signer, the confirmations and
  the spender in turn; Finish... is its verdict and `report` what it prints. Sign,
  CompleteTransfer, AcceptTransfer, SignElsewhere, Mine and Spend are what happens
  meanwhile. The enclave signs any digest for whoever has the secrets, so
  SignElsewhere appends a recovery of any delay for any receiver, or something that
  is no recovery, at any time and repeatedly; and a receiver may be handed any list of
  what was signed, with some left out, repeated or moved (`Received`). `Delays` has the comparisons it shares with the client library.
- `SourceSweep` - StartSweep to ConfirmSweep for source_sweep; StartFund,
  SelectSource, AskSigner, SecureFunding and BroadcastFunding are what coin fund does
  to deposits. `signer` says how far the one request for a signature is: until it is
  answered each run looks at the source first, afterwards none does (`MayAsk`).
- `Store` - Initialize/FinishInitialize, Open, Save, SaveNative, DrawArtifact,
  WriteArtifact, then WriteTemporary, Rename or Publish (hard link),
  SyncDirectory, one system call or group of calls each. `durable` holds, for
  each name, what a power loss may bring back.

Abstractions that hold throughout. Keys, hashes, capabilities and handoff tokens
are distinct values; a signature is the key and what it signs; verification
compares these. The channel to the enclave is authentic. Amounts and fees appear
only as the policy a rerun is compared with. A change in memory and the save
after it are one step where nothing outside can tell.

## 3. Runs

| Run | Configuration | What it shows |
|---|---|---|
| signer | 3 coin IDs, 2 capabilities, 2 sighashes, LIMIT 2, count to 2, 3 keys | Whatever arrives, in any order: one authorization of one key signs once (`NoFork`), the count is the number of answers and the authorization what the last of them produced (`CountIsHistory`), the last answer can be fetched (`LatestIsRecoverable`), no spent authorization returns (`SpentStaysSpent`), registering again changes nothing (`RegistrationIsSticky`) |
| funding | 3 boots, 2 attempts | The network never has the funding without a recovery on disk from the pinned signer (`RecoveryBeforeFunding`); an interrupted attempt can be finished while that signer lives (`AttemptIsRecoverable`); a funded wallet holds the live authorization (`SecuredWalletOwnsCoin`); refines SafeFunding; reruns finish the funding (`FundingCompletes`) and send an evicted one again (`EvictedFundingReturns`) |
| core_funding | one wallet of Core that restarts and pays others, 3 boots, 2 attempts | What the signer may have been asked to protect stays reserved in Core, over its restarts (`AskedFundingIsReserved`); refines SafeFunding; reruns finish a funding through Core, also one whose inputs were locked and never journaled, once the operator frees them (`CoreFundingCompletes`) |
| transfer | 3 wallets, one of them with a Core without an index, delays 5, 4, 3, 6 blocks, 2 boots | The authority is with one wallet, in its retry, or in a package (`AuthorityIsAccountedFor`); newer recoveries mature first; exits and transfers exclude each other; an owner keeps its recovery; refines Statechain. A transfer the signer answered reaches its package (`PackageIsDelivered`), also when the margin has run out or a former owner has spent the coin; not through a backend that no longer shows the funding |
| transfer_lost_signer | 2 wallets, delays 5, 4, ..., 6 blocks, 2 boots, expected violation | first finding, section 6 |
| transfer_unindexed | the bounds of transfer, 5 blocks, expected violation | third finding, section 6 |
| handover | 3 wallets, 3 kinds of terms, one of them for another coin, 3 envelopes | The receiver takes the coin for the request it saved and calls nothing else accepted (`AcceptedAsAsked`); reruns on both sides find the same pair (`RerunsAgree`); a transfer to a request that its receiver waits for ends up accepted (`TransferIsAccepted`) |
| exit | an owner and a former owner with an explorer; an owner with a Core that hides every confirmed transaction, a former owner with one that hides recoveries and children; delays 3 > 2 > 1, 3 blocks, 4 policies | What was posted is armed and saved; an observed exit was really taken, with proofs by unspent output and inferred parents as well; a newer owner's recovery is not contested; an armed exit is observed in the end, an evicted one returns |
| source_sweep | 3 deposits and a change, batches of 2, 2 policies | `OneSpendPerDeposit`, `SentIsJournaled` across both commands; an armed sweep returns after an eviction |
| receipt | 3 wallets, 3 signatures, delays 8, 6, 4 of at most 8 for honest transfers, 6, 4 and 1 for what a copy has signed, 2 blocks, margins 2 and 14 of at most 15 | What is exported, verified or reported as current shows every signature of the coin, each once (`VerifiedIsComplete`); what is called safe leaves the margin in unbounded arithmetic (`VerifiedLeavesMargin`); an owner that says so is the holder and matures first (`OwnedReportIsTrue`) |
| store | 2 processes, 2 saves a half, 2 artifacts, 1 power loss | No save is lost (`NoSaveIsLost`) or torn (`WalletIsWhole`), a save a command goes on from is durable (`OwnSavesAreDurable`), an artifact is written after its journal (`ArtifactIsJournaled`) and never replaced (`ReportedArtifactStays`) |
| store_resume | the same, expected violation | second finding, section 6 |

Liveness is checked together with safety and without symmetry. Funding, Transfer,
Exit, SourceSweep and Store each state a `TypeOK` that no run lists; it is
proved (section 5).

Why the bounds are enough. *Signer*: a third coin meets LIMIT, a third key a
restart, count 2 the end of the counter and a cache entry that was overwritten.
*Funding*: two attempts are one more than the code may draw; two restarts let a
late registration and a late sign request meet different boots. *Transfer*:
three wallets give two former owners at once and two transfers in a row, which is
what they can make: a wallet accepts one coin in its life. Delays reach the margin
and blocks go past the first delay. The first owner's recovery
matures while the second transfer is under way, by a sender whose Core has no
index, and by one whose backend does. *Exit*: one older and one newer rival, and the block at
which each matures. *Handover*: two receivers let an old request be used
again, which takes the third envelope; the third kind of terms is a request that
no sender of this coin may accept. *CoreFunding*: the bounds of Funding; Core has
no counter. *Receipt*: three signatures are two honest
transfers, or one with something signed before, between or after, or a ladder that
was signed out of order (8, 4, 6) and is handed over in order; TLC reaches receipts
that verify with such a list. The margins meet the u32 edge at two confirmations,
the delays start at the u16 edge, and a delay of 1 is below a step, where the
subtraction of the ladder has no result. *SourceSweep*: three deposits and batches of two give a full
batch, a rest, and a deposit for the funding; the change output is a fourth.
*Store*: two saves of each half and two processes order every pair of saves; one
power loss at every point. All bounds are CONSTANTS named as bounds in the
modules, except `MaxCount` and `MaxBatch`, which are the code's own limits
(2^64 - 1 and 100) made small.

Deadlock is not checked in Handover and Receipt, where everybody may have taken
what there is to take and every block is mined, nor in Store: there a kill inside `init`, between
the two files, leaves a directory that every command, `init` included, refuses,
and the model, like the wallet, has nothing left to do.

## 4. Fairness

Nothing forces an operator to act, so liveness assumes what the wallet's README
asks for in "Interrupted operations": the interrupted command is rerun with the
same arguments. In Funding and Transfer that is weak fairness of each wallet's
own steps, which include starting the command (in Handover of its `Send` and its
`Receive`, because files only wait to be read); in CoreFunding strong fairness of
`OperatorUnlock` as well, since what an interrupted selection locked is freed by
hand; in Exit and SourceSweep the rerun
with the saved policy has strong fairness, since runs with other policies come
and go in between. The signer and the network answer what reaches them (weak
fairness of `Handle`, in SourceSweep of `SignerAnswers` too), which is what "the service is up" means. Crashes,
evictions, refusals without a reason and reorganisations are unrestricted until
some time and then stop (`Uninterrupted`, `Steady`, written out as hypotheses of
the properties). Blocks, restarts and other owners have no fairness, and the
properties name their escape: another boot of the signer, a lost deposit, another
owner's recovery.

## 5. Proofs

Every invariant and every action property of the runs that pass, and the three
refinements they check, are theorems: they hold for every set of wallets, coins,
processes, policies or messages, every delay and margin, and every value of the
bounds. Only liveness is left to TLC. The proofs assume what the modules state
next to their CONSTANTS:

- `MaxKeys`, `LIMIT`, `MaxCount` and the bounds are natural numbers, some of them
  not zero, and the named special values are not members of the sets beside them
  (`LimitAssumption`, `MaxCountAssumption`, `MaxKeysAssumption`, `FundingBounds`,
  `TransferBounds`, `WalletAssumption`, `HandoverAssumption`, `StoreBounds`);
- `SigningAssumption`, `MaxCount > 0`, where a wallet has to get its first
  signature (the code's limit is `u64::MAX`). Without it
  `AttemptIsRecoverable` is false: the signer would refuse the first attempt;
- `SweepAssumption`, a batch has room for an output (100 in the code);
- `DelayAssumption`, the margin is at least one step, as `begin_transfer_request`
  demands; `ExitAssumption`, an older owner's delay is longer and a newer one's
  shorter, as `NewestMaturesFirst` of Transfer gives; `DelaysAssumption` and
  `ReceiptAssumption`, delays fit `u16`, heights and margins `u32`, for any
  `MaxU16 < MaxU32`.

Each module has one inductive invariant `Inv`, one lemma per action that it is
kept, `NextInv` that puts them together, and `Invariance == Spec => []Inv`; the
other theorems follow from `Inv`. The invariants of the runs are not inductive.
What had to be added says where the things come from that they speak of:

- **SignerProofs**: that one authorization signs once depends on tokens being
  fresh, on keys not being shared, and on the live coin standing at the end of its
  chain of answers. `DrawnInv`: every key and token in use was drawn, and each
  answer moves to a later token than it consumed. `KeyInv`: two registered coins
  have different keys. `OrderInv`: along one key, one answer a count, and counts
  and tokens grow together. `CoinInv`: no answer of a live key is beyond the
  coin's count; the one at the count produced the coin's authorization and is in
  its cache. `ChainInv`: each answer consumed what the one before it produced.
  `NoFork` follows from OrderInv, `SpentStaysSpent` from CoinInv and DrawnInv.
  `CapacityBound` is proved only; no run lists it.
- **FundingProofs**: one invariant serves both backends, since CoreFunding shares
  the journal, the signer and the network. A wallet draws one attempt in its life
  and the journal tells how far it is (`JournalInv`); what each step of a command
  has on disk (`ControlInv`); the coin of the running boot is new or has signed
  that one attempt (`SignerInv`); every request and answer on its way, however old,
  is for that attempt (`MessageInv`); what the network has, the journal may
  broadcast (`ChainInv`); a wallet that may broadcast and pinned the running boot
  has its handoff (`OwnerInv`). CoreFunding adds `LockInv`: the deposit is locked
  for good before an attempt exists. `FundingIsSafe` and `CoreFundingRefines` prove
  the simulation of SafeFunding step by step: `SafeStepForms` rewrites the steps of
  SafeFunding under the mapping, a save may secure the recovery (`StepIsSafe`), a
  step of the network moves the deposit (`DepositMoves`).
- **TransferProofs**: `signed` is the history of the pinned signer, and its n-th
  signature moved the coin to handoff n. Everything else is measured against it.
  `ChainInv`: delays fall by a step, and only a wallet that has the coin passed it
  on. `SignerInv`: the pinned coin holds the answer to the newest signature; a later
  boot has never signed. `WalletInv`: an owner holds all of `signed`, or all but the
  last with the request that was signed in its journal (`OwnerInv`); a former owner
  has one recovery that pays to it and one package (`FormerInv`). `OwnersInv`: one
  owner at a time, or one newest package. `MessageInv`: of the requests in the
  network, however old, only the one its owner has journaled can still be signed.
  `RunInv`: what each step of a command relies on. No clause speaks of the status a
  command read: against packages that senders wrote, what the signer checks when it
  signs is enough for safety; what the commands check of a status is for
  histories that were edited (Receipt) and signers that were restarted. `TransferIsStatechain`
  is the simulation of Statechain: `SignGrants`, `AcceptIsAbstract`,
  `ConfirmSettles`, blocks age the coin, and `StepCases` with `StepKeeps` says that
  every other step is a stutter. It needs `Distinct`: no two signatures are equal,
  because delays fall.
- **HandoverProofs**: `RerunsAgree` says nothing of where an envelope in somebody's
  hands comes from. `PackageInv` and `SentInv`: every undamaged envelope is in the
  journal of the wallet that sealed it; `HandoffInv`: the signer tells a handoff to
  one sender; `AcceptedInv`: what a wallet calls accepted came from there, over the
  request it had saved.
- **ExitProofs**: the command's copy is the saved journal, and an armed one once it
  submits (`JournalInv`); nothing is taken that was not posted (`NetworkInv`); a child
  the command has seen was accepted (`SeenInv`); how far it can come while another
  owner's recovery stands (`StandingInv`).
- **SourceSweepProofs**: the journals and what a command has found out at each step
  (`JournalInv`, `ControlInv`); one funding transaction ever (`FundInv`); what spends
  its change is never ahead of it on the chain, so an undone block takes both
  (`OrderInv`); every sweep ever posted keeps clear of the journals and of every
  other sweep (`ApartInv`). `LargestIsNotEmpty` and `LargestIsABatch` say that the
  choice of the largest outputs is never empty and never more than a batch; the
  second is what `TypeCorrect` adds.
- **ReceiptProofs**: the heart is the lemma `Complete`: a ladder of recoveries, all
  signed by the signer, as long as the signer's count, shows everything the signer
  signed. It descends (`StepsDescend`), so no recovery is in it twice; the places at
  which the signer signed its recoveries are then an injection of `1 .. count` into
  itself, and an injection of a finite set into itself leaves nothing out
  (`FS_Injection` of the library). Nothing is assumed of what was signed, or in what
  order: with `ReceiptsHideNothing` a copy of a wallet may sign anything and hand the
  coin over with any list. `WalletInv` and `LookInv` say that every history a command can
  see, edited or old, is made of such signatures, and that a wallet that gave its
  coin away has fewer of them than the signer. `VerifiedLeavesMargin` compares the
  arithmetic with its widths to unbounded arithmetic, for all widths.
- **StoreProofs**: the lock makes a command alone, so the file it loaded is still
  the file there is (`LockInv`), every name holds, now and after a power loss, a file
  of its kind (`FilesInv`), and what a command has written is between its own steps
  (`ProcessInv`). The action properties `NoSaveIsLost` and `ReportedArtifactStays`
  follow from the invariant before and after the step.

Two proofs need induction over numbers. The induction theorems of the library
take an operator as a parameter, which the provers here cannot instantiate;
`Induction` in ReceiptProofs and the smallest and largest outputs in
SourceSweepProofs are had from the well-foundedness of the naturals instead
(`WFMin`, a minimal counterexample).

What proving changed in the models, with no change in what they do: the
`EntryPoint` of Transfer and `CoreEntryPoint` were CASEs with overlapping arms, whose
choice the prover leaves open, and are chains of conditions in the order of the
code, down to arms that exclude each other (`EntryPoint` of Funding is still a CASE:
in every reachable journal only one of its arms applies); a `look` in
Receipt is a record of one shape (`Look`) instead of one that grows; the special
names of Transfer are assumed not to be wallets.

Only model-checked: liveness (`FundingCompletes`, `EvictedFundingReturns`,
`CoreFundingCompletes`, `PackageIsDelivered`, `TransferIsAccepted` and those of Exit and
SourceSweep), because the prover has no support for ENABLED, on which fairness
rests; and the three violations of section 6, which are counterexamples.

## 6. Disagreements found

1. *A lost signer can take the recovery with it* (`transfer_lost_signer`).
   PROTOCOL.md:192-193 promises "Unknown signer state for an existing coin means
   transfers stop. The latest already secured recovery remains usable."
   `coin exit` refuses while any operation is pending (`cli.rs:1769`) and nothing
   abandons a pending transfer. A wallet that journaled a transfer before the
   signer restarted can neither finish it nor exit. (The withdrawal key is in the
   wallet file; no command uses it.)
2. *A resumed journal may not be durable* (`store_resume`). PROTOCOL.md:219-222
   asks callers to "durably commit each prepared request and received response
   before performing the next irreversible step". `wallet.enc` is renamed and
   the directory synced afterwards (`store.rs:335-337`). A command killed between
   the two leaves a state that the next command loads and acts on with no sync
   of its own; a power loss may still undo it.
3. *An answered transfer is not always retried* (`transfer_unindexed`).
   wallet/README.md:582-584: "The wallet queries live status and, if the count
   advanced, retries the exact journaled request against the enclave's
   latest-response cache." `coin sign` observes the funding in between
   (`cli.rs:1415`), also for an answered attempt. A Bitcoin Core without an index,
   which is enough for a receiver (README.md:468-471), cannot show a funding that a
   former owner has spent (`services.rs:1119-1121`), and every rerun fails there.
   The coin is spent by then: what is lost is the package and the end of the pending
   operation. `PackageIsDelivered` names this escape.

## 7. Not modelled

Attestation, the Noise channel, encryption and serialisation (cryptography and
layout; the models take their promises as given); construction of the
transactions and fee arithmetic; HTTP and JSON of the chain services and the RPC
client of Core; `coin exit --dry-run`, `coin recovery` and the deposit commands,
which change nothing; permissions, sizes and passwords of the store. Core's way
of finding unspent outputs is in Exit, its choice among several inputs in
CoreFunding is one deposit. A reorganisation deeper than
`min_confirmations` is outside what the code claims and outside the models. In
Exit confirmations never go back. `Store` takes the creation of the wallet
directory itself as durable, and files that other programs put at an output path
as having other content.

## 8. Plan

Written, in this order, the most important behaviour first: Enclave and Signer
with SignerProofs; Funding and SafeFunding; Transfer and Statechain; Exit;
SourceSweep; Store; CoreFunding; the Core paths of Exit; Handover; Delays and
Receipt; then the proofs of every safety property and refinement: FundingProofs,
HandoverProofs, ExitProofs, SourceSweepProofs, StoreProofs, ReceiptProofs,
TransferProofs.

To come:

1. Safety lemmas that the liveness arguments rest on: which steps make progress
   towards `FundingCompletes` and `PackageIsDelivered`, and which never undo it.
2. How the modules fit: that the delays Exit assumes are the ones Transfer makes
   (`ExitAssumption`), stated as a theorem of TransferProofs instead of in prose; that
   the coin of Transfer's `FundedWallet` is what Funding leaves.
