-------------------------------- MODULE Store --------------------------------
(***************************************************************************)
(* The wallet's directory (src/wallet/src/store.rs): the lock every command *)
(* holds, the atomic replacement of config.json and wallet.enc, and the    *)
(* writer of output artifacts, which never replaces a file.                *)
(*                                                                         *)
(* Commands run in several processes.  A process may be killed, or fail in *)
(* any call, between any two steps; the machine may lose power.  What a    *)
(* name then holds is one of the values it had since its directory was     *)
(* last synced, and a file that was never synced is torn.                  *)
(*                                                                         *)
(* Abstractions.  wallet.enc holds the number of saves of its wallet and   *)
(* of its journals, and the artifact the wallet owes (a transfer request   *)
(* or a package), 0 for none; an output file holds an artifact; nothing    *)
(* depends on what config.json holds.  Encryption and its key are left     *)
(* out.  All artifacts go to one path outside the wallet's directory.      *)
(* Other programs may create a file there, with another content.  The      *)
(* wallet's directory itself is there to stay (ensure_secure_directory).   *)
(***************************************************************************)
EXTENDS Integers, FiniteSets

CONSTANTS
  Processes,    \* processes that run wallet commands
  MaxSaves,     \* bound: saves of the wallet, and of its journals
  MaxDraws,     \* bound: artifacts the wallet draws
  MaxLosses     \* bound: power losses

ASSUME StoreBounds == MaxSaves \in Nat /\ MaxDraws \in Nat /\ MaxLosses \in Nat

VARIABLES
  dir,       \* what each name holds now: no file, or one
  durable,   \* what each name may hold after a power loss
  holder,    \* the process that holds the lock: none, or one
  pc, mem,   \* each command: next step, state it works on
  out, tmp,  \* the file it writes: name and content, temporary file
  draws, losses

vars == <<dir, durable, holder, pc, mem, out, tmp, draws, losses>>

Names == {"state", "config", "artifact"}

(* WalletState::empty in a NativeWalletState. *)
EmptyState == [wallet |-> 0, native |-> 0, artifact |-> 0]

Artifact(id) == [EmptyState EXCEPT !.artifact = id]

FOREIGN == Artifact(MaxDraws + 1)   \* what another program writes

NothingWritten == [name |-> "state", content |-> EmptyState, next |-> "idle"]

Init ==
  /\ dir = [name \in Names |-> {}]
  /\ durable = [name \in Names |-> {{}}]
  /\ holder = {}
  /\ pc = [p \in Processes |-> "idle"]
  /\ mem = [p \in Processes |-> EmptyState]
  /\ out = [p \in Processes |-> NothingWritten]
  /\ tmp = [p \in Processes |-> {}]
  /\ draws = 0
  /\ losses = 0

Exists(name) == dir[name] # {}

Saved == (CHOOSE file \in dir["state"] : TRUE).content

-----------------------------------------------------------------------------
(* The lock, and the start and the end of a command. *)

Unlocked(p) == TRUE

(* open_lock: try_lock_exclusive. *)
Lock(p) == holder = {}

(* The command ends; its lock and its memory go with it. *)
End(p) ==
  /\ pc' = [pc EXCEPT ![p] = "idle"]
  /\ holder' = holder \ {p}
  /\ mem' = [mem EXCEPT ![p] = EmptyState]
  /\ out' = [out EXCEPT ![p] = NothingWritten]
  /\ tmp' = [tmp EXCEPT ![p] = {}]

(* Write a file next, then go on at step next. *)
Begin(p, name, content, next) ==
  /\ pc' = [pc EXCEPT ![p] = "write"]
  /\ out' = [out EXCEPT ![p] = [name |-> name, content |-> content, next |-> next]]

(* WalletStore::initialize: under the lock, refused where a wallet or a    *)
(* part of one already is; the state first, the configuration last.        *)
ConfigFirst == <<"config", "state">>

InitialFiles == <<"state", "config">>

Initialize(p) ==
  /\ pc[p] = "idle"
  /\ Lock(p)
  /\ holder' = holder \cup {p}
  /\ ~ Exists("config") /\ ~ Exists("state")
  /\ Begin(p, InitialFiles[1], EmptyState, "initialize")
  /\ UNCHANGED <<dir, durable, mem, tmp, draws, losses>>

FinishInitialize(p) ==
  /\ pc[p] = "initialize"
  /\ Begin(p, InitialFiles[2], EmptyState, "done")
  /\ UNCHANGED <<dir, durable, holder, mem, tmp, draws, losses>>

(* WalletStore::open and load_native: a wallet that has both its files. *)
Open(p) ==
  /\ pc[p] = "idle"
  /\ Lock(p)
  /\ Exists("state") /\ Exists("config")
  /\ holder' = holder \cup {p}
  /\ mem' = [mem EXCEPT ![p] = Saved]
  /\ pc' = [pc EXCEPT ![p] = "loaded"]
  /\ UNCHANGED <<dir, durable, out, tmp, draws, losses>>

Close(p) ==
  /\ pc[p] \in {"loaded", "saved", "written", "done"}
  /\ End(p)
  /\ UNCHANGED <<dir, durable, draws, losses>>

(* A process dies, or an error ends its command. *)
Stop(p) ==
  /\ pc[p] # "idle"
  /\ End(p)
  /\ UNCHANGED <<dir, durable, draws, losses>>

-----------------------------------------------------------------------------
(* What commands save. *)

Working(p) == pc[p] \in {"loaded", "saved"}

(* WalletStore::save writes the wallet the command works on with the       *)
(* journals of the file as it is now.                                      *)
Merged(p, wallet) == [wallet EXCEPT !.native = Saved.native]

Save(p) ==
  /\ Working(p)
  /\ mem[p].wallet < MaxSaves
  /\ LET state == Merged(p, [mem[p] EXCEPT !.wallet = @ + 1])
     IN  /\ mem' = [mem EXCEPT ![p] = state]
         /\ Begin(p, "state", state, "saved")
  /\ UNCHANGED <<dir, durable, holder, tmp, draws, losses>>

(* WalletStore::save_native writes all of it. *)
SaveNative(p) ==
  /\ Working(p)
  /\ mem[p].native < MaxSaves
  /\ LET state == [mem[p] EXCEPT !.native = @ + 1]
     IN  /\ mem' = [mem EXCEPT ![p] = state]
         /\ Begin(p, "state", state, "saved")
  /\ UNCHANGED <<dir, durable, holder, tmp, draws, losses>>

(* create_transfer_request: a request is drawn once, is refused when its   *)
(* output already exists (ensure_destination_available), and is saved      *)
(* before it is written.                                                   *)
DrawnInMemory(p, state) ==
  /\ pc' = [pc EXCEPT ![p] = "saved"]
  /\ UNCHANGED out

Drawn(p, state) == Begin(p, "state", state, "saved")

DrawArtifact(p) ==
  /\ Working(p)
  /\ mem[p].artifact = 0
  /\ mem[p].wallet < MaxSaves
  /\ draws < MaxDraws
  /\ ~ Exists("artifact")
  /\ draws' = draws + 1
  /\ LET state == Merged(p, [mem[p] EXCEPT !.wallet   = @ + 1,
                                           !.artifact = draws + 1])
     IN  mem' = [mem EXCEPT ![p] = state] /\ Drawn(p, state)
  /\ UNCHANGED <<dir, durable, holder, tmp, losses>>

(* A command writes the artifact its wallet owes, as often as it is asked  *)
(* to.                                                                     *)
WriteArtifact(p) ==
  /\ Working(p)
  /\ mem[p].artifact # 0
  /\ Begin(p, "artifact", Artifact(mem[p].artifact), "written")
  /\ UNCHANGED <<dir, durable, holder, mem, tmp, draws, losses>>

-----------------------------------------------------------------------------
(* write_bytes_atomic_inner and write_bytes_destination. *)

(* The temporary file: created, written, synced. *)
CachedFile(content) == {[content |-> content, data |-> "cached"]}

SyncedFile(content) == {[content |-> content, data |-> "synced"]}

WriteTemporary(p) ==
  /\ pc[p] = "write"
  /\ tmp' = [tmp EXCEPT ![p] = SyncedFile(out[p].content)]
  /\ pc' = [pc EXCEPT ![p] = "publish"]
  /\ UNCHANGED <<dir, durable, holder, mem, out, draws, losses>>

PutName(name, file) ==
  /\ dir' = [dir EXCEPT ![name] = file]
  /\ durable' = [durable EXCEPT ![name] = @ \cup {file}]

(* fs::rename, which replaces what is there. *)
Rename(p) ==
  /\ pc[p] = "publish"
  /\ out[p].name # "artifact"
  /\ PutName(out[p].name, tmp[p])
  /\ tmp' = [tmp EXCEPT ![p] = {}]
  /\ pc' = [pc EXCEPT ![p] = "sync"]
  /\ UNCHANGED <<holder, mem, out, draws, losses>>

(* fs::hard_link, which does not: a file that exists must be the same. *)
Link(p) ==
  \/ ~ Exists("artifact") /\ PutName("artifact", tmp[p])
  \/ /\ \E file \in dir["artifact"] : file.content = out[p].content
     /\ UNCHANGED <<dir, durable>>

AfterLinkUnlessThere(p) == IF Exists("artifact") THEN "written" ELSE "sync"

AfterLink(p) == "sync"

Publish(p) ==
  /\ pc[p] = "publish"
  /\ out[p].name = "artifact"
  /\ Link(p)
  /\ tmp' = [tmp EXCEPT ![p] = {}]
  /\ pc' = [pc EXCEPT ![p] = AfterLink(p)]
  /\ UNCHANGED <<holder, mem, out, draws, losses>>

(* The parent directory is synced. *)
Siblings(name) == IF name = "artifact" THEN {name} ELSE {"state", "config"}

NothingSynced(names) == UNCHANGED durable

Synced(names) ==
  durable' = [name \in Names |->
                IF name \in names THEN {dir[name]} ELSE durable[name]]

SyncDirectory(p) ==
  /\ pc[p] = "sync"
  /\ Synced(Siblings(out[p].name))
  /\ pc' = [pc EXCEPT ![p] = out[p].next]
  /\ UNCHANGED <<dir, holder, mem, out, tmp, draws, losses>>

-----------------------------------------------------------------------------
(* The world around the wallet. *)

WriteForeign ==
  /\ ~ Exists("artifact")
  /\ PutName("artifact", CachedFile(FOREIGN))
  /\ UNCHANGED <<holder, pc, mem, out, tmp, draws, losses>>

AfterLoss(file) ==
  {[f EXCEPT !.data = IF @ = "synced" THEN @ ELSE "torn"] : f \in file}

PowerLoss ==
  /\ losses < MaxLosses
  /\ losses' = losses + 1
  /\ \E state \in durable["state"], config \in durable["config"],
        artifact \in durable["artifact"] :
       dir' = [state    |-> AfterLoss(state),
               config   |-> AfterLoss(config),
               artifact |-> AfterLoss(artifact)]
  /\ durable' = [name \in Names |-> {dir'[name]}]
  /\ holder' = {}
  /\ pc' = [p \in Processes |-> "idle"]
  /\ mem' = [p \in Processes |-> EmptyState]
  /\ out' = [p \in Processes |-> NothingWritten]
  /\ tmp' = [p \in Processes |-> {}]
  /\ UNCHANGED draws

Command(p) ==
  \/ Initialize(p) \/ FinishInitialize(p) \/ Open(p) \/ Close(p) \/ Stop(p)
  \/ Save(p) \/ SaveNative(p) \/ DrawArtifact(p) \/ WriteArtifact(p)
  \/ WriteTemporary(p) \/ Rename(p) \/ Publish(p) \/ SyncDirectory(p)

Next == (\E p \in Processes : Command(p)) \/ WriteForeign \/ PowerLoss

Spec == Init /\ [][Next]_vars

-----------------------------------------------------------------------------
States == [wallet : 0 .. MaxSaves, native : 0 .. MaxSaves, artifact : 0 .. MaxDraws]

Contents(name) ==
  CASE name = "state"    -> States
    [] name = "config"   -> {EmptyState}
    [] name = "artifact" -> {Artifact(id) : id \in 1 .. MaxDraws + 1}

(* One command at a time holds the lock, and no file of the wallet is less *)
(* than synced.                                                            *)
TypeOK ==
  /\ \A name \in Names :
       /\ dir[name] \in durable[name]
       /\ \A file \in UNION durable[name] :
            /\ file.content \in Contents(name)
            /\ file.data \in {"synced", "cached", "torn"}
            /\ name = "artifact" \/ file.data = "synced"
  /\ holder = {p \in Processes : pc[p] # "idle"}
  /\ Cardinality(holder) <= 1
  /\ mem \in [Processes -> States]

(* A wallet that has a configuration has a state: a command never finds    *)
(* one without the other once `init` has written both, nor a torn state,   *)
(* whenever it was killed and whenever the power went.                     *)
WalletIsWhole ==
  \A config \in durable["config"], state \in durable["state"] :
    config # {} => state # {} /\ \A file \in state : file.data = "synced"

(* While the machine is up, every save of wallet.enc is one step on from   *)
(* what the file held, whoever saved before: no command overwrites a save  *)
(* it has not seen, in either half of the file.                            *)
NoSaveIsLost ==
  [][\A old \in dir["state"] : losses' = losses =>
       \E new \in dir'["state"] :
         /\ new.content.wallet - old.content.wallet \in 0 .. 1
         /\ new.content.native - old.content.native \in 0 .. 1
         /\ old.content.artifact # 0 => new.content.artifact = old.content.artifact
    ]_dir

(* A command goes on from a save only once a power loss cannot undo it.    *)
OwnSavesAreDurable ==
  \A p \in Processes :
    pc[p] = "saved" => \A state \in durable["state"] :
      \E file \in state : file.content = mem[p]

(* An output file is never replaced, and once a command has reported it    *)
(* written, it survives a power loss with the content the wallet owes.     *)
ReportedArtifactStays ==
  /\ [][losses' = losses => dir["artifact"] = {} \/ dir'["artifact"] = dir["artifact"]]_dir
  /\ [][\A p \in Processes : pc'[p] = "written" =>
          \A artifact \in durable'["artifact"] :
            \E file \in artifact : file.content = Artifact(mem'[p].artifact)]_vars

(* "must durably commit each prepared request ... before performing the    *)
(* next irreversible step" (PROTOCOL.md): while the machine is up, an      *)
(* artifact anyone can read is the one in the wallet's journal.            *)
ArtifactIsJournaled ==
  losses = 0 =>
    \A file \in dir["artifact"] :
      file.content # FOREIGN => \E state \in dir["state"] :
        state.content.artifact = file.content.artifact

(* The same of a power loss: an artifact that can be read is one the       *)
(* wallet will still know after it.                                        *)
ArtifactIsDurablyJournaled ==
  losses = 0 =>
    \A file \in dir["artifact"] :
      file.content # FOREIGN => \A state \in durable["state"] :
        \E saved \in state : saved.content.artifact = file.content.artifact
=============================================================================
