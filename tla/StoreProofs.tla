----------------------------- MODULE StoreProofs -----------------------------
(***************************************************************************)
(* Theorems about Store, for any set of processes and any bounds.          *)
(*                                                                         *)
(* The properties follow from what the lock makes of a command: it is      *)
(* alone, so the file it loaded is still the file there is, and what it    *)
(* has written is between its own steps.  Inv says, for each step, what    *)
(* wallet.enc and the directory hold relative to the command's memory.     *)
(***************************************************************************)
EXTENDS Store, FiniteSetTheorems, TLAPS

File == [content : [wallet   : 0 .. MaxSaves,
                    native   : 0 .. MaxSaves,
                    artifact : 0 .. MaxDraws + 1],
         data : {"synced", "cached", "torn"}]

(* What a name holds: no file, or one. *)
Entry == {{}} \cup {{file} : file \in File}

Steps == {"idle", "write", "publish", "sync", "initialize", "loaded", "saved",
          "written", "done"}

TypeInv ==
  /\ dir \in [Names -> Entry]
  /\ durable \in [Names -> SUBSET Entry]
  /\ pc \in [Processes -> Steps]
  /\ mem \in [Processes -> States]
  /\ DOMAIN out = Processes
  /\ DOMAIN tmp = Processes
  /\ draws \in 0 .. MaxDraws
  /\ losses \in 0 .. MaxLosses

(* What can be found under each name, now or after a power loss. *)
FilesInv ==
  \A name \in Names :
    /\ dir[name] \in durable[name]
    /\ \A entry \in durable[name] : \A file \in entry :
         /\ file.content \in Contents(name)
         /\ name # "artifact" => file.data = "synced"

LockInv ==
  /\ holder = {p \in Processes : pc[p] # "idle"}
  /\ \A p, q \in holder : p = q

Writing(p) == pc[p] \in {"write", "publish", "sync"}

(* The four files a command writes, each on its way to another step. *)
Jobs(p) ==
  {[name |-> "state", content |-> EmptyState, next |-> "initialize"],
   [name |-> "config", content |-> EmptyState, next |-> "done"],
   [name |-> "state", content |-> mem[p], next |-> "saved"],
   [name |-> "artifact", content |-> Artifact(mem[p].artifact), next |-> "written"]}

(* state is one save on from old, and owes the same artifact if old owed   *)
(* one.                                                                    *)
Follows(state, old) ==
  /\ state.wallet - old.wallet \in 0 .. 1
  /\ state.native - old.native \in 0 .. 1
  /\ old.artifact # 0 => state.artifact = old.artifact

(* What each step of a running command p relies on. *)
ProcessInv(p) ==
  /\ Writing(p) => out[p] \in Jobs(p)
  /\ pc[p] = "publish" => tmp[p] = SyncedFile(out[p].content)
  /\ pc[p] \in {"write", "publish"} /\ out[p].next = "initialize" =>
       dir["state"] = {}
  /\ pc[p] \in {"write", "publish"} /\ out[p].next = "saved" =>
       \E file \in dir["state"] : Follows(mem[p], file.content)
  /\ pc[p] \in {"loaded", "saved", "written"} \/ (Writing(p) /\ out[p].next = "written") =>
       \E file \in dir["state"] : file.content = mem[p]
  /\ Writing(p) /\ out[p].next = "written" => mem[p].artifact # 0
  /\ pc[p] = "sync" => \E file \in dir[out[p].name] : file.content = out[p].content
  /\ pc[p] = "initialize" \/ (Writing(p) /\ out[p].next = "done") =>
       {} \notin durable["state"]
  /\ pc[p] = "saved" => \A state \in durable["state"] :
       \E file \in state : file.content = mem[p]
  /\ pc[p] = "written" => \A artifact \in durable["artifact"] :
       \E file \in artifact : file.content = Artifact(mem[p].artifact)

Inv ==
  /\ TypeInv /\ FilesInv /\ LockInv
  /\ WalletIsWhole /\ ArtifactIsJournaled
  /\ \A p \in Processes : pc[p] # "idle" => ProcessInv(p)

-----------------------------------------------------------------------------
(* The contents a wallet writes. *)
LEMMA ContentsOf ==
  /\ Contents("state") = States
  /\ Contents("config") = {EmptyState}
  /\ Contents("artifact") = {Artifact(id) : id \in 1 .. MaxDraws + 1}
  /\ EmptyState \in States
  /\ EmptyState.wallet = 0 /\ EmptyState.native = 0 /\ EmptyState.artifact = 0
  /\ \A id \in Nat : /\ Artifact(id).artifact = id
                     /\ Artifact(id).wallet = 0 /\ Artifact(id).native = 0
<1>1. EmptyState \in States
  BY StoreBounds DEF EmptyState, States
<1> QED
  BY <1>1 DEF Contents, EmptyState, Artifact

(* A synced file with such a content can be under a name. *)
LEMMA SyncedFileIsEntry ==
  ASSUME NEW name \in Names, NEW content \in Contents(name)
  PROVE  /\ SyncedFile(content) \in Entry
         /\ SyncedFile(content) # {}
         /\ \A file \in SyncedFile(content) :
              file.content = content /\ file.data = "synced"
<1>1. content \in [wallet : 0 .. MaxSaves, native : 0 .. MaxSaves,
                   artifact : 0 .. MaxDraws + 1]
  <2>1. CASE name = "state"
    <3>1. content \in States
      BY <2>1, ContentsOf
    <3>2. 0 .. MaxDraws \subseteq 0 .. MaxDraws + 1
      BY StoreBounds
    <3> QED
      BY <3>1, <3>2 DEF States
  <2>2. CASE name = "config"
    BY <2>2, ContentsOf, StoreBounds DEF States
  <2>3. CASE name = "artifact"
    <3>1. PICK id \in 1 .. MaxDraws + 1 : content = Artifact(id)
      BY <2>3, ContentsOf
    <3> QED
      BY <3>1, StoreBounds DEF Artifact, EmptyState
  <2> QED
    BY <2>1, <2>2, <2>3 DEF Names
<1> QED
  BY <1>1 DEF SyncedFile, Entry, File

LEMMA InitInv == Init => Inv
<1> SUFFICES ASSUME Init PROVE Inv
  OBVIOUS
<1>1. TypeInv
  BY ContentsOf, StoreBounds DEF Init, TypeInv, Entry, Steps
<1>2. FilesInv /\ LockInv /\ WalletIsWhole /\ ArtifactIsJournaled
  BY DEF Init, FilesInv, LockInv, WalletIsWhole, ArtifactIsJournaled, Names
<1>3. \A p \in Processes : pc[p] = "idle"
  BY DEF Init
<1> QED
  BY <1>1, <1>2, <1>3 DEF Inv

(* The lock is held by the one command that runs (open_lock). *)
LEMMA Alone ==
  ASSUME Inv, NEW p \in Processes
  PROVE  /\ pc[p] # "idle" => holder = {p}
         /\ Lock(p) => pc[p] = "idle" /\ holder = {}
BY DEF Inv, LockInv, Lock

(* A step of the command that holds, takes or gives back the lock has to   *)
(* answer for that command only.                                           *)
LEMMA OneCommand ==
  ASSUME Inv, NEW p \in Processes, holder \subseteq {p}, NEW step \in Steps,
         pc' = [pc EXCEPT ![p] = step],
         holder' = IF step = "idle" THEN {} ELSE {p},
         step # "idle" => ProcessInv(p)'
  PROVE  /\ LockInv'
         /\ \A q \in Processes : pc'[q] # "idle" => ProcessInv(q)'
<1>1. \A q \in Processes \ {p} : pc[q] = "idle" /\ pc'[q] = "idle"
  BY DEF Inv, LockInv
<1>2. pc'[p] = step
  BY DEF Inv, TypeInv
<1> QED
  BY <1>1, <1>2 DEF LockInv

LEMMA FilesUnchanged ==
  ASSUME Inv, UNCHANGED <<dir, durable, losses>>
  PROVE  FilesInv' /\ WalletIsWhole' /\ ArtifactIsJournaled'
BY DEF Inv, FilesInv, WalletIsWhole, ArtifactIsJournaled

(* The wallet a command loads is one of those that can be saved. *)
LEMMA SavedIsThere ==
  ASSUME Inv, NEW file \in dir["state"]
  PROVE  file.content = Saved /\ Saved \in States
<1>1. dir["state"] \in Entry /\ "state" \in Names
  BY DEF Inv, TypeInv, Names
<1>2. dir["state"] = {file}
  BY <1>1 DEF Entry
<1>3. file.content \in States
  BY <1>1, ContentsOf DEF Inv, FilesInv
<1> QED
  BY <1>2, <1>3 DEF Saved

-----------------------------------------------------------------------------
(* Start and end of a command. *)
LEMMA InitializeInv ==
  ASSUME Inv, NEW p \in Processes, Initialize(p) PROVE Inv'
<1>1. /\ pc' = [pc EXCEPT ![p] = "write"]
      /\ out' = [out EXCEPT ![p] = [name |-> "state", content |-> EmptyState,
                                    next |-> "initialize"]]
      /\ UNCHANGED <<dir, durable, mem, tmp, draws, losses>>
      /\ holder = {} /\ holder' = {p} /\ dir["state"] = {}
  BY DEF Initialize, Begin, InitialFiles, Lock, Exists
<1>2. TypeInv'
  BY <1>1 DEF Inv, TypeInv, Steps
<1>3. ProcessInv(p)'
  BY <1>1 DEF Inv, TypeInv, ProcessInv, Writing, Jobs
<1>4. LockInv' /\ \A q \in Processes : pc'[q] # "idle" => ProcessInv(q)'
  BY <1>1, <1>3, OneCommand DEF Steps
<1> QED
  BY <1>1, <1>2, <1>4, FilesUnchanged DEF Inv

LEMMA OpenInv == ASSUME Inv, NEW p \in Processes, Open(p) PROVE Inv'
<1>1. /\ pc' = [pc EXCEPT ![p] = "loaded"]
      /\ mem' = [mem EXCEPT ![p] = Saved]
      /\ UNCHANGED <<dir, durable, out, tmp, draws, losses>>
      /\ holder = {} /\ holder' = {p} /\ dir["state"] # {}
  BY DEF Open, Lock, Exists
<1>2. PICK file \in dir["state"] : file.content = Saved /\ Saved \in States
  BY <1>1, SavedIsThere
<1>3. TypeInv'
  BY <1>1, <1>2 DEF Inv, TypeInv, Steps
<1>4. ProcessInv(p)'
  BY <1>1, <1>2 DEF Inv, TypeInv, ProcessInv, Writing
<1>5. LockInv' /\ \A q \in Processes : pc'[q] # "idle" => ProcessInv(q)'
  BY <1>1, <1>4, OneCommand DEF Steps
<1> QED
  BY <1>1, <1>3, <1>5, FilesUnchanged DEF Inv

LEMMA EndInv ==
  ASSUME Inv, NEW p \in Processes, Close(p) \/ Stop(p) PROVE Inv'
<1>1. /\ pc[p] # "idle"
      /\ pc' = [pc EXCEPT ![p] = "idle"]
      /\ holder' = holder \ {p}
      /\ mem' = [mem EXCEPT ![p] = EmptyState]
      /\ DOMAIN out' = DOMAIN out /\ DOMAIN tmp' = DOMAIN tmp
      /\ UNCHANGED <<dir, durable, draws, losses>>
  BY DEF Close, Stop, End
<1>2. TypeInv'
  BY <1>1, ContentsOf DEF Inv, TypeInv, Steps
<1>3. holder = {p} /\ holder' = {}
  BY <1>1, Alone
<1>4. LockInv' /\ \A q \in Processes : pc'[q] # "idle" => ProcessInv(q)'
  BY <1>1, <1>3, OneCommand DEF Steps
<1> QED
  BY <1>1, <1>2, <1>4, FilesUnchanged DEF Inv

-----------------------------------------------------------------------------
(* A command that starts to write a file. *)
LEMMA BeginInv ==
  ASSUME Inv, NEW p \in Processes, pc[p] # "idle",
         NEW job \in Jobs(p)', Begin(p, job.name, job.content, job.next),
         UNCHANGED <<dir, durable, holder, tmp, losses>>,
         NEW state \in States, mem' = [mem EXCEPT ![p] = state],
         draws' \in 0 .. MaxDraws,
         job.next # "initialize",
         job.next = "saved" =>
           \E file \in dir["state"] : Follows(state, file.content),
         job.next = "written" =>
           /\ state.artifact # 0
           /\ \E file \in dir["state"] : file.content = state,
         job.next = "done" => {} \notin durable["state"]
  PROVE  Inv'
<1>1. /\ mem'[p] = state /\ pc'[p] = "write"
      /\ pc' = [pc EXCEPT ![p] = "write"]
      /\ DOMAIN out' = Processes
      /\ out'[p] = [name |-> job.name, content |-> job.content, next |-> job.next]
  BY DEF Begin, Inv, TypeInv
<1>2. out'[p] = job
  BY <1>1 DEF Jobs
<1>3. TypeInv'
  BY <1>1 DEF Inv, TypeInv, Steps
<1> HIDE DEF Jobs
<1>4. ProcessInv(p)'
  BY <1>1, <1>2 DEF ProcessInv, Writing
<1>5. holder = {p} /\ holder' = {p}
  BY Alone
<1>6. LockInv' /\ \A q \in Processes : pc'[q] # "idle" => ProcessInv(q)'
  BY <1>1, <1>4, <1>5, OneCommand DEF Steps
<1> QED
  BY <1>3, <1>6, FilesUnchanged DEF Inv

LEMMA FinishInitializeInv ==
  ASSUME Inv, NEW p \in Processes, FinishInitialize(p) PROVE Inv'
<1> DEFINE job == [name |-> "config", content |-> EmptyState, next |-> "done"]
<1>1. /\ pc[p] = "initialize"
      /\ Begin(p, "config", EmptyState, "done")
      /\ UNCHANGED <<dir, durable, holder, mem, tmp, draws, losses>>
  BY DEF FinishInitialize, InitialFiles
<1>2. {} \notin durable["state"]
  BY <1>1 DEF Inv, ProcessInv
<1>3. /\ job \in Jobs(p)' /\ job.name = "config" /\ job.content = EmptyState
      /\ job.next = "done"
  BY DEF Jobs
<1>4. /\ mem[p] \in States /\ mem' = [mem EXCEPT ![p] = mem[p]]
      /\ draws' \in 0 .. MaxDraws
  BY <1>1 DEF Inv, TypeInv
<1> HIDE DEF job
<1> QED
  BY <1>1, <1>2, <1>3, <1>4, BeginInv

(* What a working command has in memory is what is saved. *)
LEMMA WorkingOnSaved ==
  ASSUME Inv, NEW p \in Processes, Working(p)
  PROVE  /\ pc[p] # "idle" /\ mem[p] \in States /\ mem[p] = Saved
         /\ \E file \in dir["state"] : file.content = mem[p]
<1>1. \E file \in dir["state"] : file.content = mem[p]
  BY DEF Working, Inv, ProcessInv
<1> QED
  BY <1>1, SavedIsThere DEF Working, Inv, TypeInv

(* A state that is one save on is written. *)
LEMMA SaveStateInv ==
  ASSUME Inv, NEW p \in Processes, Working(p),
         NEW state \in States, Follows(state, mem[p]),
         mem' = [mem EXCEPT ![p] = state],
         Begin(p, "state", state, "saved"),
         UNCHANGED <<dir, durable, holder, tmp, losses>>,
         draws' \in 0 .. MaxDraws
  PROVE  Inv'
<1> DEFINE job == [name |-> "state", content |-> state, next |-> "saved"]
<1>1. mem'[p] = state
  BY DEF Inv, TypeInv
<1>2. /\ job \in Jobs(p)' /\ job.name = "state" /\ job.content = state
      /\ job.next = "saved"
  BY <1>1 DEF Jobs
<1> HIDE DEF job
<1> QED
  BY <1>2, WorkingOnSaved, BeginInv

LEMMA SaveInv ==
  ASSUME Inv, NEW p \in Processes, Save(p) \/ SaveNative(p) PROVE Inv'
<1>1. /\ mem[p] \in States /\ mem[p] = Saved /\ draws \in 0 .. MaxDraws
      /\ Working(p)
  BY WorkingOnSaved DEF Save, SaveNative, Inv, TypeInv
<1>2. ASSUME Save(p) PROVE Inv'
  <2> DEFINE state == Merged(p, [mem[p] EXCEPT !.wallet = @ + 1])
  <2>1. /\ mem[p].wallet < MaxSaves /\ mem' = [mem EXCEPT ![p] = state]
        /\ Begin(p, "state", state, "saved")
        /\ UNCHANGED <<dir, durable, holder, tmp, draws, losses>>
    BY <1>2 DEF Save
  <2>2. /\ state.wallet = mem[p].wallet + 1 /\ state.native = mem[p].native
        /\ state.artifact = mem[p].artifact
        /\ state \in [wallet : {mem[p].wallet + 1}, native : {mem[p].native},
                      artifact : {mem[p].artifact}]
    BY <1>1 DEF Merged, States
  <2>3. state \in States /\ Follows(state, mem[p])
    <3> HIDE DEF state
    <3> QED
      BY <1>1, <2>1, <2>2, StoreBounds DEF States, Follows
  <2> HIDE DEF state
  <2> QED
    BY <1>1, <2>1, <2>3, SaveStateInv
<1>3. ASSUME SaveNative(p) PROVE Inv'
  <2> DEFINE state == [mem[p] EXCEPT !.native = @ + 1]
  <2>1. /\ mem[p].native < MaxSaves /\ mem' = [mem EXCEPT ![p] = state]
        /\ Begin(p, "state", state, "saved")
        /\ UNCHANGED <<dir, durable, holder, tmp, draws, losses>>
    BY <1>3 DEF SaveNative
  <2>2. state \in States /\ Follows(state, mem[p])
    BY <1>1, <2>1, StoreBounds DEF States, Follows
  <2> HIDE DEF state
  <2> QED
    BY <1>1, <2>1, <2>2, SaveStateInv
<1> QED
  BY <1>2, <1>3

LEMMA DrawArtifactInv ==
  ASSUME Inv, NEW p \in Processes, DrawArtifact(p) PROVE Inv'
<1> DEFINE state == Merged(p, [mem[p] EXCEPT !.wallet   = @ + 1,
                                             !.artifact = draws + 1])
<1>1. /\ mem[p] \in States /\ mem[p] = Saved /\ draws \in 0 .. MaxDraws
      /\ Working(p)
  BY WorkingOnSaved DEF DrawArtifact, Inv, TypeInv
<1>2. /\ mem[p].wallet < MaxSaves /\ mem[p].artifact = 0 /\ draws < MaxDraws
      /\ draws' = draws + 1
      /\ mem' = [mem EXCEPT ![p] = state]
      /\ Begin(p, "state", state, "saved")
      /\ UNCHANGED <<dir, durable, holder, tmp, losses>>
  BY DEF DrawArtifact, Drawn
<1>a. /\ state.wallet = mem[p].wallet + 1 /\ state.native = mem[p].native
      /\ state.artifact = draws + 1
      /\ state \in [wallet : {mem[p].wallet + 1}, native : {mem[p].native},
                    artifact : {draws + 1}]
  BY <1>1 DEF Merged, States
<1>3. state \in States /\ Follows(state, mem[p])
  <2> HIDE DEF state
  <2> QED
    BY <1>1, <1>2, <1>a, StoreBounds DEF States, Follows
<1>4. draws' \in 0 .. MaxDraws
  BY <1>1, <1>2, StoreBounds
<1> HIDE DEF state
<1> QED
  BY <1>1, <1>2, <1>3, <1>4, SaveStateInv

LEMMA WriteArtifactInv ==
  ASSUME Inv, NEW p \in Processes, WriteArtifact(p) PROVE Inv'
<1> DEFINE job == [name |-> "artifact", content |-> Artifact(mem[p].artifact),
                   next |-> "written"]
<1>1. /\ Working(p) /\ mem[p].artifact # 0
      /\ Begin(p, "artifact", Artifact(mem[p].artifact), "written")
      /\ UNCHANGED <<dir, durable, holder, mem, tmp, draws, losses>>
  BY DEF WriteArtifact
<1>2. /\ job \in Jobs(p)' /\ job.name = "artifact" /\ job.next = "written"
      /\ job.content = Artifact(mem[p].artifact)
  BY <1>1 DEF Jobs
<1>3. mem' = [mem EXCEPT ![p] = mem[p]] /\ draws' \in 0 .. MaxDraws
  BY <1>1 DEF Inv, TypeInv
<1> HIDE DEF job
<1> QED
  BY <1>1, <1>2, <1>3, WorkingOnSaved, BeginInv

LEMMA WriteTemporaryInv ==
  ASSUME Inv, NEW p \in Processes, WriteTemporary(p) PROVE Inv'
<1>1. /\ pc[p] = "write" /\ pc' = [pc EXCEPT ![p] = "publish"]
      /\ tmp' = [tmp EXCEPT ![p] = SyncedFile(out[p].content)]
      /\ UNCHANGED <<dir, durable, holder, mem, out, draws, losses>>
  BY DEF WriteTemporary
<1>2. TypeInv'
  BY <1>1 DEF Inv, TypeInv, Steps
<1>3. pc'[p] = "publish" /\ tmp'[p] = SyncedFile(out[p].content)
  BY <1>1 DEF Inv, TypeInv
<1>4. ProcessInv(p)'
  BY <1>1, <1>3 DEF Inv, ProcessInv, Writing, Jobs
<1>5. holder = {p} /\ holder' = {p}
  BY <1>1, Alone
<1>6. LockInv' /\ \A q \in Processes : pc'[q] # "idle" => ProcessInv(q)'
  BY <1>1, <1>4, <1>5, OneCommand DEF Steps
<1> QED
  BY <1>1, <1>2, <1>6, FilesUnchanged DEF Inv

-----------------------------------------------------------------------------
(* A file appears under a name. *)
LEMMA PutNameInv ==
  ASSUME Inv, NEW name \in Names, NEW file \in Entry, PutName(name, file),
         \A f \in file : /\ f.content \in Contents(name)
                         /\ name # "artifact" => f.data = "synced"
  PROVE  /\ dir' \in [Names -> Entry]
         /\ durable' \in [Names -> SUBSET Entry]
         /\ dir'[name] = file
         /\ durable'[name] = durable[name] \cup {file}
         /\ \A other \in Names \ {name} :
              dir'[other] = dir[other] /\ durable'[other] = durable[other]
         /\ FilesInv'
<1>1. /\ dir' \in [Names -> Entry]
      /\ durable' \in [Names -> SUBSET Entry]
      /\ dir'[name] = file
      /\ durable'[name] = durable[name] \cup {file}
      /\ \A other \in Names \ {name} :
           dir'[other] = dir[other] /\ durable'[other] = durable[other]
  BY DEF PutName, Inv, TypeInv
<1> QED
  BY <1>1 DEF Inv, FilesInv

(* What a command is about to publish can be under the name it is for. *)
LEMMA JobContent ==
  ASSUME Inv, NEW p \in Processes, Writing(p)
  PROVE  /\ out[p] \in Jobs(p)
         /\ out[p].name \in Names /\ out[p].content \in Contents(out[p].name)
<1>1. out[p] \in Jobs(p) /\ mem[p] \in States
  BY DEF Inv, TypeInv, ProcessInv, Writing
<1>2. out[p].next = "written" => mem[p].artifact \in 1 .. MaxDraws
  BY <1>1, StoreBounds DEF Inv, ProcessInv, Writing, States
<1>3. out[p].next = "written" =>
        Artifact(mem[p].artifact) \in {Artifact(id) : id \in 1 .. MaxDraws + 1}
  BY <1>2, StoreBounds
<1> QED
  BY <1>1, <1>3, ContentsOf DEF Jobs, Names

LEMMA RenameInv == ASSUME Inv, NEW p \in Processes, Rename(p) PROVE Inv'
<1> DEFINE file == SyncedFile(out[p].content)
           name == out[p].name
<1>1. /\ pc[p] = "publish" /\ pc' = [pc EXCEPT ![p] = "sync"]
      /\ name # "artifact" /\ PutName(name, tmp[p])
      /\ tmp' = [tmp EXCEPT ![p] = {}]
      /\ UNCHANGED <<holder, mem, out, draws, losses>>
  BY DEF Rename
<1>2. Writing(p) /\ tmp[p] = file
  BY <1>1 DEF Inv, ProcessInv, Writing
<1>3. /\ out[p] \in Jobs(p) /\ name \in Names
      /\ out[p].content \in Contents(name)
  BY <1>2, JobContent
<1>4. /\ file \in Entry /\ file # {}
      /\ \A f \in file : f.content = out[p].content /\ f.data = "synced"
  BY <1>3, SyncedFileIsEntry
<1>5. /\ dir' \in [Names -> Entry] /\ durable' \in [Names -> SUBSET Entry]
      /\ dir'[name] = file
      /\ durable'[name] = durable[name] \cup {file}
      /\ \A other \in Names \ {name} :
           dir'[other] = dir[other] /\ durable'[other] = durable[other]
      /\ FilesInv'
  <2> HIDE DEF file, name
  <2> QED
    BY <1>1, <1>2, <1>3, <1>4, PutNameInv
<1> HIDE DEF file
<1>6. TypeInv'
  BY <1>1, <1>5 DEF Inv, TypeInv, Steps
<1>7. \/ name = "state" /\ out[p].next = "initialize" /\ out[p].content = EmptyState
      \/ name = "config" /\ out[p].next = "done"
      \/ name = "state" /\ out[p].next = "saved" /\ out[p].content = mem[p]
  BY <1>1, <1>3 DEF Jobs
<1>8. WalletIsWhole'
  <2>1. CASE name = "state"
    <3>1. durable'["config"] = durable["config"]
      BY <1>5, <2>1 DEF Names
    <3> QED
      BY <1>4, <1>5, <2>1, <3>1 DEF Inv, WalletIsWhole
  <2>2. CASE name = "config"
    <3>1. durable'["state"] = durable["state"] /\ {} \notin durable["state"]
      BY <1>1, <1>2, <1>5, <1>7, <2>2 DEF Names, Inv, ProcessInv
    <3>2. \A state \in durable["state"] : \A f \in state : f.data = "synced"
      BY DEF Inv, FilesInv, Names
    <3> QED
      BY <3>1, <3>2 DEF WalletIsWhole
  <2> QED
    BY <1>7, <2>1, <2>2
<1>9. ArtifactIsJournaled'
  <2>1. dir'["artifact"] = dir["artifact"]
    BY <1>1, <1>5 DEF Names
  <2>2. CASE name = "config"
    <3>1. dir'["state"] = dir["state"]
      BY <1>5, <2>2 DEF Names
    <3> QED
      BY <1>1, <2>1, <3>1 DEF Inv, ArtifactIsJournaled
  <2>3. CASE name = "state" /\ out[p].next = "initialize"
    <3>1. dir["state"] = {}
      BY <1>1, <2>3 DEF Inv, ProcessInv
    <3> QED
      BY <1>1, <2>1, <3>1 DEF Inv, ArtifactIsJournaled
  <2>4. CASE name = "state" /\ out[p].next = "saved"
    <3>1. PICK old \in dir["state"] : Follows(mem[p], old.content)
      BY <1>1, <2>4 DEF Inv, ProcessInv
    <3>2. \A f \in dir["state"] : f.content = old.content
      BY SavedIsThere
    <3>3. \A f \in dir["artifact"] : f.content.artifact # 0
      <4>1. \A f \in dir["artifact"] : f.content \in Contents("artifact")
        BY DEF Inv, FilesInv, Names
      <4> QED
        BY <4>1, ContentsOf, StoreBounds
    <3>4. PICK f \in dir'["state"] : f.content = mem[p]
      BY <1>4, <1>5, <1>7, <2>4
    <3>5. ASSUME losses = 0, NEW g \in dir["artifact"], g.content # FOREIGN
          PROVE  f.content.artifact = g.content.artifact
      <4>1. old.content.artifact = g.content.artifact
        BY <3>2, <3>5 DEF Inv, ArtifactIsJournaled
      <4> QED
        BY <3>1, <3>3, <3>4, <4>1 DEF Follows
    <3> QED
      BY <1>1, <2>1, <3>4, <3>5 DEF ArtifactIsJournaled, FOREIGN
  <2> QED
    BY <1>7, <2>2, <2>3, <2>4
<1>10. ProcessInv(p)'
  <2>1. pc'[p] = "sync" /\ \E f \in dir'[name] : f.content = out[p].content
    BY <1>1, <1>4, <1>5 DEF Inv, TypeInv
  <2>2. out[p].next = "done" => {} \notin durable'["state"]
    BY <1>1, <1>2, <1>4, <1>5, <1>7 DEF Inv, ProcessInv, Names
  <2>3. out[p].next # "written" /\ out[p].next # "idle"
    BY <1>7
  <2>4. Jobs(p)' = Jobs(p)
    BY <1>1 DEF Jobs
  <2> QED
    BY <1>1, <1>3, <2>1, <2>2, <2>3, <2>4 DEF ProcessInv, Writing
<1>11. holder = {p} /\ holder' = {p}
  BY <1>1, Alone
<1>12. LockInv' /\ \A q \in Processes : pc'[q] # "idle" => ProcessInv(q)'
  BY <1>1, <1>10, <1>11, OneCommand DEF Steps
<1> QED
  BY <1>5, <1>6, <1>8, <1>9, <1>12 DEF Inv

(* fs::hard_link: the artifact is the one the wallet owes, or was there. *)
LEMMA PublishInv == ASSUME Inv, NEW p \in Processes, Publish(p) PROVE Inv'
<1> DEFINE file == SyncedFile(out[p].content)
<1>1. /\ pc[p] = "publish" /\ pc' = [pc EXCEPT ![p] = "sync"]
      /\ out[p].name = "artifact"
      /\ \/ dir["artifact"] = {} /\ PutName("artifact", tmp[p])
         \/ /\ \E f \in dir["artifact"] : f.content = out[p].content
            /\ UNCHANGED <<dir, durable>>
      /\ tmp' = [tmp EXCEPT ![p] = {}]
      /\ UNCHANGED <<holder, mem, out, draws, losses>>
  BY DEF Publish, Link, AfterLink, Exists
<1>2. Writing(p) /\ tmp[p] = file
  BY <1>1 DEF Inv, ProcessInv, Writing
<1>3. /\ out[p] \in Jobs(p) /\ "artifact" \in Names
      /\ out[p].content \in Contents("artifact")
      /\ out[p].content = Artifact(mem[p].artifact)
      /\ out[p].next = "written"
  BY <1>1, <1>2, JobContent DEF Jobs
<1>4. PICK state \in dir["state"] : state.content = mem[p]
  BY <1>1, <1>2, <1>3 DEF Inv, ProcessInv
<1>5. /\ dir' \in [Names -> Entry] /\ durable' \in [Names -> SUBSET Entry]
      /\ FilesInv'
      /\ \E f \in dir'["artifact"] : f.content = out[p].content
      /\ dir'["state"] = dir["state"] /\ durable'["state"] = durable["state"]
      /\ durable'["config"] = durable["config"]
      /\ ArtifactIsJournaled'
  <2>1. CASE dir["artifact"] = {} /\ PutName("artifact", tmp[p])
    <3>1. /\ file \in Entry /\ file # {}
          /\ \A f \in file : f.content = out[p].content /\ f.data = "synced"
      BY <1>3, SyncedFileIsEntry
    <3> HIDE DEF file
    <3>2. /\ dir' \in [Names -> Entry] /\ durable' \in [Names -> SUBSET Entry]
          /\ dir'["artifact"] = file
          /\ \A other \in Names \ {"artifact"} :
               dir'[other] = dir[other] /\ durable'[other] = durable[other]
          /\ FilesInv'
      BY <1>2, <1>3, <2>1, <3>1, PutNameInv
    <3>3. mem[p].artifact \in Nat
      BY StoreBounds DEF Inv, TypeInv, States
    <3>4. \A f \in file : f.content.artifact = state.content.artifact
      BY <1>3, <1>4, <3>1, <3>3, ContentsOf
    <3> QED
      BY <1>4, <3>1, <3>2, <3>4 DEF Names, ArtifactIsJournaled
  <2>2. CASE /\ \E f \in dir["artifact"] : f.content = out[p].content
             /\ UNCHANGED <<dir, durable>>
    BY <1>1, <2>2 DEF Inv, TypeInv, FilesInv, ArtifactIsJournaled
  <2> QED
    BY <1>1, <2>1, <2>2
<1>6. TypeInv' /\ WalletIsWhole'
  BY <1>1, <1>5 DEF Inv, TypeInv, Steps, WalletIsWhole
<1>7. ProcessInv(p)'
  <2>1. pc'[p] = "sync" /\ mem[p].artifact # 0
    BY <1>1, <1>2, <1>3 DEF Inv, TypeInv, ProcessInv
  <2>2. Jobs(p)' = Jobs(p)
    BY <1>1 DEF Jobs
  <2> QED
    BY <1>1, <1>3, <1>4, <1>5, <2>1, <2>2 DEF ProcessInv, Writing
<1>8. holder = {p} /\ holder' = {p}
  BY <1>1, Alone
<1>9. LockInv' /\ \A q \in Processes : pc'[q] # "idle" => ProcessInv(q)'
  BY <1>1, <1>7, <1>8, OneCommand DEF Steps
<1> QED
  BY <1>5, <1>6, <1>9 DEF Inv

(* The directory is synced: what it holds is what a power loss would leave. *)
LEMMA SyncDirectoryInv ==
  ASSUME Inv, NEW p \in Processes, SyncDirectory(p) PROVE Inv'
<1> DEFINE names == Siblings(out[p].name)
<1>1. /\ pc[p] = "sync" /\ pc' = [pc EXCEPT ![p] = out[p].next]
      /\ durable' = [name \in Names |->
                       IF name \in names THEN {dir[name]} ELSE durable[name]]
      /\ UNCHANGED <<dir, holder, mem, out, tmp, draws, losses>>
  BY DEF SyncDirectory, Synced
<1>2. Writing(p) /\ \E f \in dir[out[p].name] : f.content = out[p].content
  BY <1>1 DEF Inv, ProcessInv, Writing
<1>3. out[p] \in Jobs(p)
  BY <1>2, JobContent
<1>4. /\ out[p].next \in {"initialize", "done", "saved", "written"}
      /\ pc'[p] = out[p].next
  BY <1>1, <1>3 DEF Jobs, Inv, TypeInv
<1>5. \A name \in Names : durable'[name] \subseteq durable[name]
  BY <1>1 DEF Inv, FilesInv
<1>6. TypeInv'
  BY <1>1, <1>4, <1>5 DEF Inv, TypeInv, Steps
<1>7. FilesInv'
  BY <1>1, <1>5 DEF Inv, FilesInv
<1>8. WalletIsWhole' /\ ArtifactIsJournaled'
  BY <1>1, <1>5 DEF Inv, WalletIsWhole, ArtifactIsJournaled, Names
<1>9. ProcessInv(p)'
  <2>1. CASE out[p].next = "initialize"
    BY <1>1, <1>2, <1>3, <1>4, <2>1
       DEF ProcessInv, Writing, Jobs, Siblings, Names
  <2>2. CASE out[p].next = "done"
    BY <1>4, <2>2 DEF ProcessInv, Writing
  <2>3. CASE out[p].next = "saved"
    BY <1>1, <1>2, <1>3, <1>4, <2>3
       DEF ProcessInv, Writing, Jobs, Siblings, Names
  <2>4. CASE out[p].next = "written"
    <3>1. \E f \in dir["state"] : f.content = mem[p]
      BY <1>1, <1>2, <2>4 DEF Inv, ProcessInv
    <3> QED
      BY <1>1, <1>2, <1>3, <1>4, <2>4, <3>1
         DEF ProcessInv, Writing, Jobs, Siblings, Names
  <2> QED
    BY <1>4, <2>1, <2>2, <2>3, <2>4
<1>10. holder = {p} /\ holder' = {p}
  BY <1>1, Alone
<1>11. LockInv' /\ \A q \in Processes : pc'[q] # "idle" => ProcessInv(q)'
  <2> DEFINE step == out[p].next
  <2>1. step \in Steps /\ step # "idle" /\ pc' = [pc EXCEPT ![p] = step]
    BY <1>1, <1>4 DEF Steps
  <2> HIDE DEF step
  <2> QED
    BY <1>9, <1>10, <2>1, OneCommand
<1> QED
  BY <1>6, <1>7, <1>8, <1>11 DEF Inv

-----------------------------------------------------------------------------
(* The world around the wallet. *)
LEMMA WriteForeignInv == ASSUME Inv, WriteForeign PROVE Inv'
<1> DEFINE file == CachedFile(FOREIGN)
<1>1. /\ dir["artifact"] = {} /\ PutName("artifact", file)
      /\ UNCHANGED <<holder, pc, mem, out, tmp, draws, losses>>
  BY DEF WriteForeign, Exists
<1>2. "artifact" \in Names /\ FOREIGN \in Contents("artifact")
  BY ContentsOf, StoreBounds DEF Names, FOREIGN
<1>3. FOREIGN \in [wallet : 0 .. MaxSaves, native : 0 .. MaxSaves,
                   artifact : 0 .. MaxDraws + 1]
  BY StoreBounds DEF FOREIGN, Artifact, EmptyState
<1>4. file \in Entry /\ \A f \in file : f.content = FOREIGN
  BY <1>3 DEF CachedFile, Entry, File
<1> HIDE DEF file
<1>5. /\ dir' \in [Names -> Entry] /\ durable' \in [Names -> SUBSET Entry]
      /\ dir'["artifact"] = file
      /\ \A other \in Names \ {"artifact"} :
           dir'[other] = dir[other] /\ durable'[other] = durable[other]
      /\ FilesInv'
  BY <1>1, <1>2, <1>4, PutNameInv
<1>6. /\ dir'["state"] = dir["state"] /\ durable'["state"] = durable["state"]
      /\ dir'["config"] = dir["config"] /\ durable'["config"] = durable["config"]
  BY <1>5 DEF Names
<1>7. TypeInv' /\ LockInv' /\ WalletIsWhole'
  BY <1>1, <1>5, <1>6 DEF Inv, TypeInv, LockInv, WalletIsWhole
<1>8. ArtifactIsJournaled'
  BY <1>4, <1>5 DEF ArtifactIsJournaled, FOREIGN
<1>9. ASSUME NEW p \in Processes, pc'[p] # "idle" PROVE ProcessInv(p)'
  <2>1. ProcessInv(p) /\ (Writing(p) => out[p] \in Jobs(p))
    BY <1>1, <1>9 DEF Inv, ProcessInv
  <2>2. Jobs(p)' = Jobs(p) /\ Writing(p)' = Writing(p)
    BY <1>1 DEF Jobs, Writing
  <2>3. ~ (pc[p] = "sync" /\ out[p].name = "artifact")
    BY <1>1, <2>1 DEF ProcessInv
  <2>4. pc[p] # "written"
    BY <1>1, <1>2, <2>1 DEF ProcessInv, Inv, FilesInv
  <2>5. pc[p] = "sync" => out[p].name \in {"state", "config"}
    BY <2>1, <2>3 DEF Jobs, Writing
  <2> QED
    BY <1>1, <1>6, <2>1, <2>2, <2>4, <2>5 DEF ProcessInv
<1> QED
  BY <1>5, <1>7, <1>8, <1>9 DEF Inv

(* A synced file survives a power loss as it is, and no file changes its   *)
(* content.                                                                *)
LEMMA AfterLossOf ==
  ASSUME NEW entry \in Entry
  PROVE  /\ AfterLoss(entry) \in Entry
         /\ (\A f \in entry : f.data = "synced") => AfterLoss(entry) = entry
         /\ \A g \in AfterLoss(entry) : \E f \in entry : g.content = f.content
<1>1. CASE entry = {}
  BY <1>1 DEF AfterLoss, Entry
<1>2. CASE entry # {}
  <2>1. PICK f \in File : entry = {f}
    BY <1>2 DEF Entry
  <2> DEFINE g == [f EXCEPT !.data = IF @ = "synced" THEN @ ELSE "torn"]
  <2>2. AfterLoss(entry) = {g}
    BY <2>1 DEF AfterLoss
  <2>3. g \in File /\ g.content = f.content /\ (f.data = "synced" => g = f)
    BY DEF File
  <2> HIDE DEF g
  <2> QED
    BY <2>1, <2>2, <2>3 DEF Entry
<1> QED
  BY <1>1, <1>2

LEMMA PowerLossInv == ASSUME Inv, PowerLoss PROVE Inv'
<1>1. PICK state \in durable["state"], config \in durable["config"],
           artifact \in durable["artifact"] :
        dir' = [state    |-> AfterLoss(state),
                config   |-> AfterLoss(config),
                artifact |-> AfterLoss(artifact)]
  BY DEF PowerLoss
<1>2. /\ losses < MaxLosses /\ losses' = losses + 1
      /\ durable' = [name \in Names |-> {dir'[name]}]
      /\ holder' = {}
      /\ pc' = [p \in Processes |-> "idle"]
      /\ mem' = [p \in Processes |-> EmptyState]
      /\ DOMAIN out' = Processes /\ DOMAIN tmp' = Processes
      /\ draws' = draws
  BY DEF PowerLoss
<1>3. state \in Entry /\ config \in Entry /\ artifact \in Entry
  BY DEF Inv, TypeInv, Names
<1>4. /\ \A f \in state : f.data = "synced" /\ f.content \in Contents("state")
      /\ \A f \in config : f.data = "synced" /\ f.content \in Contents("config")
      /\ \A f \in artifact : f.content \in Contents("artifact")
  BY DEF Inv, FilesInv, Names
<1>5. /\ dir'["state"] = state /\ dir'["config"] = config
      /\ dir'["artifact"] = AfterLoss(artifact)
      /\ AfterLoss(artifact) \in Entry
      /\ \A f \in AfterLoss(artifact) : f.content \in Contents("artifact")
  BY <1>1, <1>3, <1>4, AfterLossOf
<1>6. dir' = [name \in Names |-> dir'[name]]
  BY <1>1 DEF Names
<1>7. \A name \in Names : dir'[name] \in Entry /\ durable'[name] = {dir'[name]}
  BY <1>2, <1>3, <1>5 DEF Names
<1>8. TypeInv'
  <2>1. dir' \in [Names -> Entry]
    BY <1>6, <1>7
  <2>2. losses' \in 0 .. MaxLosses
    BY <1>2, StoreBounds DEF Inv, TypeInv
  <2> QED
    BY <1>2, <1>7, <2>1, <2>2, ContentsOf DEF Inv, TypeInv, Steps
<1>9. FilesInv'
  <2> SUFFICES ASSUME NEW name \in Names
               PROVE  \A f \in dir'[name] : /\ f.content \in Contents(name)
                                            /\ name # "artifact" => f.data = "synced"
    BY <1>7 DEF FilesInv
  <2> QED
    BY <1>4, <1>5 DEF Names
<1>10. WalletIsWhole'
  BY <1>1, <1>5, <1>7 DEF Inv, WalletIsWhole, Names
<1>11. ArtifactIsJournaled' /\ LockInv'
  <2>1. losses' # 0
    BY <1>2 DEF Inv, TypeInv
  <2> QED
    BY <1>2, <2>1 DEF ArtifactIsJournaled, LockInv
<1> QED
  BY <1>2, <1>8, <1>9, <1>10, <1>11 DEF Inv

LEMMA NextInv == ASSUME Inv, [Next]_vars PROVE Inv'
<1>1. CASE \E p \in Processes : Command(p)
  BY <1>1, InitializeInv, FinishInitializeInv, OpenInv, EndInv, SaveInv,
     DrawArtifactInv, WriteArtifactInv, WriteTemporaryInv, RenameInv,
     PublishInv, SyncDirectoryInv
     DEF Command
<1>2. CASE UNCHANGED vars
  <2>1. UNCHANGED <<dir, durable, holder, pc, mem, out, tmp, draws, losses>>
    BY <1>2 DEF vars
  <2>2. \A p \in Processes : ProcessInv(p)' = ProcessInv(p)
    BY <2>1 DEF ProcessInv, Writing, Jobs
  <2> QED
    BY <2>1, <2>2, FilesUnchanged DEF Inv, TypeInv, LockInv
<1> QED
  BY <1>1, <1>2, WriteForeignInv, PowerLossInv DEF Next

-----------------------------------------------------------------------------
(* Inv is an invariant of Store. *)
THEOREM Invariance == Spec => []Inv
<1>1. Inv /\ [Next]_vars => Inv'
  BY NextInv
<1> QED
  BY InitInv, <1>1, PTL DEF Spec

(* One command at a time holds the lock, and every name holds, now and     *)
(* after a power loss, a file of its kind.                                 *)
THEOREM TypeCorrect == Spec => []TypeOK
<1>1. ASSUME Inv PROVE TypeOK
  <2>1. \A name \in Names : \A file \in UNION durable[name] :
          /\ file.content \in Contents(name)
          /\ file.data \in {"synced", "cached", "torn"}
          /\ name = "artifact" \/ file.data = "synced"
    <3> SUFFICES ASSUME NEW name \in Names, NEW entry \in durable[name],
                        NEW file \in entry
                 PROVE  /\ file.content \in Contents(name)
                        /\ file.data \in {"synced", "cached", "torn"}
                        /\ name = "artifact" \/ file.data = "synced"
      OBVIOUS
    <3>1. entry \in Entry
      BY <1>1 DEF Inv, TypeInv
    <3>2. file \in File
      BY <3>1 DEF Entry
    <3> QED
      BY <1>1, <3>2 DEF Inv, FilesInv, File
  <2>2. Cardinality(holder) <= 1
    <3>1. CASE holder = {}
      BY <3>1, FS_EmptySet
    <3>2. CASE holder # {}
      <4>1. PICK p : holder = {p}
        BY <1>1, <3>2 DEF Inv, LockInv
      <4> QED
        BY <4>1, FS_Singleton
    <3> QED
      BY <3>1, <3>2
  <2> QED
    BY <1>1, <2>1, <2>2 DEF Inv, TypeInv, FilesInv, LockInv, TypeOK
<1> QED
  BY Invariance, <1>1, PTL

(* A wallet that has its configuration has its state, whole: `init` writes *)
(* the state first, and a file replaces another only once it is synced.    *)
THEOREM WalletStaysWhole == Spec => []WalletIsWhole
<1>1. Inv => WalletIsWhole
  BY DEF Inv
<1> QED
  BY Invariance, <1>1, PTL

(* A command that goes on after a save can rely on it: no power loss takes *)
(* it back.                                                                *)
THEOREM SavesAreDurable == Spec => []OwnSavesAreDurable
<1>1. Inv => OwnSavesAreDurable
  BY DEF Inv, ProcessInv, OwnSavesAreDurable
<1> QED
  BY Invariance, <1>1, PTL

(* While the machine is up, an artifact of this wallet that can be read is *)
(* the one in its journal (PROTOCOL.md).                                   *)
THEOREM ArtifactStaysJournaled == Spec => []ArtifactIsJournaled
<1>1. Inv => ArtifactIsJournaled
  BY DEF Inv
<1> QED
  BY Invariance, <1>1, PTL

(* What one step may do to wallet.enc while the machine is up. *)
LEMMA StepKeepsSaves ==
  ASSUME Inv, [Next]_vars, losses' = losses, NEW old \in dir["state"]
  PROVE  \E new \in dir'["state"] : Follows(new.content, old.content)
<1>1. old.content \in States /\ Follows(old.content, old.content)
  <2>1. old.content \in States
    BY SavedIsThere
  <2> QED
    BY <2>1, StoreBounds DEF States, Follows
<1>2. CASE dir'["state"] = dir["state"]
  BY <1>1, <1>2
<1>3. CASE \E p \in Processes : Rename(p)
  <2>1. PICK p \in Processes : Rename(p)
    BY <1>3
  <2>2. /\ pc[p] = "publish" /\ Writing(p) /\ tmp[p] = SyncedFile(out[p].content)
        /\ PutName(out[p].name, tmp[p]) /\ out[p].name # "artifact"
    BY <2>1 DEF Rename, Inv, ProcessInv, Writing
  <2>3. out[p] \in Jobs(p) /\ out[p].content \in Contents(out[p].name)
    BY <2>2, JobContent
  <2>4. CASE out[p].name = "config"
    BY <1>2, <2>2, <2>4 DEF PutName, Inv, TypeInv, Names
  <2>5. CASE out[p].name = "state" /\ out[p].next = "initialize"
    BY <2>2, <2>5 DEF Inv, ProcessInv
  <2>6. CASE out[p].name = "state" /\ out[p].next = "saved"
    <3>1. PICK file \in dir["state"] : Follows(mem[p], file.content)
      BY <2>2, <2>6 DEF Inv, ProcessInv
    <3>2. file.content = old.content
      BY SavedIsThere
    <3>3. dir'["state"] = SyncedFile(out[p].content) /\ out[p].content = mem[p]
      BY <2>2, <2>3, <2>6 DEF PutName, Inv, TypeInv, Names, Jobs
    <3> QED
      BY <3>1, <3>2, <3>3 DEF SyncedFile
  <2> QED
    BY <2>2, <2>3, <2>4, <2>5, <2>6 DEF Jobs
<1>4. CASE \E p \in Processes : Publish(p)
  BY <1>2, <1>4 DEF Publish, Link, PutName, Inv, TypeInv, Names
<1>5. CASE WriteForeign
  BY <1>2, <1>5 DEF WriteForeign, PutName, Inv, TypeInv, Names
<1>6. CASE PowerLoss
  BY <1>6 DEF PowerLoss, Inv, TypeInv
<1> QED
  BY <1>2, <1>3, <1>4, <1>5, <1>6
     DEF Next, Command, vars, Initialize, FinishInitialize, Open, Close, Stop,
         Save, SaveNative, DrawArtifact, WriteArtifact, WriteTemporary,
         SyncDirectory

(* While the machine is up every save of wallet.enc is one step on from    *)
(* what the file held: WalletStore::save and save_native overwrite no save *)
(* of another command.                                                     *)
THEOREM SavesFollow == Spec => NoSaveIsLost
<1>1. ASSUME Inv, [Next]_vars
      PROVE  [\A old \in dir["state"] : losses' = losses =>
                \E new \in dir'["state"] :
                  /\ new.content.wallet - old.content.wallet \in 0 .. 1
                  /\ new.content.native - old.content.native \in 0 .. 1
                  /\ old.content.artifact # 0 =>
                       new.content.artifact = old.content.artifact]_dir
  BY <1>1, StepKeepsSaves DEF Follows
<1> QED
  BY Invariance, <1>1, PTL DEF Spec, NoSaveIsLost

(* A step replaces no output file. *)
LEMMA StepKeepsArtifact ==
  ASSUME Inv, [Next]_vars, losses' = losses
  PROVE  dir["artifact"] = {} \/ dir'["artifact"] = dir["artifact"]
<1>1. CASE \E p \in Processes : Rename(p)
  <2>1. PICK p \in Processes : Rename(p)
    BY <1>1
  <2>2. /\ pc[p] = "publish" /\ PutName(out[p].name, tmp[p])
        /\ out[p].name # "artifact"
    BY <2>1 DEF Rename
  <2> QED
    BY <2>2 DEF PutName, Inv, TypeInv, Names
<1>2. CASE \E p \in Processes : Publish(p)
  BY <1>2 DEF Publish, Link, Exists
<1>3. CASE WriteForeign
  BY <1>3 DEF WriteForeign, Exists
<1>4. CASE PowerLoss
  BY <1>4 DEF PowerLoss, Inv, TypeInv
<1> QED
  BY <1>1, <1>2, <1>3, <1>4
     DEF Next, Command, vars, Initialize, FinishInitialize, Open, Close, Stop,
         Save, SaveNative, DrawArtifact, WriteArtifact, WriteTemporary,
         SyncDirectory

(* An output file is never replaced, and the command that reported one     *)
(* written has seen it synced with the content its wallet owes.            *)
THEOREM ReportedArtifactsStay == Spec => ReportedArtifactStays
<1>1. ASSUME Inv, [Next]_vars
      PROVE  [losses' = losses =>
                dir["artifact"] = {} \/ dir'["artifact"] = dir["artifact"]]_dir
  BY <1>1, StepKeepsArtifact
<1>2. ASSUME Inv, [Next]_vars
      PROVE  [\A p \in Processes : pc'[p] = "written" =>
                \A artifact \in durable'["artifact"] :
                  \E file \in artifact :
                    file.content = Artifact(mem'[p].artifact)]_vars
  <2>1. Inv'
    BY <1>2, NextInv
  <2> QED
    BY <2>1 DEF Inv, ProcessInv
<1> QED
  BY Invariance, <1>1, <1>2, PTL DEF Spec, ReportedArtifactStays

=============================================================================
