--------------------------- MODULE SnapshotStore ---------------------------
(***************************************************************************)
(* The server's durable state (storage/json-snapshot-store.ts and persist  *)
(* and restore of routes/bridge-api.ts): every request that changes state  *)
(* writes the whole state to a temporary file, keeps the old snapshot as a *)
(* backup, and renames the new one into place, all synchronously.          *)
(*                                                                         *)
(* Each file system call is a step, so that the process can be killed, the *)
(* power can fail, or the call can fail after any of them.  Files are seen *)
(* twice: as the running system sees them, and as the SET of contents a    *)
(* power failure may leave, which an fsync of the directory makes a single *)
(* one again.  A state is the number of the request that made it.          *)
(***************************************************************************)
EXTENDS Integers

CONSTANTS
    MaxWrites,      \* bound: requests that change state
    MaxDamages      \* bound: files damaged from outside

ASSUME SnapshotAssumption == MaxWrites \in Nat /\ MaxDamages \in Nat

\* File contents that are not a snapshot.  Missing is also the empty state.
Missing == 0
Garbage == -1

States == 0..MaxWrites
Contents == {Garbage, Missing} \cup States

VARIABLES
    primary,    \* bridge-snapshot.json
    backup,     \* bridge-snapshot.json.bak
    primaryMay, \* what a power failure may leave of them
    backupMay,
    temp,       \* the new snapshot's temporary file
    backupTemp, \* the backup's temporary file
    pc,         \* where write() stands; "down": the process is not running
    mem,        \* the runtime state
    fault,      \* persistenceFailure: 503 until the process is restarted
    writes,     \* requests that changed state so far
    acked,      \* the state of the last request answered with success
    previous,   \* the one answered before
    damages     \* files damaged so far

files == <<primary, backup, primaryMay, backupMay, temp, backupTemp>>
answers == <<writes, acked, previous, damages>>
vars == <<files, pc, mem, fault, answers>>

TempFile == [content : Contents, synced : BOOLEAN]

WriteSteps == {"writeTemp", "syncTemp", "copyBackup", "syncBackup", "renameBackup",
               "syncDirBackup", "renamePrimary", "syncDirPrimary"}

TypeOK ==
    /\ primary \in Contents /\ backup \in Contents
    /\ primaryMay \in SUBSET Contents /\ primary \in primaryMay
    /\ backupMay \in SUBSET Contents /\ backup \in backupMay
    /\ temp \in TempFile /\ backupTemp \in TempFile
    /\ pc \in WriteSteps \cup {"idle", "down"}
    /\ mem \in States
    /\ fault \in BOOLEAN
    /\ writes \in States /\ acked \in States /\ previous \in States
    /\ damages \in 0..MaxDamages

NoFile == [content |-> Missing, synced |-> TRUE]

Init ==
    /\ primary = Missing /\ primaryMay = {Missing}
    /\ backup = Missing /\ backupMay = {Missing}
    /\ temp = NoFile /\ backupTemp = NoFile
    /\ pc = "idle"
    /\ mem = Missing
    /\ fault = FALSE
    /\ writes = 0 /\ acked = 0 /\ previous = 0 /\ damages = 0

-----------------------------------------------------------------------------
(* Reading.                                                                *)

Readable(content) == content > Missing

\* Faulty variant: an unreadable primary without a backup is a missing one.
read_tolerant(p, b) ==
    CASE Readable(p) -> p
      [] ~Readable(p) /\ Readable(b) -> b
      [] OTHER -> Missing

\* read() and the restore that follows it: only two missing files are an
\* empty start, every other pair without a readable snapshot throws.
read(p, b) ==
    CASE Readable(p) -> p
      [] ~Readable(p) /\ Readable(b) -> b
      [] p = Missing /\ b = Missing -> Missing
      [] OTHER -> Garbage

\* What starts can come up with if the power fails now.
Recoverable == {read(p, b) : p \in primaryMay, b \in backupMay}

-----------------------------------------------------------------------------
(* One request that changes state, up to its answer.                       *)

Request ==
    /\ pc = "idle" /\ ~fault
    /\ writes < MaxWrites
    /\ writes' = writes + 1
    /\ mem' = writes + 1
    /\ pc' = "writeTemp"
    /\ UNCHANGED <<files, fault, acked, previous, damages>>

\* A handler that was past the 503 gate, awaiting its body, when the fault
\* occurred: it changes memory, and persist() throws.
RequestDuringFault ==
    /\ pc = "idle" /\ fault
    /\ writes < MaxWrites
    /\ writes' = writes + 1
    /\ mem' = writes + 1
    /\ UNCHANGED <<files, pc, fault, acked, previous, damages>>

\* The fs calls of write() that touch only the temporary files.
WriteTemp ==
    /\ pc = "writeTemp"
    /\ temp' = [content |-> mem, synced |-> FALSE]
    /\ pc' = "syncTemp"
    /\ UNCHANGED <<primary, backup, primaryMay, backupMay, backupTemp, mem, fault, answers>>

SyncTemp ==
    /\ pc = "syncTemp"
    /\ temp' = [temp EXCEPT !.synced = TRUE]
    /\ pc' = IF primary = Missing THEN "renamePrimary" ELSE "copyBackup"
    /\ UNCHANGED <<primary, backup, primaryMay, backupMay, backupTemp, mem, fault, answers>>

CopyBackup ==
    /\ pc = "copyBackup"
    /\ backupTemp' = [content |-> primary, synced |-> FALSE]
    /\ pc' = "syncBackup"
    /\ UNCHANGED <<primary, backup, primaryMay, backupMay, temp, mem, fault, answers>>

\* Faulty variant: the copy is renamed without being flushed.
SyncBackup_skipped ==
    /\ pc = "syncBackup"
    /\ pc' = "renameBackup"
    /\ UNCHANGED <<files, mem, fault, answers>>

SyncBackup ==
    /\ pc = "syncBackup"
    /\ backupTemp' = [backupTemp EXCEPT !.synced = TRUE]
    /\ pc' = "renameBackup"
    /\ UNCHANGED <<primary, backup, primaryMay, backupMay, temp, mem, fault, answers>>

\* What a rename of that file may leave in place of the old one.
Renamed(file) == {file.content} \cup (IF file.synced THEN {} ELSE {Garbage})

RenameBackup ==
    /\ pc = "renameBackup"
    /\ backup' = backupTemp.content
    /\ backupMay' = backupMay \cup Renamed(backupTemp)
    /\ backupTemp' = NoFile
    /\ pc' = "syncDirBackup"
    /\ UNCHANGED <<primary, primaryMay, temp, mem, fault, answers>>

SyncDirBackup ==
    /\ pc = "syncDirBackup"
    /\ primaryMay' = {primary} /\ backupMay' = {backup}
    /\ pc' = "renamePrimary"
    /\ UNCHANGED <<primary, backup, temp, backupTemp, mem, fault, answers>>

\* Faulty variant: success is answered once the rename is done.
RenamePrimary_answers ==
    /\ pc = "renamePrimary"
    /\ primary' = temp.content
    /\ primaryMay' = primaryMay \cup Renamed(temp)
    /\ temp' = NoFile
    /\ pc' = "idle"
    /\ acked' = mem /\ previous' = acked
    /\ UNCHANGED <<backup, backupMay, backupTemp, mem, fault, writes, damages>>

RenamePrimary ==
    /\ pc = "renamePrimary"
    /\ primary' = temp.content
    /\ primaryMay' = primaryMay \cup Renamed(temp)
    /\ temp' = NoFile
    /\ pc' = "syncDirPrimary"
    /\ UNCHANGED <<backup, backupMay, backupTemp, mem, fault, answers>>

\* The request is answered.
SyncDirPrimary ==
    /\ pc = "syncDirPrimary"
    /\ primaryMay' = {primary} /\ backupMay' = {backup}
    /\ pc' = "idle"
    /\ acked' = mem /\ previous' = acked
    /\ UNCHANGED <<primary, backup, temp, backupTemp, mem, fault, writes, damages>>

\* A file system call throws: cleanup, and the request is answered with 500.
WriteFails ==
    /\ pc \in WriteSteps
    /\ temp' = NoFile /\ backupTemp' = NoFile
    /\ fault' = TRUE
    /\ pc' = "idle"
    /\ UNCHANGED <<primary, backup, primaryMay, backupMay, mem, answers>>

-----------------------------------------------------------------------------
(* The environment.                                                        *)

\* The process stops; the operating system keeps what it was told.
Crash ==
    /\ pc # "down"
    /\ pc' = "down"
    /\ UNCHANGED <<files, mem, fault, answers>>

PowerFailure ==
    /\ primary' \in primaryMay /\ primaryMay' = {primary'}
    /\ backup' \in backupMay /\ backupMay' = {backup'}
    /\ temp' = NoFile /\ backupTemp' = NoFile
    /\ pc' = "down"
    /\ UNCHANGED <<mem, fault, answers>>

\* Faulty variant: the runtime starts from whatever it has read.
Start_unchecked ==
    /\ pc = "down"
    /\ mem' = read(primary, backup)
    /\ fault' = FALSE
    /\ pc' = "idle"
    /\ UNCHANGED <<files, answers>>

\* createBridgeRuntime, unless read() makes it throw.
Start ==
    /\ pc = "down"
    /\ read(primary, backup) # Garbage
    /\ mem' = read(primary, backup)
    /\ fault' = FALSE
    /\ pc' = "idle"
    /\ UNCHANGED <<files, answers>>

\* A snapshot file is damaged: its content is no snapshot any more.
Damage ==
    /\ damages < MaxDamages
    /\ damages' = damages + 1
    /\ \/ /\ primary # Missing
          /\ primary' = Garbage /\ primaryMay' = {Garbage}
          /\ UNCHANGED <<backup, backupMay>>
       \/ /\ backup # Missing
          /\ backup' = Garbage /\ backupMay' = {Garbage}
          /\ UNCHANGED <<primary, primaryMay>>
    /\ UNCHANGED <<temp, backupTemp, pc, mem, fault, writes, acked, previous>>

-----------------------------------------------------------------------------

Write ==
    \/ WriteTemp \/ SyncTemp \/ CopyBackup \/ SyncBackup \/ RenameBackup
    \/ SyncDirBackup \/ RenamePrimary \/ SyncDirPrimary \/ WriteFails

Next ==
    \/ Request \/ RequestDuringFault \/ Write
    \/ Crash \/ PowerFailure \/ Start \/ Damage

Spec == Init /\ [][Next]_vars

-----------------------------------------------------------------------------
(* Safety.                                                                 *)

\* A request that was answered with success is not lost: whatever the power
\* failure leaves, and between whichever two calls of write() it comes, the
\* next start has that request's state or the state of a later request.
AckedSurvives == damages = 0 => \A s \in Recoverable : s >= acked

\* The backup alone is worth a snapshot: were the primary unreadable now, the
\* next start would lose at most the last answered request.
BackupHoldsPrevious == damages = 0 => \A b \in backupMay : b >= previous

\* The store implements the cell DurableState: one request lost or kept as a
\* whole, no answered one lost, and no empty start after damage (the hardening
\* plan's `never silently starts empty').
Durable == INSTANCE DurableState WITH
             Empty <- Missing, Refused <- Garbage,
             may <- Recoverable, damaged <- damages > 0

ImplementsDurableState == Durable!Spec
=============================================================================
