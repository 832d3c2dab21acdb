----------------------- MODULE SnapshotStore_proofs -----------------------
(***************************************************************************)
(* Proofs about SnapshotStore, for any number of writes and damages.       *)
(***************************************************************************)
EXTENDS SnapshotStore, TLAPS

-----------------------------------------------------------------------------
(* Type correctness.                                                       *)

\* The sets of numbers the arithmetic below needs to know about.
LEMMA ContentsFacts ==
    /\ Contents \subseteq Int
    /\ States \subseteq Contents
    /\ Missing \in Contents /\ Garbage \in Contents /\ Missing \in States
    /\ \A s \in States : s < MaxWrites => s + 1 \in States
  BY SnapshotAssumption DEF Contents, States, Missing, Garbage

\* A rename may leave the renamed content, or garbage.
LEMMA RenamedFacts ==
    ASSUME NEW file \in TempFile
    PROVE  /\ Renamed(file) \subseteq Contents
           /\ file.content \in Renamed(file)
           /\ file.synced => Renamed(file) = {file.content}
  BY ContentsFacts DEF Renamed, TempFile

\* read yields one of the two contents, the empty state or a refusal.
LEMMA ReadFacts ==
    ASSUME NEW p \in Contents, NEW b \in Contents
    PROVE  /\ read(p, b) \in Contents
           /\ read(p, b) # Garbage => read(p, b) \in States
           /\ p > Missing => read(p, b) = p
           /\ p = Missing /\ b >= Missing => read(p, b) = b
           /\ p # Missing => read(p, b) # Missing
  BY SnapshotAssumption
     DEF read, Readable, Contents, States, Missing, Garbage

LEMMA InitTypeOK == Init => TypeOK
  <1> SUFFICES ASSUME Init PROVE TypeOK
    OBVIOUS
  <1>1. NoFile \in TempFile
    BY ContentsFacts DEF NoFile, TempFile
  <1>2. damages \in 0..MaxDamages
    BY SnapshotAssumption DEF Init
  <1>3. 0 \in States
    BY SnapshotAssumption DEF States
  <1> QED
    BY <1>1, <1>2, <1>3, ContentsFacts DEF Init, TypeOK

LEMMA NextTypeOK == TypeOK /\ [Next]_vars => TypeOK'
  <1> SUFFICES ASSUME TypeOK, [Next]_vars PROVE TypeOK'
    OBVIOUS
  <1> USE ContentsFacts, SnapshotAssumption
  <1>1. CASE Request
    BY <1>1 DEF Request, TypeOK, files, WriteSteps, States
  <1>2. CASE RequestDuringFault
    BY <1>2 DEF RequestDuringFault, TypeOK, files, States
  <1>3. CASE WriteTemp
    BY <1>3 DEF WriteTemp, TypeOK, answers, TempFile, WriteSteps
  <1>4. CASE SyncTemp
    BY <1>4 DEF SyncTemp, TypeOK, answers, TempFile, WriteSteps
  <1>5. CASE CopyBackup
    BY <1>5 DEF CopyBackup, TypeOK, answers, TempFile, WriteSteps
  <1>6. CASE SyncBackup
    BY <1>6 DEF SyncBackup, TypeOK, answers, TempFile, WriteSteps
  <1>7. CASE RenameBackup
    BY <1>7, RenamedFacts
       DEF RenameBackup, TypeOK, answers, TempFile, NoFile, WriteSteps
  <1>8. CASE SyncDirBackup
    BY <1>8 DEF SyncDirBackup, TypeOK, answers, WriteSteps
  <1>9. CASE RenamePrimary
    BY <1>9, RenamedFacts
       DEF RenamePrimary, TypeOK, answers, TempFile, NoFile, WriteSteps
  <1>10. CASE SyncDirPrimary
    BY <1>10 DEF SyncDirPrimary, TypeOK, answers, WriteSteps
  <1>11. CASE WriteFails
    BY <1>11 DEF WriteFails, TypeOK, answers, TempFile, NoFile, WriteSteps
  <1>12. CASE Crash
    BY <1>12 DEF Crash, TypeOK, answers, files
  <1>13. CASE PowerFailure
    BY <1>13 DEF PowerFailure, TypeOK, answers, TempFile, NoFile
  <1>14. CASE Start
    BY <1>14, ReadFacts DEF Start, TypeOK, answers, files
  <1>15. CASE Damage
    <2>1. damages' \in 0..MaxDamages
      BY <1>15 DEF Damage, TypeOK
    <2>2. /\ primary' \in Contents /\ primaryMay' \in SUBSET Contents
          /\ primary' \in primaryMay'
      BY <1>15 DEF Damage, TypeOK
    <2>3. /\ backup' \in Contents /\ backupMay' \in SUBSET Contents
          /\ backup' \in backupMay'
      BY <1>15 DEF Damage, TypeOK
    <2> QED
      BY <1>15, <2>1, <2>2, <2>3 DEF Damage, TypeOK
  <1>16. CASE UNCHANGED vars
    BY <1>16 DEF vars, files, answers, TypeOK
  <1> QED
    BY <1>1, <1>2, <1>3, <1>4, <1>5, <1>6, <1>7, <1>8, <1>9, <1>10, <1>11,
       <1>12, <1>13, <1>14, <1>15, <1>16
    DEF Next, Write

\* Type correctness of every behaviour of the store.
THEOREM TypeCorrect == Spec => []TypeOK
  BY InitTypeOK, NextTypeOK, PTL DEF Spec

-----------------------------------------------------------------------------
(* No answered request is lost.                                            *)
(*                                                                         *)
(* AckedSurvives speaks of the files only; what keeps it true is what each *)
(* step of write() has prepared for the next: the temporary file holds the *)
(* new state and is flushed before it is renamed, the backup holds a state *)
(* not older than the acknowledged one before the primary is touched.      *)

\* From the first step of a write on, the new state is in memory.
Numbered ==
    /\ previous <= acked
    /\ acked <= writes
    /\ pc \in WriteSteps => mem = writes /\ mem > Missing

TempSteps == {"syncTemp", "copyBackup", "syncBackup", "renameBackup",
              "syncDirBackup", "renamePrimary"}

BackupSteps == {"copyBackup", "syncBackup", "renameBackup", "syncDirBackup"}

TempReady ==
    /\ pc \in TempSteps => temp.content = mem
    /\ pc \in TempSteps \ {"syncTemp"} => temp.synced

BackupTempReady ==
    /\ pc = "renameBackup" => backupTemp.synced
    /\ damages = 0 /\ pc \in {"syncBackup", "renameBackup"} =>
         backupTemp.content = primary

PrimaryKept ==
    /\ damages = 0 => \A p \in primaryMay : p >= acked
    /\ acked > Missing => Missing \notin primaryMay
    /\ pc \in BackupSteps \cup {"syncDirPrimary"} => primary # Missing
    /\ damages = 0 /\ pc = "syncDirPrimary" => primary = mem

BackupKept ==
    /\ damages = 0 => \A b \in backupMay : b >= previous
    /\ damages = 0 /\ pc = "syncDirBackup" => backup >= acked
    /\ damages = 0 /\ pc \in {"renamePrimary", "syncDirPrimary"} =>
         \A b \in backupMay : b >= acked

Kept ==
    /\ TypeOK
    /\ Numbered
    /\ TempReady
    /\ BackupTempReady
    /\ PrimaryKept
    /\ BackupKept

LEMMA InitKept == Init => Kept
  <1> SUFFICES ASSUME Init PROVE Kept
    OBVIOUS
  <1>1. TypeOK
    BY InitTypeOK
  <1>2. Numbered /\ TempReady /\ BackupTempReady
    BY DEF Init, Numbered, TempReady, BackupTempReady, TempSteps, WriteSteps
  <1>3. PrimaryKept /\ BackupKept
    BY DEF Init, PrimaryKept, BackupKept, BackupSteps, Missing
  <1> QED
    BY <1>1, <1>2, <1>3 DEF Kept

\* Every step preserves each part.
LEMMA NextKept == Kept /\ [Next]_vars => Kept'
  <1> SUFFICES ASSUME Kept, [Next]_vars PROVE Kept'
    OBVIOUS
  <1>0. TypeOK /\ TypeOK'
    BY NextTypeOK DEF Kept
  <1>n. /\ \A s \in States : s \in Int /\ s >= Missing
        /\ acked \in States /\ previous \in States /\ writes \in States /\ mem \in States
        /\ damages \in Nat /\ damages' \in Nat
        /\ primaryMay \subseteq Int /\ backupMay \subseteq Int
        /\ primary \in primaryMay /\ backup \in backupMay
        /\ backupTemp \in TempFile /\ temp \in TempFile
    BY <1>0, ContentsFacts, SnapshotAssumption DEF TypeOK, States, Missing
  <1> USE DEF Kept, Numbered, TempReady, BackupTempReady, PrimaryKept, BackupKept
  <1>1. CASE Request
    BY <1>0, <1>1, <1>n DEF Request, files, TempSteps, BackupSteps, Missing
  <1>2. CASE RequestDuringFault
    BY <1>0, <1>2, <1>n DEF RequestDuringFault, files, TempSteps, Missing
  <1>3. CASE WriteTemp
    BY <1>0, <1>3 DEF WriteTemp, answers, BackupSteps, WriteSteps
  \* Without a primary nothing was acknowledged: the backup step may be skipped.
  <1>4. CASE SyncTemp
    <2>1. primary = Missing => acked = Missing
      BY <1>n
    <2> QED
      BY <1>0, <1>4, <1>n, <2>1 DEF SyncTemp, answers, TempSteps, BackupSteps, WriteSteps
  <1>5. CASE CopyBackup
    BY <1>0, <1>5, <1>n DEF CopyBackup, answers, TempSteps, BackupSteps, WriteSteps
  <1>6. CASE SyncBackup
    BY <1>0, <1>6 DEF SyncBackup, answers, TempSteps, BackupSteps, WriteSteps
  \* The copy was flushed: the rename leaves the old backup or the primary.
  <1>7. CASE RenameBackup
    <2>1. backupMay' = backupMay \cup {backupTemp.content}
      BY <1>7, <1>n, RenamedFacts DEF RenameBackup
    <2>2. damages = 0 => backupTemp.content >= acked
      BY <1>7, <1>n DEF RenameBackup
    <2> QED
      BY <1>0, <1>7, <1>n, <2>1, <2>2
      DEF RenameBackup, answers, TempSteps, BackupSteps, WriteSteps
  <1>8. CASE SyncDirBackup
    BY <1>0, <1>8, <1>n DEF SyncDirBackup, answers, TempSteps, BackupSteps, WriteSteps
  \* The primary becomes the old one or the new state, a later one.
  <1>9. CASE RenamePrimary
    <2>1. primaryMay' = primaryMay \cup {mem} /\ primary' = mem
      BY <1>9, <1>n, RenamedFacts DEF RenamePrimary, TempSteps
    <2>2. mem >= acked /\ mem # Missing
      BY <1>9, <1>n DEF RenamePrimary, WriteSteps, Missing
    <2> QED
      BY <1>0, <1>9, <1>n, <2>1, <2>2 DEF RenamePrimary, answers, TempSteps, WriteSteps
  \* The answer: the primary is the new state only, the backup the old one.
  <1>10. CASE SyncDirPrimary
    BY <1>0, <1>10, <1>n DEF SyncDirPrimary, TempSteps, WriteSteps
  <1>11. CASE WriteFails
    BY <1>0, <1>11 DEF WriteFails, answers, TempSteps, BackupSteps
  <1>12. CASE Crash
    BY <1>0, <1>12 DEF Crash, files, answers, TempSteps, BackupSteps, WriteSteps
  <1>13. CASE PowerFailure
    BY <1>0, <1>13 DEF PowerFailure, answers, TempSteps, BackupSteps, WriteSteps
  <1>14. CASE Start
    BY <1>0, <1>14 DEF Start, files, answers, TempSteps, BackupSteps, WriteSteps
  <1>15. CASE Damage
    BY <1>0, <1>15, <1>n DEF Damage, Missing, Garbage
  <1>16. CASE UNCHANGED vars
    BY <1>0, <1>16 DEF vars, files, answers
  <1> QED
    BY <1>1, <1>2, <1>3, <1>4, <1>5, <1>6, <1>7, <1>8, <1>9, <1>10, <1>11, <1>12,
       <1>13, <1>14, <1>15, <1>16
    DEF Next, Write

LEMMA AlwaysKept == Spec => []Kept
  BY InitKept, NextKept, PTL DEF Spec

LEMMA KeptAckedSurvives == Kept => AckedSurvives
  <1> SUFFICES ASSUME Kept, damages = 0,
                      NEW p \in primaryMay, NEW b \in backupMay
               PROVE  read(p, b) >= acked
    BY DEF AckedSurvives, Recoverable
  <1>1. /\ p \in Contents /\ b \in Contents
        /\ acked \in States /\ previous \in States
    BY DEF Kept, TypeOK
  <1>2. acked \in Nat /\ previous \in Nat /\ p \in Int /\ b \in Int
    BY <1>1, ContentsFacts, SnapshotAssumption DEF States
  <1>3. p >= acked /\ b >= previous
    BY DEF Kept, PrimaryKept, BackupKept
  <1>4. CASE p > Missing
    BY <1>1, <1>3, <1>4, ReadFacts
  \* Nothing was acknowledged, and whatever the backup is, it is not damaged.
  <1>5. CASE p = Missing
    <2>1. acked = Missing /\ b >= Missing
      BY <1>2, <1>3, <1>5 DEF Missing
    <2> QED
      BY <1>1, <1>5, <2>1, ReadFacts
  <1> QED
    BY <1>2, <1>3, <1>4, <1>5 DEF Missing

\* No answered request is lost, wherever in write() the process is killed, the
\* power fails or a file system call fails, for any number of requests.
THEOREM AckedNotLost == Spec => []AckedSurvives
  BY AlwaysKept, KeptAckedSurvives, PTL

\* The backup snapshot is never older than the last but one answered request.
THEOREM BackupNotStale == Spec => []BackupHoldsPrevious
  <1>1. Kept => BackupHoldsPrevious
    BY DEF Kept, BackupKept, BackupHoldsPrevious
  <1> QED
    BY AlwaysKept, <1>1, PTL

-----------------------------------------------------------------------------
(* The store implements the cell DurableState.                             *)

\* What can be recovered is a state or a refusal, and it is never the empty
\* state once a request was answered.
RecoverableSound ==
    /\ Recoverable \subseteq States \cup {Garbage}
    /\ read(primary, backup) \in Recoverable
    /\ acked # Missing => Missing \notin Recoverable

LEMMA KeptRecoverableSound == Kept => RecoverableSound
  <1> SUFFICES ASSUME Kept PROVE RecoverableSound
    OBVIOUS
  <1>1. /\ primaryMay \subseteq Contents /\ backupMay \subseteq Contents
        /\ primary \in primaryMay /\ backup \in backupMay /\ acked \in States
    BY DEF Kept, TypeOK
  <1>2. \A p \in primaryMay, b \in backupMay :
          /\ read(p, b) \in States \cup {Garbage}
          /\ acked # Missing => read(p, b) # Missing
    <2> TAKE p \in primaryMay, b \in backupMay
    <2>1. acked # Missing => p # Missing
      BY <1>1, ContentsFacts, SnapshotAssumption DEF Kept, PrimaryKept, States, Missing
    <2> QED
      BY <1>1, <2>1, ReadFacts
  <1> QED
    BY <1>1, <1>2 DEF Recoverable, RecoverableSound

\* The abstract step a concrete one is: a step that keeps memory and answer is
\* harmless if it adds nothing that could come back, and after damage anyway.
LEMMA StepsRefine ==
    /\ Kept /\ Kept' /\ RecoverableSound /\ RecoverableSound'
    /\ [Next]_vars
    => [Durable!Next]_(Durable!vars)
  <1> SUFFICES ASSUME Kept, Kept', RecoverableSound, RecoverableSound', [Next]_vars
               PROVE  [Durable!Next]_(Durable!vars)
    OBVIOUS
  <1> DEFINE Damaged == damages > 0
  <1>t. TypeOK /\ TypeOK'
    BY DEF Kept
  <1>n. /\ damages \in Nat /\ damages' \in Nat
        /\ mem \in States /\ acked \in States
        /\ \A s \in States : s \in Int /\ s >= Missing
    BY <1>t, ContentsFacts, SnapshotAssumption DEF TypeOK, States, Missing
  <1>r. /\ Recoverable \subseteq States \cup {Garbage}
        /\ read(primary, backup) \in Recoverable
        /\ acked # Missing => Missing \notin Recoverable
    BY DEF RecoverableSound
  <1>p. /\ Recoverable' \subseteq States \cup {Garbage}
        /\ read(primary, backup)' \in Recoverable'
        /\ acked' # Missing => Missing \notin Recoverable'
    BY DEF RecoverableSound
  \* Steps that touch no snapshot file.
  <1>f. ASSUME UNCHANGED <<primaryMay, backupMay>>
        PROVE  Recoverable' = Recoverable
    BY <1>f DEF Recoverable
  <1>s. ASSUME UNCHANGED <<mem, acked, damages>>, Recoverable' \subseteq Recoverable
        PROVE  Durable!Settle
    BY <1>s, <1>p DEF Durable!Settle
  <1>d. ASSUME UNCHANGED <<mem, acked>>, damages' > 0
        PROVE  Durable!Damage
    BY <1>d, <1>p DEF Durable!Damage
  <1>1. CASE Request \/ RequestDuringFault
    <2>1. mem' # Missing /\ mem' \in States
      BY <1>1, <1>t, ContentsFacts, SnapshotAssumption
      DEF Request, RequestDuringFault, TypeOK, States, Missing
    <2>2. UNCHANGED <<primaryMay, backupMay, acked, damages>>
      BY <1>1 DEF Request, RequestDuringFault, files
    <2> QED
      BY <1>f, <2>1, <2>2 DEF Durable!Next, Durable!Change
  <1>2. CASE WriteTemp \/ SyncTemp \/ CopyBackup \/ SyncBackup \/ WriteFails \/ Crash
    BY <1>2, <1>f
    DEF WriteTemp, SyncTemp, CopyBackup, SyncBackup, WriteFails, Crash, files, answers,
        Durable!vars
  \* The copy of the primary can already come back wherever the old backup can.
  <1>3. CASE RenameBackup
    <2>1. CASE Damaged
      BY <1>3, <1>d, <2>1 DEF RenameBackup, answers, Durable!Next
    <2>2. CASE ~Damaged
      <3>1. /\ primaryMay' = primaryMay
            /\ backupMay' = backupMay \cup {primary}
            /\ primary > Missing
        BY <1>3, <1>n, <1>t, <2>2, RenamedFacts, ContentsFacts
        DEF RenameBackup, TypeOK, Kept, BackupTempReady, PrimaryKept, BackupSteps, Missing
      <3>2. ASSUME NEW p \in primaryMay
            PROVE  read(p, primary) \in Recoverable
        <4>1. /\ p \in Contents /\ primary \in Contents
              /\ backup \in Contents /\ backup \in backupMay /\ primary \in primaryMay
          BY <1>t DEF TypeOK
        <4>2. p >= Missing /\ p \in Int
          BY <1>n, <2>2, <4>1, ContentsFacts DEF Kept, PrimaryKept
        <4>3. CASE p > Missing
          BY <4>1, <4>3, ReadFacts DEF Recoverable
        <4>4. CASE p = Missing
          <5>1. read(p, primary) = primary /\ read(primary, backup) = primary
            BY <3>1, <4>1, <4>4, ReadFacts, ContentsFacts
          <5> QED
            BY <4>1, <5>1 DEF Recoverable
        <4> QED
          BY <4>2, <4>3, <4>4 DEF Missing
      <3> QED
        BY <1>3, <1>s, <3>1, <3>2 DEF RenameBackup, answers, Recoverable, Durable!Next
    <2> QED
      BY <2>1, <2>2
  <1>4. CASE SyncDirBackup \/ PowerFailure
    <2>1. Recoverable' \subseteq Recoverable
      BY <1>4, <1>t DEF SyncDirBackup, PowerFailure, Recoverable, TypeOK
    <2> QED
      BY <1>4, <1>s, <2>1 DEF SyncDirBackup, PowerFailure, answers, Durable!Next
  <1>5. CASE RenamePrimary
    <2>1. primaryMay' = primaryMay \cup {mem} /\ backupMay' = backupMay /\ mem > Missing
      BY <1>5, <1>t, RenamedFacts
      DEF RenamePrimary, TypeOK, Kept, Numbered, TempReady, TempSteps, WriteSteps
    <2>2. \A b \in backupMay : read(mem, b) = mem
      BY <1>n, <1>t, <2>1, ReadFacts, ContentsFacts DEF TypeOK
    <2>3. backupMay # {}
      BY <1>t DEF TypeOK
    <2>4. Recoverable' = Recoverable \cup {mem}
      BY <2>1, <2>2, <2>3 DEF Recoverable
    <2> QED
      BY <1>5, <2>4 DEF RenamePrimary, answers, Durable!Next, Durable!Expose
  \* Without damage the primary is the new state, otherwise it was replaced by
  \* garbage, which never counts as empty.
  <1>6. CASE SyncDirPrimary
    <2>1. Recoverable' = {read(primary, backup)}
      BY <1>6 DEF SyncDirPrimary, Recoverable
    <2>2. ~Damaged => read(primary, backup) = mem
      BY <1>6, <1>n, <1>t, ReadFacts
      DEF SyncDirPrimary, TypeOK, Kept, Numbered, PrimaryKept, WriteSteps
    <2>3. read(primary, backup) # Missing
      BY <1>6, <1>t, ReadFacts
      DEF SyncDirPrimary, TypeOK, Kept, PrimaryKept
    <2> QED
      BY <1>6, <1>n, <1>r, <2>1, <2>2, <2>3
      DEF SyncDirPrimary, Durable!Next, Durable!Acknowledge
  <1>7. CASE Start
    BY <1>7, <1>f, <1>r DEF Start, files, answers, Durable!Next, Durable!Recover
  <1>8. CASE Damage
    BY <1>8, <1>d, <1>n DEF Damage, Durable!Next
  <1>9. CASE UNCHANGED vars
    BY <1>9, <1>f DEF vars, files, answers, Durable!vars
  <1> QED
    BY <1>1, <1>2, <1>3, <1>4, <1>5, <1>6, <1>7, <1>8, <1>9 DEF Next, Write

\* The files, the renames and the fsyncs implement the durable cell the other
\* modules rely on: a request is kept or lost as a whole, an answered one is
\* kept, and damaged files never make the server start empty.
THEOREM RefinesDurableState == Spec => ImplementsDurableState
  <1>1. Init => Durable!Init
    <2> SUFFICES ASSUME Init PROVE Durable!Init
      OBVIOUS
    <2>1. read(Missing, Missing) = Missing
      BY ReadFacts, ContentsFacts DEF Missing
    <2>2. Recoverable = {read(Missing, Missing)}
      BY DEF Init, Recoverable
    <2>3. (damages > 0) = FALSE
      BY DEF Init
    <2> QED
      BY <2>1, <2>2, <2>3 DEF Init, Durable!Init, Missing
  <1> QED
    BY AlwaysKept, KeptRecoverableSound, StepsRefine, <1>1, PTL
    DEF Spec, ImplementsDurableState, Durable!Spec
=============================================================================
