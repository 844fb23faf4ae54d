---------------------------- MODULE FaceStorage ----------------------------
(***************************************************************************)
(* What a kiosk host must not lose: the key file that opens the sealed     *)
(* faces (server/face/local-key.ts, sealing by server/face/local-store.ts) *)
(* and the generations of the encrypted database on the backup medium      *)
(* (server/face/backup.ts).  The process may die at any write.             *)
(*                                                                         *)
(* The key file is read and written in one turn; only a crash splits it.   *)
(* Between the gateway's turns it can be damaged, removed, edited and      *)
(* mended: the text of a key may still stand in a file that the gateway    *)
(* does not read it from.                                                  *)
(* A copy of the database takes less than the day to the next one, so at   *)
(* most one is under way.                                                  *)
(***************************************************************************)
EXTENDS FiniteSetsExt, Naturals

CONSTANTS Purposes,     \* "template" and "photo"
          Generations,  \* options.generations
          MaxKeys,      \* bound: keys made, numbered in order of createdAt
          MaxBackups    \* bound: copies begun, numbered in the order of names

ASSUME FaceStorageAssumption ==
    /\ {MaxKeys, MaxBackups} \subseteq Nat /\ Generations \in Nat \ {0}
    /\ IsFiniteSet(Purposes) /\ Cardinality(Purposes) <= MaxKeys

VARIABLES
    file,     \* face-keys.json: absent, no JSON, or JSON; the keys whose text
              \* it has, and those of them whose entry isStoredKey accepts
    made,     \* keys ever made
    running, loaded,  \* the process and its LocalFaceKeys
    row,      \* key_id of the sealed row of each purpose; 0 for none
    lost,     \* history: keys whose text damage, removal or a crash took away
    spoiled,  \* history: keys whose entry an edit made invalid
    begun, copying,   \* copies begun; the one under way, or 0
    onMedium, \* generations on the medium, whole or not
    whole     \* history: those that were copied to the end

keyVars == <<file, made, running, loaded, row, lost, spoiled>>
backupVars == <<begun, copying, onMedium, whole>>
storageVars == <<keyVars, backupVars>>

Key == [id : 1..MaxKeys, purpose : Purposes]

FaceStorageTypeOK ==
    /\ file \in [state : {"absent", "torn", "good"}, keys : SUBSET Key, valid : SUBSET Key]
    /\ made \in 0..MaxKeys /\ running \in BOOLEAN
    /\ loaded \subseteq Key /\ lost \subseteq Key /\ spoiled \subseteq Key
    /\ row \in [Purposes -> 0..MaxKeys]
    /\ begun \in 0..MaxBackups /\ copying \in 0..begun
    /\ whole \subseteq 1..begun /\ onMedium \subseteq 1..begun

File(state, keys, valid) == [state |-> state, keys |-> keys, valid |-> valid]
Absent == File("absent", {}, {})

\* A host starts without a file, or with one that lacks the purposes added
\* since.
FaceStorageInit ==
    /\ \/ /\ file = Absent /\ made = 0
          /\ row = [p \in Purposes |-> 0]
       \/ /\ made = 1
          /\ \E p \in Purposes :
               /\ LET old == {[id |-> 1, purpose |-> p]} IN file = File("good", old, old)
               /\ row = [q \in Purposes |-> IF q = p THEN 1 ELSE 0]
    /\ running = FALSE /\ loaded = {} /\ lost = {} /\ spoiled = {}
    /\ begun = 0 /\ copying = 0 /\ onMedium = {} /\ whole = {}

-----------------------------------------------------------------------------
(* The key file.                                                            *)

Of(keys, p) == {k \in keys : k.purpose = p}

\* currentOf: the key of the purpose that was made last.
CurrentOf(keys, p) == CHOOSE k \in Of(keys, p) : \A other \in Of(keys, p) : other.id <= k.id

MutReadable == TRUE

\* readKeyFile throws on a file that is no JSON instead of making new keys.
Readable == file.state # "torn"

\* What it returns otherwise: the entries that are keys, and none if there is
\* no list of them.
ReadKeys == IF file.state = "good" THEN file.valid ELSE {}

Missing == {p \in Purposes : Of(ReadKeys, p) = {}}

\* generateKey for every purpose without a key.
Generated == CHOOSE new \in SUBSET [id : (made + 1)..(made + Cardinality(Missing)), purpose : Missing] :
                \A p \in Missing : \E k \in new : Of(new, p) = {k} /\ \A o \in new \ {k} : o.id # k.id

\* loadLocalFaceKeys at the start: the file is written, over whatever it holds,
\* only if a key is new.
LoadLocalFaceKeys ==
    /\ ~running /\ Readable /\ made + Cardinality(Missing) <= MaxKeys
    /\ loaded' = ReadKeys \cup Generated
    /\ file' = IF Missing = {} THEN file ELSE File("good", loaded', loaded')
    /\ made' = made + Cardinality(Missing)
    /\ running' = TRUE
    /\ UNCHANGED <<row, lost, spoiled, backupVars>>

\* The process dies while it writes: the keys of the file are gone with it.
DieWritingKeys ==
    /\ ~running /\ Readable /\ Missing # {} /\ made + Cardinality(Missing) <= MaxKeys
    /\ file' = File("torn", {}, {}) /\ lost' = lost \cup file.keys
    /\ UNCHANGED <<made, running, loaded, row, spoiled, backupVars>>

\* The operator adds a key by hand; the process knows it from its next start.
OperatorAddsKey(p) ==
    /\ file.state = "good" /\ made < MaxKeys
    /\ made' = made + 1
    /\ LET new == {[id |-> made + 1, purpose |-> p]}
       IN file' = File("good", file.keys \cup new, file.valid \cup new)
    /\ UNCHANGED <<running, loaded, row, lost, spoiled, backupVars>>

\* The disk, or an edit that went wrong, leaves a file that is no JSON, with
\* the text of some keys in it.
FileIsDamaged(kept) ==
    /\ file.state = "good"
    /\ file' = File("torn", kept, file.valid \cap kept)
    /\ lost' = lost \cup (file.keys \ kept)
    /\ UNCHANGED <<made, running, loaded, row, spoiled, backupVars>>

\* An edit leaves JSON: a misspelt `keys`, or entries with a wrong purpose.
EntriesAreSpoiled(sound) ==
    /\ file.state = "good"
    /\ file' = [file EXCEPT !.valid = sound]
    /\ spoiled' = spoiled \cup (file.valid \ sound)
    /\ UNCHANGED <<made, running, loaded, row, lost, backupVars>>

\* The operator puts the text of the file in order.
OperatorMends ==
    /\ file.keys # {} /\ (file.state = "torn" \/ file.keys # file.valid)
    /\ file' = File("good", file.keys, file.keys)
    /\ UNCHANGED <<made, running, loaded, row, lost, spoiled, backupVars>>

\* The file is removed, or given up as past mending; the rows stay sealed.
FileIsRemoved ==
    /\ file.state # "absent"
    /\ file' = Absent /\ lost' = lost \cup file.keys
    /\ UNCHANGED <<made, running, loaded, row, spoiled, backupVars>>

\* sealFaceTemplate, sealFacePhoto: a row is sealed with the current key.
SealRow(p) ==
    /\ running
    /\ row' = [row EXCEPT ![p] = CurrentOf(loaded, p).id]
    /\ UNCHANGED <<file, made, running, loaded, lost, spoiled, backupVars>>

DeleteRow(p) ==
    /\ running /\ row[p] # 0
    /\ row' = [row EXCEPT ![p] = 0]
    /\ UNCHANGED <<file, made, running, loaded, lost, spoiled, backupVars>>

-----------------------------------------------------------------------------
(* Backups.                                                                 *)

\* startFaceBackup: once at the start and then daily, to a new name.
BeginBackup ==
    /\ running /\ copying = 0 /\ begun < MaxBackups
    /\ begun' = begun + 1 /\ copying' = begun + 1
    /\ onMedium' = onMedium \cup {begun + 1}
    /\ UNCHANGED <<whole, keyVars>>

\* generationsOf sorts by name; all but the last so many go.
Excess(existing) == {g \in existing : Cardinality({h \in existing : h > g}) >= Generations}

MutRotates(ok) == TRUE

\* rotate() comes after a copy that succeeded, never after one that failed.
Rotates(ok) == ok

\* unlinkSync may fail for any of them; the next rotation tries again.
Rotate(ok) ==
    \E removed \in SUBSET (IF Rotates(ok) THEN Excess(onMedium) ELSE {}) :
        onMedium' = onMedium \ removed

BackupSucceeds ==
    /\ copying # 0
    /\ whole' = whole \cup {copying}
    /\ Rotate(TRUE)
    /\ copying' = 0
    /\ UNCHANGED <<begun, keyVars>>

\* db.backup throws; what it wrote may remain and counts as a generation.
BackupFails ==
    /\ copying # 0
    /\ Rotate(FALSE) \/ onMedium' = onMedium \ {copying}
    /\ copying' = 0
    /\ UNCHANGED <<begun, whole, keyVars>>

StorageProcessDies ==
    /\ running
    /\ running' = FALSE /\ loaded' = {}
    /\ copying' = 0
    /\ UNCHANGED <<file, made, row, lost, spoiled, begun, onMedium, whole>>

\* The file and the medium have only the life of the process in common.
KeysNext ==
    \/ LoadLocalFaceKeys \/ DieWritingKeys \/ OperatorMends \/ FileIsRemoved
    \/ \E kept \in SUBSET file.keys : FileIsDamaged(kept)
    \/ \E sound \in SUBSET file.valid : EntriesAreSpoiled(sound)
    \/ \E p \in Purposes : OperatorAddsKey(p) \/ SealRow(p) \/ DeleteRow(p)
    \/ StorageProcessDies

BackupsNext ==
    \/ LoadLocalFaceKeys \/ StorageProcessDies
    \/ BeginBackup \/ BackupSucceeds \/ BackupFails

-----------------------------------------------------------------------------
(* Properties.                                                              *)

\* Every sealed row can be opened with a key of the file, and by the running
\* process, unless its key was taken from outside: its text is gone with a
\* damage, a removal or a crash in the middle of writing, or an edit made its
\* entry invalid.  No start makes the gateway drop a key it could read or that
\* waits in a broken file for the operator, no key is used before it is in the
\* file, and an added key displaces none (local-key.ts:65-79, 116-142).
SealedStaysReadable ==
    \A p \in Purposes : row[p] # 0 =>
        \/ \E k \in Of(lost \cup spoiled, p) : k.id = row[p]
        \/ /\ \E k \in Of(file.valid, p) : k.id = row[p]
           /\ running => \E k \in Of(loaded, p) : k.id = row[p]

\* Says the comment at local-key.ts:74: generating anew would make everything
\* registered unreadable, so a broken key file is left to the operator.  Then a
\* key that a row needs leaves the file only by a hand or an accident that
\* takes its text, never because the gateway writes new keys over it.
BrokenFileIsLeftAlone ==
    \A p \in Purposes : row[p] # 0 => \E k \in Of(file.keys \cup lost, p) : k.id = row[p]

\* Once one copy was made to the end, a whole one stays on the medium: copies
\* that failed or broke off, though they count as generations, never lead to
\* the removal of the last whole one (backup.ts:91-97).
GoodBackupSurvives == whole # {} => whole \cap onMedium # {}
=============================================================================
