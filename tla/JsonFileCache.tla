--------------------------- MODULE JsonFileCache ----------------------------
(***************************************************************************)
(* JsonFileCache (cache.py): one file per key in a directory that several  *)
(* processes share.  store() writes a temporary file, syncs it and renames *)
(* it over the entry; load() reads whatever is there.  The file system is  *)
(* POSIX's: a rename is seen at once and in full by every process, a power *)
(* failure may undo renames that the directory has not settled yet, and it *)
(* may tear contents that were never synced.                               *)
(***************************************************************************)
CONSTANTS
  Process,  \* processes sharing the directory
  Key,      \* content hashes
  Value,    \* what is stored
  None,     \* no file
  Torn      \* a file that no longer holds what was written

Contents == [value : Value, synced : BOOLEAN]

ASSUME FileAssumption ==
  /\ None \notin Value \cup Contents
  /\ Torn \notin Value \cup Contents
  /\ None # Torn

VARIABLES
  files,    \* per key, the entry: None, Torn, or contents and whether they are synced
  settled,  \* per key, the entry the directory is sure to have after a power failure
  temp      \* per process, the temporary file of the store() under way, or None

fileVars == <<files, settled, temp>>

Entries  == Contents \cup {None, Torn}
Temps    == [key : Key, value : Value, synced : BOOLEAN]

FilesTypeOK ==
  /\ files \in [Key -> Entries]
  /\ settled \in [Key -> Entries]
  /\ temp \in [Process -> Temps \cup {None}]

(* What load() finds under k; a torn file makes it raise.                  *)
Stored(file) == IF file \in {None, Torn} THEN file ELSE file.value

FilesInit ==
  /\ files = [k \in Key |-> None]
  /\ settled = files
  /\ temp = [p \in Process |-> None]

(* mkstemp, write and flush.                                               *)
Write(p, k, v) ==
  /\ temp[p] = None
  /\ temp' = [temp EXCEPT ![p] = [key |-> k, value |-> v, synced |-> FALSE]]
  /\ UNCHANGED <<files, settled>>

Sync(p) ==
  /\ temp[p] # None
  /\ ~temp[p].synced
  /\ temp' = [temp EXCEPT ![p].synced = TRUE]
  /\ UNCHANGED <<files, settled>>

(* Mutant: store() without its fsync.                                      *)
ReplaceUnsynced(p) ==
  /\ temp[p] # None
  /\ files' = [files EXCEPT ![temp[p].key] = [value |-> temp[p].value, synced |-> temp[p].synced]]
  /\ temp' = [temp EXCEPT ![p] = None]
  /\ UNCHANGED settled

Replace(p) ==
  /\ temp[p] # None
  /\ temp[p].synced
  /\ files' = [files EXCEPT ![temp[p].key] = [value |-> temp[p].value, synced |-> TRUE]]
  /\ temp' = [temp EXCEPT ![p] = None]
  /\ UNCHANGED settled

(* The finally clause unlinks the temporary file of a store that raised; a *)
(* killed process leaves it behind under a name that nobody reads.         *)
Abandon(p) ==
  /\ temp' = [temp EXCEPT ![p] = None]
  /\ UNCHANGED <<files, settled>>

(* The directory reaches the disk some time after the rename.              *)
Settle(k) ==
  /\ settled[k] # files[k]
  /\ settled' = [settled EXCEPT ![k] = files[k]]
  /\ UNCHANGED <<files, temp>>

(* What a power failure may leave of an entry.                             *)
Remains(file) ==
  IF file \in Contents /\ ~file.synced
  THEN {Torn, [file EXCEPT !.synced = TRUE]}
  ELSE {file}

PowerFailure ==
  /\ files' \in [Key -> UNION {Remains(files[k]) \cup Remains(settled[k]) : k \in Key}]
  /\ \A k \in Key : files'[k] \in Remains(files[k]) \cup Remains(settled[k])
  /\ settled' = files'
  /\ temp' = [p \in Process |-> None]

FilesNext ==
  \/ \E p \in Process :
       \/ \E k \in Key, v \in Value : Write(p, k, v)
       \/ Sync(p) \/ Replace(p) \/ Abandon(p)
  \/ \E k \in Key : Settle(k)
  \/ PowerFailure

FilesSpec == FilesInit /\ [][FilesNext]_fileVars

-----------------------------------------------------------------------------
(* Readers of the directory never find anything but whole values that some *)
(* process stored, whatever is killed and whenever the power fails         *)
(* (cache.py:31-51).                                                       *)
EntryView == INSTANCE EntryStore WITH
  entry <- [k \in Key |-> Stored(files[k])],
  older <- [k \in Key |-> Stored(settled[k])]

ImplementsEntryStore == EntryView!Spec
=============================================================================
