----------------------------- MODULE DevDBFile -----------------------------
(***************************************************************************)
(* How the device database of internal/collector/devdb.go reaches the disk *)
(* and comes back.  Every note that is set, and every scan that changes a  *)
(* record, starts a goroutine of its own running save: it copies the       *)
(* pointers of the records under the lock, marshals the records without    *)
(* it, writes one fixed temporary file and renames it.  The database is    *)
(* loaded when the process starts.  Files are inodes: a name may be taken  *)
(* from a file that is still being written.                                *)
(***************************************************************************)
EXTENDS Integers, FiniteSets

CONSTANTS
  Records, \* MACs; of a record, only the note is modelled
  MaxNote, \* notes are 0 .. MaxNote; the number is the length of the note
  Savers,  \* save goroutines that may be alive at the same time
  Inodes,  \* files the directory may hold
  LenOf(_) \* length of the JSON of what was marshalled

Torn == MaxNote + 1 \* a string whose pointer and length were read apart
NoteValues == 0 .. MaxNote
NoFile == "no file"

ASSUME NoteAssumption == MaxNote \in Nat
ASSUME InodeAssumption == NoFile \notin Inodes

VARIABLES
  mem,     \* mem[r]: Note of record r in DevDB.recs
  editing, \* the assignment SetNote is making under the lock, if any
  pc,      \* pc[s]: what saver s does next
  todo,    \* todo[s]: records s has not marshalled yet
  data,    \* data[s]: what s has marshalled
  fd,      \* fd[s]: the file s has open
  tmp,     \* the file devices.json.tmp names, or NoFile
  path,    \* the file devices.json names, or NoFile
  file,    \* file[i]: length and text of inode i, and if it is JSON
  apart,   \* history: saves under way that no other save has overlapped
  intact,  \* history: the save that put devices.json there was such a one
  failed   \* history: the save that ended last failed

memory == <<mem, editing>>
savers == <<pc, todo, data, fd>>
files == <<tmp, path, file>>
history == <<apart, intact, failed>>
fileVars == <<memory, savers, files, history>>

Blank == [r \in Records |-> 0]
Texts == [Records -> NoteValues \union {Torn}]
NotJSON(n) == [len |-> n, json |-> FALSE, text |-> Blank]
Empty == NotJSON(0)

ASSUME LenAssumption == \A d \in Texts : LenOf(d) \in Nat \ {0}

\* What writing d from the start of a file leaves there: the tail of a longer
\* text that another saver wrote after both had truncated the file stays.
Overwrite(old, d) == IF old.len > LenOf(d)
                     THEN NotJSON(old.len)
                     ELSE [len |-> LenOf(d), json |-> TRUE, text |-> d]

\* NewDevDB: a file that is missing or cannot be parsed starts a fresh database.
Loaded == IF path = NoFile THEN Blank ELSE file[path].text

FileInit ==
  /\ mem = Blank
  /\ editing = {}
  /\ pc = [s \in Savers |-> "idle"]
  /\ todo = [s \in Savers |-> {}]
  /\ data = [s \in Savers |-> Blank]
  /\ fd = [s \in Savers |-> NoFile]
  /\ tmp = NoFile
  /\ path = NoFile
  /\ file = [i \in Inodes |-> Empty]
  /\ apart = {}
  /\ intact = TRUE
  /\ failed = FALSE

-----------------------------------------------------------------------------
(* SetNote and UpsertDevices, under the write lock.                        *)

BeginNote(r, note) ==
  /\ editing = {}
  /\ \E s \in Savers : pc[s] = "idle"
  /\ editing' = {[rec |-> r, note |-> note]}
  /\ UNCHANGED <<mem, savers, files, history>>

\* go db.save()
StartSave(s) ==
  /\ pc[s] = "idle"
  /\ pc' = [pc EXCEPT ![s] = "snapshot"]
  /\ apart' = IF \A other \in Savers : pc[other] = "idle" THEN {s} ELSE {}
  /\ UNCHANGED <<todo, data, fd, files, intact, failed>>

\* A SetNote that leaves saving to the next device scan.
EndNoteUnsaved(s) ==
  /\ pc[s] = "idle"
  /\ \E e \in editing : mem' = [mem EXCEPT ![e.rec] = e.note]
  /\ editing' = {}
  /\ UNCHANGED <<savers, files, history>>

\* The assignment is complete, save is started and the lock released.
EndNote(s) ==
  /\ \E e \in editing : mem' = [mem EXCEPT ![e.rec] = e.note]
  /\ editing' = {}
  /\ StartSave(s)

\* A scan has changed a record, but no note.
ScanSaves(s) ==
  /\ editing = {}
  /\ StartSave(s)
  /\ UNCHANGED memory

-----------------------------------------------------------------------------
(* save.                                                                   *)

\* Under the read lock: the slice of pointers.
Snapshot(s) ==
  /\ pc[s] = "snapshot"
  /\ editing = {}
  /\ pc' = [pc EXCEPT ![s] = "marshal"]
  /\ todo' = [todo EXCEPT ![s] = Records]
  /\ UNCHANGED <<memory, data, fd, files, history>>

\* What a read of the note of r without the lock may return.
Readable(r) ==
  {mem[r]} \union UNION {{e.note, Torn} : e \in {x \in editing : x.rec = r}}

\* MarshalIndent follows one pointer after the other, without the lock.
Marshal(s, r) ==
  /\ pc[s] = "marshal"
  /\ r \in todo[s]
  /\ \E note \in Readable(r) : data' = [data EXCEPT ![s][r] = note]
  /\ todo' = [todo EXCEPT ![s] = @ \ {r}]
  /\ pc' = [pc EXCEPT ![s] = IF todo[s] = {r} THEN "open" ELSE "marshal"]
  /\ UNCHANGED <<memory, fd, files, history>>

Unused == {i \in Inodes : i # tmp /\ i # path /\ \A s \in Savers : fd[s] # i}

\* Writing devices.json itself.
OpenInPlace(s) ==
  /\ pc[s] = "open"
  /\ \E i \in IF path = NoFile THEN Unused ELSE {path} :
       /\ path' = i
       /\ file' = [file EXCEPT ![i] = Empty]
       /\ fd' = [fd EXCEPT ![s] = i]
  /\ pc' = [pc EXCEPT ![s] = "write"]
  /\ UNCHANGED <<memory, todo, data, tmp, history>>

\* WriteFile creates the temporary file or truncates the one it finds: what a
\* crash left behind, or what another saver is about to write or rename.
Open(s) ==
  /\ pc[s] = "open"
  /\ \E i \in IF tmp = NoFile THEN Unused ELSE {tmp} :
       /\ tmp' = i
       /\ file' = [file EXCEPT ![i] = Empty]
       /\ fd' = [fd EXCEPT ![s] = i]
  /\ pc' = [pc EXCEPT ![s] = "write"]
  /\ UNCHANGED <<memory, todo, data, path, history>>

Write(s) ==
  /\ pc[s] = "write"
  /\ file' = [file EXCEPT ![fd[s]] = Overwrite(@, data[s])]
  /\ fd' = [fd EXCEPT ![s] = NoFile]
  /\ pc' = [pc EXCEPT ![s] = "rename"]
  /\ UNCHANGED <<memory, todo, data, tmp, path, history>>

\* save returns.
Ends(s) ==
  /\ pc' = [pc EXCEPT ![s] = "idle"]
  /\ data' = [data EXCEPT ![s] = Blank]
  /\ apart' = apart \ {s}

\* Rename fails when another saver has renamed the file away.
Rename(s) ==
  /\ pc[s] = "rename"
  /\ path' = IF tmp = NoFile THEN path ELSE tmp
  /\ tmp' = NoFile
  /\ Ends(s)
  /\ failed' = (tmp = NoFile)
  /\ intact' = IF tmp = NoFile THEN intact ELSE s \in apart
  /\ UNCHANGED <<memory, todo, fd, file>>

\* MkdirAll, WriteFile or Rename return an error, which is only logged: nothing
\* was written, or a part, or all of it.  A crash in the middle looks the same.
Fail(s) ==
  /\ pc[s] \in {"open", "write", "rename"}
  /\ file' = IF pc[s] = "write"
             THEN [file EXCEPT ![fd[s]] = NotJSON(LenOf(data[s]))]
             ELSE file
  /\ Ends(s)
  /\ fd' = [fd EXCEPT ![s] = NoFile]
  /\ failed' = TRUE
  /\ UNCHANGED <<memory, todo, tmp, path, intact>>

-----------------------------------------------------------------------------
\* The process dies at any point and its successor loads the file.
Reload ==
  /\ mem' = Loaded
  /\ editing' = {}
  /\ pc' = [s \in Savers |-> "idle"]
  /\ todo' = [s \in Savers |-> {}]
  /\ data' = [s \in Savers |-> Blank]
  /\ fd' = [s \in Savers |-> NoFile]
  /\ apart' = {}
  /\ failed' = FALSE
  /\ UNCHANGED <<files, intact>>

SaverStep(s) == \/ Snapshot(s) \/ Open(s) \/ Write(s) \/ Rename(s) \/ Fail(s)
                \/ \E r \in Records : Marshal(s, r)

FileNext == \/ \E r \in Records, note \in NoteValues : BeginNote(r, note)
            \/ \E s \in Savers : EndNote(s) \/ ScanSaves(s) \/ SaverStep(s)
            \/ Reload

FileSpec == FileInit /\ [][FileNext]_fileVars

-----------------------------------------------------------------------------
\* Every variable has the type the code gives it.
FileTypeOK ==
  /\ mem \in Texts
  /\ editing \in SUBSET [rec : Records, note : NoteValues]
  /\ Cardinality(editing) <= 1
  /\ pc \in [Savers -> {"idle", "snapshot", "marshal", "open", "write", "rename"}]
  /\ todo \in [Savers -> SUBSET Records]
  /\ data \in [Savers -> Texts]
  /\ fd \in [Savers -> Inodes \union {NoFile}]
  /\ tmp \in Inodes \union {NoFile}
  /\ path \in Inodes \union {NoFile}
  /\ file \in [Inodes -> [len : Nat, json : BOOLEAN, text : Texts]]
  /\ apart \in SUBSET Savers
  /\ {intact, failed} \subseteq BOOLEAN

\* Whenever the process dies, its successor can parse devices.json, whatever
\* failed before, unless a save that overlapped another one put the file there:
\* then it can be parsed again as soon as a save has ended that overlapped none
\* (devdb.go:77-85).
Loadable == intact /\ path # NoFile => file[path].json

\* When no goroutine has anything left to do, the notes on disk are the notes
\* users have set, provided that the last save succeeded and overlapped no other
\* (devdb.go:60-85, 145, 152).
Quiescent == editing = {} /\ \A s \in Savers : pc[s] = "idle"
NotesOnDisk == Quiescent /\ intact /\ ~failed => Loaded = mem

\* The comment of devdb.go:27: "DevDB is a thread-safe, file-backed database".
ThreadSafe == path # NoFile => file[path].json
=============================================================================
