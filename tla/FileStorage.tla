---------------------------- MODULE FileStorage ----------------------------
(***************************************************************************)
(* The storage of server and client: the file backend                      *)
(* (storage/file/file.go) under FileStorage and EncryptedStorage           *)
(* (storage/storage.go).                                                   *)
(*                                                                         *)
(* An operation takes a permit, then the lock (shared for Get), then works *)
(* on the file system call by call.  A Put writes a temporary file beside  *)
(* its target and renames it over it; nothing is flushed to the disk, so a *)
(* loss of power may undo what the process has seen done.  Any call may    *)
(* fail and the process may end between two.                               *)
(*                                                                         *)
(* Keys are those validatePath lets through.  Callers never cancel         *)
(* (context.Background()).  List and Transaction have no callers.          *)
(***************************************************************************)
EXTENDS Integers, FiniteSets

CONSTANTS
  Keys, Values, Clients, Passes, NoPass,
  Dirs,            \* directories below the configured one
  Root,            \* the configured directory
  DirOf(_),        \* the directory of a key's file
  Up(_),           \* the directory a directory is in
  Path(_),         \* a directory and those it is in, up to the configured one
  Permits,         \* physical.DefaultParallelOperations
  MaxFaults,       \* bound: failed calls, restarts and losses of power
  Empty, Torn,     \* a file of size zero; one that cannot be decoded
  NoFile, NoCall, NotYet, Nobody

Entry == [val : Values, pass : Passes]

Content == Entry \cup {Empty, Torn, NoFile}

Operation == [op : {"put"}, key : Keys, val : Values]
             \cup [op : {"get", "delete"}, key : Keys]

ASSUME FileStorageAssumption ==
  /\ Permits \in Nat \ {0}
  /\ MaxFaults \in Nat
  /\ NoPass \in Passes
  /\ Root \notin Dirs
  /\ \A k \in Keys : DirOf(k) \in Dirs \cup {Root}
  /\ Path(Root) = {}
  /\ \A d \in Dirs : /\ Up(d) \in Dirs \cup {Root}
                     /\ Path(d) = Path(Up(d)) \cup {d}
                     /\ d \notin Path(Up(d))
                     /\ \A e \in Path(d) :
                          /\ e \in Dirs
                          /\ Up(e) \in Path(d) \cup {Root}
                          /\ e # d => \E f \in Path(d) : Up(f) = e
  /\ Nobody \notin Clients
  /\ NoCall \notin Operation
  /\ NotYet \notin Values \cup {"ok", "nil", "raw", "error"}
  /\ Empty # Torn /\ Empty # NoFile /\ NoFile # Torn
  /\ {Empty, Torn, NoFile} \cap Entry = {}

(* All directories on the path of a key. *)
Above(k) == Path(DirOf(k))

Step == {"idle", "permit", "lock", "mkdir", "temp", "encode", "rename",
         "remove", "cleanup", "stat", "unlink", "open", "return"}

VARIABLES
  files,     \* the file of each key, as the process sees it
  survives,  \* what a loss of power may leave of it
  dirs,      \* the directories that exist
  litter,    \* keys beside whose file a temporary one was left behind
  pass,      \* the passphrase of the running process
  pool,      \* permitPool: who holds a permit
  writer,    \* the RWMutex: who holds it alone
  readers,   \* and who holds it shared
  pc, call, res,
  at,        \* the directory a Delete is about to clean up
  faults

vars == <<files, survives, dirs, litter, pass, pool, writer, readers,
          pc, call, res, at, faults>>

disk == <<files, survives, dirs, litter>>
locks == <<pool, writer, readers>>

TypeOK ==
  /\ files \in [Keys -> Content]
  /\ survives \in [Keys -> SUBSET Content]
  /\ \A k \in Keys : files[k] \in survives[k]
  /\ dirs \subseteq Dirs
  /\ litter \subseteq Keys
  /\ pass \in Passes
  /\ pool \subseteq Clients /\ Cardinality(pool) <= Permits
  /\ writer \in Clients \cup {Nobody}
  /\ readers \subseteq Clients
  /\ pc \in [Clients -> Step]
  /\ call \in [Clients -> Operation \cup {NoCall}]
  /\ res \in [Clients -> Values \cup {"ok", "nil", "raw", "error", NotYet}]
  /\ at \in [Clients -> Dirs \cup {Root}]
  /\ faults \in 0 .. MaxFaults

Init ==
  /\ files = [k \in Keys |-> NoFile]
  /\ survives = [k \in Keys |-> {NoFile}]
  /\ dirs = {}
  /\ litter = {}
  /\ pass \in Passes
  /\ pool = {}
  /\ writer = Nobody
  /\ readers = {}
  /\ pc = [c \in Clients |-> "idle"]
  /\ call = [c \in Clients |-> NoCall]
  /\ res = [c \in Clients |-> NotYet]
  /\ at = [c \in Clients |-> Root]
  /\ faults = 0

key(c) == call[c].key

Goto(c, s) == pc' = [pc EXCEPT ![c] = s]

Answer(c, r) == res' = [res EXCEPT ![c] = r]

-----------------------------------------------------------------------------
(* Begin and end of an operation. *)

Invoke(c) ==
  /\ pc[c] = "idle"
  /\ Goto(c, "permit")
  /\ \E o \in Operation : call' = [call EXCEPT ![c] = o]
  /\ UNCHANGED <<disk, pass, locks, res, at, faults>>

Acquire(c) ==
  /\ pc[c] = "permit"
  /\ Goto(c, "lock")
  /\ Cardinality(pool) < Permits
  /\ pool' = pool \cup {c}
  /\ UNCHANGED <<disk, pass, writer, readers, call, res, at, faults>>

(* Mutant of Lock: a Delete takes no lock. *)
Lock_DeleteUnlocked(c) ==
  /\ pc[c] = "lock"
  /\ IF call[c].op = "delete"
       THEN UNCHANGED <<readers, writer>>
       ELSE /\ writer = Nobody
            /\ IF call[c].op = "get"
                 THEN readers' = readers \cup {c} /\ UNCHANGED writer
                 ELSE readers = {} /\ writer' = c /\ UNCHANGED readers
  /\ Goto(c, [put |-> "mkdir", delete |-> "remove", get |-> "stat"][call[c].op])
  /\ UNCHANGED <<disk, pass, pool, call, res, at, faults>>

(* Lock for Put and Delete, RLock for Get. *)
Lock(c) ==
  /\ pc[c] = "lock"
  /\ writer = Nobody
  /\ IF call[c].op = "get"
       THEN readers' = readers \cup {c} /\ UNCHANGED writer
       ELSE readers = {} /\ writer' = c /\ UNCHANGED readers
  /\ Goto(c, [put |-> "mkdir", delete |-> "remove", get |-> "stat"][call[c].op])
  /\ UNCHANGED <<disk, pass, pool, call, res, at, faults>>

(* Mutant of Return: an error return keeps the lock. *)
Return_ErrorKeepsLock(c) ==
  /\ pc[c] = "return"
  /\ Goto(c, "idle")
  /\ pool' = pool \ {c}
  /\ writer' = IF writer = c /\ res[c] # "error" THEN Nobody ELSE writer
  /\ readers' = readers \ {c}
  /\ call' = [call EXCEPT ![c] = NoCall]
  /\ Answer(c, NotYet)
  /\ at' = [at EXCEPT ![c] = Root]
  /\ UNCHANGED <<disk, pass, faults>>

(* The deferred Unlock and Release, and the caller has its answer. *)
Return(c) ==
  /\ pc[c] = "return"
  /\ Goto(c, "idle")
  /\ pool' = pool \ {c}
  /\ writer' = IF writer = c THEN Nobody ELSE writer
  /\ readers' = readers \ {c}
  /\ call' = [call EXCEPT ![c] = NoCall]
  /\ Answer(c, NotYet)
  /\ at' = [at EXCEPT ![c] = Root]
  /\ UNCHANGED <<disk, pass, faults>>

-----------------------------------------------------------------------------
(* PutInternal. *)

(* EncryptedStorage.Put, or a plain storage. *)
Seal(v) == [val |-> v, pass |-> pass]

(* One missing directory at a time, from the top. *)
MkdirAll(c) ==
  LET missing == Above(key(c)) \ dirs IN
  /\ pc[c] = "mkdir"
  /\ \/ /\ missing = {}
        /\ Goto(c, "temp")
        /\ UNCHANGED dirs
     \/ /\ \E d \in missing : Up(d) \notin missing /\ dirs' = dirs \cup {d}
        /\ UNCHANGED pc
  /\ UNCHANGED <<files, survives, litter, pass, locks, call, res, at, faults>>

(* CreateTemp fails if the directory is not there (any more). *)
CreateTemp(c) ==
  /\ pc[c] = "temp"
  /\ IF DirOf(key(c)) \in dirs \cup {Root}
       THEN Goto(c, "encode") /\ UNCHANGED res
       ELSE Goto(c, "return") /\ Answer(c, "error")
  /\ UNCHANGED <<disk, pass, locks, call, at, faults>>

(* Mutant of Encode: the target itself is opened and written. *)
Encode_InPlace(c) ==
  /\ pc[c] = "encode"
  /\ Goto(c, "rename")
  /\ files' = [files EXCEPT ![key(c)] = Torn]
  /\ survives' = [survives EXCEPT ![key(c)] = @ \cup {Torn}]
  /\ UNCHANGED <<dirs, litter, pass, locks, call, res, at, faults>>

(* Chmod; the entry is written to the temporary file, which is closed. *)
Encode(c) ==
  /\ pc[c] = "encode"
  /\ Goto(c, "rename")
  /\ UNCHANGED <<disk, pass, locks, call, res, at, faults>>

(* The data may reach the disk after the new name does. *)
Rename(c) ==
  LET e == Seal(call[c].val) IN
  /\ pc[c] = "rename"
  /\ Goto(c, "return")
  /\ files' = [files EXCEPT ![key(c)] = e]
  /\ survives' = [survives EXCEPT ![key(c)] = @ \cup {e, Empty, Torn}]
  /\ Answer(c, "ok")
  /\ UNCHANGED <<dirs, litter, pass, locks, call, at, faults>>

(* Whether client c has a temporary file open or about to be renamed. *)
HasTemp(c) == pc[c] \in {"encode", "rename"}

-----------------------------------------------------------------------------
(* DeleteInternal. *)

(* A file that is not there is no error. *)
Remove(c) ==
  /\ pc[c] = "remove"
  /\ Goto(c, IF DirOf(key(c)) = Root THEN "return" ELSE "cleanup")
  /\ files' = [files EXCEPT ![key(c)] = NoFile]
  /\ survives' = [survives EXCEPT ![key(c)] = @ \cup {NoFile}]
  /\ at' = [at EXCEPT ![c] = DirOf(key(c))]
  /\ Answer(c, "ok")
  /\ UNCHANGED <<dirs, litter, pass, locks, call, faults>>

(* Nothing is in directory d: no file, no temporary file, no directory. *)
IsEmpty(d) ==
  /\ \A k \in Keys : DirOf(k) = d =>
        /\ files[k] = NoFile
        /\ k \notin litter
        /\ \A c \in Clients : HasTemp(c) => key(c) # k
  /\ \A e \in dirs : Up(e) # d

(* Mutant of cleanupLogicalPath: only the innermost directory is tried. *)
cleanupLogicalPath_Innermost(c) ==
  /\ pc[c] = "cleanup"
  /\ Goto(c, "return")
  /\ dirs' = IF IsEmpty(at[c]) THEN dirs \ {at[c]} ELSE dirs
  /\ at' = [at EXCEPT ![c] = Up(@)]
  /\ UNCHANGED <<files, survives, litter, pass, locks, call, res, faults>>

(* From the innermost directory up, an empty one is removed; one that is   *)
(* not there ends the loop.                                                *)
cleanupLogicalPath(c) ==
  LET d == at[c] IN
  /\ pc[c] = "cleanup"
  /\ Goto(c, IF d \in dirs /\ Up(d) # Root THEN "cleanup" ELSE "return")
  /\ dirs' = IF IsEmpty(d) THEN dirs \ {d} ELSE dirs
  /\ at' = [at EXCEPT ![c] = Up(@)]
  /\ UNCHANGED <<files, survives, litter, pass, locks, call, res, faults>>

-----------------------------------------------------------------------------
(* GetInternal. *)

(* A file of size zero counts as no entry, and is going to be removed. *)
Stat(c) ==
  /\ pc[c] = "stat"
  /\ \/ /\ files[key(c)] = Empty
        /\ Goto(c, "unlink")
        /\ Answer(c, "nil")
     \/ /\ files[key(c)] # Empty
        /\ Goto(c, "open")
        /\ UNCHANGED res
  /\ UNCHANGED <<disk, pass, locks, call, at, faults>>

(* Whatever the file is by now. *)
Unlink(c) ==
  /\ pc[c] = "unlink"
  /\ Goto(c, "return")
  /\ files' = [files EXCEPT ![key(c)] = NoFile]
  /\ survives' = [survives EXCEPT ![key(c)] = @ \cup {NoFile}]
  /\ UNCHANGED <<dirs, litter, pass, locks, call, res, at, faults>>

(* EncryptedStorage.Get refuses what was not sealed with its passphrase; a *)
(* plain storage returns whatever bytes are there.                         *)
Decrypted(e) ==
  CASE e.pass = pass -> e.val
    [] e.pass # pass /\ pass = NoPass -> "raw"
    [] OTHER -> "error"

Open(c) ==
  LET e == files[key(c)] IN
  /\ pc[c] = "open"
  /\ Goto(c, "return")
  /\ Answer(c, CASE e = NoFile -> "nil"
                 [] e \in {Empty, Torn} -> "error"
                 [] OTHER -> Decrypted(e))
  /\ UNCHANGED <<disk, pass, locks, call, at, faults>>

-----------------------------------------------------------------------------
(* Failures. *)

Fault == faults < MaxFaults /\ faults' = faults + 1

(* A call of the file system fails.  A Put may leave its temporary file    *)
(* behind (only an Encode that has written nothing removes it); a failed   *)
(* removal of an empty file goes unnoticed.                                *)
Fail(c) ==
  /\ Fault
  /\ \/ /\ pc[c] \in {"mkdir", "temp", "remove", "cleanup", "open"}
        /\ Answer(c, "error")
        /\ UNCHANGED litter
     \/ /\ HasTemp(c)
        /\ Answer(c, "error")
        /\ \/ litter' = litter \cup {key(c)}
           \/ pc[c] = "encode" /\ UNCHANGED litter
     \/ /\ pc[c] = "unlink"
        /\ UNCHANGED <<res, litter>>
  /\ pc' = [pc EXCEPT ![c] = "return"]
  /\ UNCHANGED <<files, survives, dirs, pass, locks, call, at>>

(* The process starts again, perhaps with another passphrase. *)
NewFileBackend ==
  /\ pass' \in Passes
  /\ pool' = {}
  /\ writer' = Nobody
  /\ readers' = {}
  /\ pc' = [c \in Clients |-> "idle"]
  /\ call' = [c \in Clients |-> NoCall]
  /\ res' = [c \in Clients |-> NotYet]
  /\ at' = [c \in Clients |-> Root]

(* Keys of the temporary files in use. *)
Temps == {key(c) : c \in {x \in Clients : HasTemp(x)}}

Restart ==
  /\ Fault
  /\ NewFileBackend
  /\ litter' = litter \cup Temps
  /\ UNCHANGED <<files, survives, dirs>>

(* What the operating system writes back by itself. *)
Sync(k) ==
  /\ survives[k] # {files[k]}
  /\ survives' = [survives EXCEPT ![k] = {files[k]}]
  /\ UNCHANGED <<files, dirs, litter, pass, locks, pc, call, res, at, faults>>

(* Each file is left in some state it was in since it was last synced;     *)
(* directories and temporary files as they may be.                         *)
PowerLoss ==
  /\ Fault
  /\ NewFileBackend
  /\ files' \in [Keys -> UNION {survives[k] : k \in Keys}]
  /\ \A k \in Keys : files'[k] \in survives[k]
  /\ survives' = [k \in Keys |-> {files'[k]}]
  /\ litter' \in SUBSET (litter \cup Temps \cup {k \in Keys : survives[k] # {files[k]}})
  /\ dirs' \in SUBSET Dirs
  /\ \A k \in Keys : files'[k] # NoFile \/ k \in litter' => Above(k) \subseteq dirs'
  /\ \A d \in dirs' : Up(d) \in dirs' \cup {Root}

-----------------------------------------------------------------------------
Work(c) ==
  \/ MkdirAll(c) \/ CreateTemp(c) \/ Encode(c) \/ Rename(c)
  \/ Remove(c) \/ cleanupLogicalPath(c)
  \/ Stat(c) \/ Unlink(c) \/ Open(c)
  \/ Return(c)

Next ==
  \/ \E c \in Clients : Invoke(c) \/ Acquire(c) \/ Lock(c) \/ Work(c) \/ Fail(c)
  \/ \E k \in Keys : Sync(k)
  \/ Restart
  \/ PowerLoss

Spec == Init /\ [][Next]_vars

-----------------------------------------------------------------------------
(* Put, Get and Delete are atomic whatever runs beside them, a failed Put  *)
(* has changed nothing, and the end of the process at any point undoes no  *)
(* more than the operations that were not answered (PutInternal writes     *)
(* aside and renames).                                                     *)
View(e) == IF e \in {NoFile, Empty} THEN NoFile ELSE e

Map == INSTANCE AtomicMap WITH
  kv <- [k \in Keys |-> View(files[k])],
  backlog <- [k \in Keys |-> {View(e) : e \in survives[k]}],
  Absent <- NoFile

ImplementsAtomicMap == Map!Spec

(* A Put that has made its directories still finds them when it creates    *)
(* its file: no Delete cleans them up in between (PutInternal against      *)
(* cleanupLogicalPath).                                                    *)
DirectoriesStay ==
  \A c \in Clients : pc[c] = "temp" \/ HasTemp(c) => Above(key(c)) \subseteq dirs

(* As long as nothing fails, what is on the disk between two writers is    *)
(* the files of the keys that are set and the directories these need:      *)
(* neither temporary files nor empty directories stay (PutInternal,        *)
(* cleanupLogicalPath).                                                    *)
Tidy ==
  faults = 0 /\ writer = Nobody =>
     /\ litter = {}
     /\ dirs = UNION {Above(k) : k \in {x \in Keys : files[x] # NoFile}}

(* Nobody waits for good: a permit or the lock is held by an operation     *)
(* that is under way, the lock by one that is past all waiting, so that it *)
(* comes to its deferred Unlock and Release, also after an error; and a    *)
(* writer is alone (Put, Get, Delete).                                     *)
HeldByWorkers ==
  /\ pool = {c \in Clients : pc[c] \notin {"idle", "permit"}}
  /\ \A c \in readers \cup ({writer} \ {Nobody}) :
        pc[c] \notin {"idle", "permit", "lock"}
  /\ writer # Nobody => readers = {}

=============================================================================
