------------------------- MODULE FileStorageProofs -------------------------
(***************************************************************************)
(* Proofs about FileStorage, for all keys, directories, clients and        *)
(* passphrases, any number of permits and of faults.                       *)
(*                                                                         *)
(* The argument: an operation that changes a file holds the lock alone,    *)
(* one that reads holds it shared (LockInv), so between Stat and Unlink a  *)
(* file stays empty or absent and a Put keeps its directories; and an      *)
(* operation has its result from the step in which it takes effect         *)
(* (CallInv), which is the step of the atomic map.                         *)
(***************************************************************************)
EXTENDS FileStorage, FiniteSetTheorems, TLAPS

PutSteps == {"mkdir", "temp", "encode", "rename"}
DeleteSteps == {"remove", "cleanup"}
GetSteps == {"stat", "unlink", "open"}
Waiting == {"idle", "permit", "lock"}
Decided == {"cleanup", "unlink", "return"}

(* Who works on files holds the lock as the operation needs it. *)
LockInv ==
  /\ IsFiniteSet(pool)
  /\ \A c \in Clients :
       /\ pc[c] \in PutSteps \cup DeleteSteps => writer = c
       /\ pc[c] \in GetSteps => c \in readers

(* What an operation is at each of its steps, and when it has its result. *)
CallInv ==
  \A c \in Clients :
     /\ pc[c] = "idle" <=> call[c] = NoCall
     /\ pc[c] \in PutSteps => call[c].op = "put"
     /\ pc[c] \in DeleteSteps => call[c].op = "delete"
     /\ pc[c] \in GetSteps => call[c].op = "get"
     /\ pc[c] \in Decided <=> res[c] # NotYet
     /\ pc[c] = "cleanup" => at[c] \in Above(key(c))
     /\ pc[c] = "unlink" => files[key(c)] \in {Empty, NoFile}

IInv ==
  /\ TypeOK
  /\ LockInv
  /\ CallInv
  /\ HeldByWorkers
  /\ DirectoriesStay

-----------------------------------------------------------------------------
(* The directories of a key: a path up to the configured directory. *)
LEMMA KeyPath ==
  ASSUME NEW k \in Keys
  PROVE  /\ Above(k) \subseteq Dirs
         /\ DirOf(k) \in Above(k) \cup {Root}
         /\ DirOf(k) = Root => Above(k) = {}
         /\ \A d \in Above(k) : Up(d) \in Above(k) \cup {Root}
<1>1. CASE DirOf(k) = Root
  BY <1>1, FileStorageAssumption, Zenon DEF Above
<1>2. CASE DirOf(k) \in Dirs
  BY <1>2, FileStorageAssumption DEF Above
<1>3. QED
  BY <1>1, <1>2, FileStorageAssumption, Zenon

(* What the proofs need to know of the constants. *)
LEMMA StorageFacts ==
  /\ Permits \in Nat \ {0}
  /\ MaxFaults \in Nat
  /\ NoPass \in Passes
  /\ Root \notin Dirs
  /\ \A k \in Keys : /\ Above(k) \subseteq Dirs
                     /\ DirOf(k) \in Above(k) \cup {Root}
                     /\ DirOf(k) = Root => Above(k) = {}
                     /\ \A d \in Above(k) : Up(d) \in Above(k) \cup {Root}
  /\ Nobody \notin Clients
  /\ NoCall \notin Operation
  /\ NotYet \notin Values \cup {"ok", "nil", "raw", "error"}
  /\ Empty # Torn /\ Empty # NoFile /\ NoFile # Torn
  /\ {Empty, Torn, NoFile} \cap Entry = {}
  BY FileStorageAssumption, KeyPath, Zenon

(* A client with an operation has a key and, for a Put, a value. *)
LEMMA OperationType ==
  ASSUME NEW o \in Operation
  PROVE  /\ o.key \in Keys
         /\ o.op \in {"put", "get", "delete"}
         /\ o.op = "put" => o.val \in Values
         /\ o # NoCall
  BY StorageFacts, Zenon DEF Operation

(* The first state. *)
LEMMA InitInv == Init => IInv
<1> SUFFICES ASSUME Init PROVE IInv
  BY Zenon
<1> USE DEF Init
<1>1. Cardinality(pool) = 0 /\ IsFiniteSet(pool)
  BY FS_EmptySet, Zenon
<1>2. TypeOK
  BY <1>1, StorageFacts DEF TypeOK, Content, Step
<1>3. LockInv
  BY <1>1, Zenon DEF LockInv, PutSteps, DeleteSteps, GetSteps
<1>4. CallInv
  BY Zenon DEF CallInv, PutSteps, DeleteSteps, GetSteps, Decided
<1>5. HeldByWorkers
  BY Zenon DEF HeldByWorkers
<1>6. DirectoriesStay
  BY Zenon DEF DirectoriesStay, HasTemp
<1>7. QED
  BY <1>2, <1>3, <1>4, <1>5, <1>6, Zenon DEF IInv

(* One client more or less in a pool. *)
LEMMA PoolSize ==
  ASSUME NEW S, NEW x, IsFiniteSet(S)
  PROVE  /\ IsFiniteSet(S \cup {x}) /\ IsFiniteSet(S \ {x})
         /\ Cardinality(S) \in Nat
         /\ Cardinality(S \cup {x}) \in Nat
         /\ Cardinality(S \ {x}) \in Nat
         /\ Cardinality(S \cup {x}) <= Cardinality(S) + 1
         /\ Cardinality(S \ {x}) <= Cardinality(S)
<1>1. /\ IsFiniteSet(S \cup {x})
      /\ Cardinality(S \cup {x}) \in {Cardinality(S), Cardinality(S) + 1}
  BY FS_AddElement, Zenon
<1>2. /\ IsFiniteSet(S \ {x})
      /\ Cardinality(S \ {x}) \in {Cardinality(S), Cardinality(S) - 1}
  BY FS_RemoveElement, Zenon
<1>3. /\ Cardinality(S) \in Nat
      /\ Cardinality(S \cup {x}) \in Nat
      /\ Cardinality(S \ {x}) \in Nat
  BY <1>1, <1>2, FS_CardinalityType, Zenon
<1>4. QED
  BY <1>1, <1>2, <1>3

(* Where Lock leads to. *)
LEMMA LockTarget ==
  ASSUME IInv, NEW c \in Clients, Lock(c)
  PROVE  \E s \in {"mkdir", "remove", "stat"} :
            /\ pc' = [pc EXCEPT ![c] = s]
            /\ call[c].op = [mkdir |-> "put", remove |-> "delete", stat |-> "get"][s]
<1>1. call[c] \in Operation
  BY Zenon DEF IInv, TypeOK, CallInv, Lock
<1>2. call[c].op \in {"put", "delete", "get"}
  BY <1>1, OperationType, Zenon
<1>3. CASE call[c].op = "put"
  <2>1. pc' = [pc EXCEPT ![c] = "mkdir"]
    BY <1>3 DEF Lock, Goto
  <2>2. QED
    BY <1>3, <2>1, Zenon
<1>4. CASE call[c].op = "delete"
  <2>1. pc' = [pc EXCEPT ![c] = "remove"]
    BY <1>4 DEF Lock, Goto
  <2>2. QED
    BY <1>4, <2>1, Zenon
<1>5. CASE call[c].op = "get"
  <2>1. pc' = [pc EXCEPT ![c] = "stat"]
    BY <1>5 DEF Lock, Goto
  <2>2. QED
    BY <1>5, <2>1, Zenon
<1>6. QED
  BY <1>2, <1>3, <1>4, <1>5, Zenon

(* A Get answers with a value, or one of its other results. *)
LEMMA OpenResult ==
  ASSUME IInv, NEW c \in Clients, Open(c)
  PROVE  \E r \in Values \cup {"nil", "raw", "error"} :
            res' = [res EXCEPT ![c] = r]
<1> DEFINE e == files[key(c)]
<1>1. e \in Content
  BY OperationType, Zenon DEF IInv, TypeOK, CallInv, Open, key
<1>2. e \in Entry => Decrypted(e) \in Values \cup {"raw", "error"}
  BY Zenon DEF Decrypted, Entry
<1>3. CASE e = NoFile
  BY <1>3, Zenon DEF Open, Answer
<1>4. CASE e # NoFile /\ e \in {Empty, Torn}
  BY <1>4, Zenon DEF Open, Answer
<1>5. CASE e \notin {NoFile, Empty, Torn}
  BY <1>1, <1>2, <1>5, Zenon DEF Open, Answer, Content
<1>6. QED
  BY <1>3, <1>4, <1>5, Zenon

(* Every step keeps the types. *)
LEMMA TypeStep ==
  ASSUME IInv, Next
  PROVE  TypeOK'
<1> USE OperationType, StorageFacts, FS_EmptySet
    DEF IInv, TypeOK, CallInv, Goto, Answer, key, Step, Content, disk, locks,
        Fault, HasTemp
<1>1. ASSUME NEW c \in Clients, Invoke(c) PROVE TypeOK'
  BY <1>1 DEF Invoke
<1>2. ASSUME NEW c \in Clients, Acquire(c) PROVE TypeOK'
  <2>1. IsFiniteSet(pool)
    BY Zenon DEF LockInv
  <2>2. /\ Cardinality(pool \cup {c}) \in Nat
        /\ Cardinality(pool) \in Nat
        /\ Cardinality(pool \cup {c}) <= Cardinality(pool) + 1
    BY <2>1, PoolSize, Zenon
  <2>3. QED
    BY <1>2, <2>2 DEF Acquire
<1>3. ASSUME NEW c \in Clients, Lock(c) PROVE TypeOK'
  <2>1. PICK s \in {"mkdir", "remove", "stat"} :
           /\ pc' = [pc EXCEPT ![c] = s]
           /\ s = "stat" <=> call[c].op = "get"
    BY <1>3, LockTarget
  <2>2. QED
    BY <1>3, <2>1 DEF Lock
<1>4. ASSUME NEW c \in Clients, Return(c) PROVE TypeOK'
  <2>1. IsFiniteSet(pool)
    BY Zenon DEF LockInv
  <2>2. /\ Cardinality(pool \ {c}) \in Nat
        /\ Cardinality(pool) \in Nat
        /\ Cardinality(pool \ {c}) <= Cardinality(pool)
    BY <2>1, PoolSize, Zenon
  <2>3. QED
    BY <1>4, <2>2 DEF Return
<1>5. ASSUME NEW c \in Clients, MkdirAll(c) PROVE TypeOK'
  BY <1>5 DEF MkdirAll
<1>6. ASSUME NEW c \in Clients, CreateTemp(c) PROVE TypeOK'
  BY <1>6 DEF CreateTemp
<1>7. ASSUME NEW c \in Clients, Encode(c) PROVE TypeOK'
  BY <1>7, Zenon DEF Encode
<1>8. ASSUME NEW c \in Clients, Rename(c) PROVE TypeOK'
  BY <1>8 DEF Rename, Seal, Entry, PutSteps
<1>9. ASSUME NEW c \in Clients, Remove(c) PROVE TypeOK'
  BY <1>9 DEF Remove
<1>10. ASSUME NEW c \in Clients, cleanupLogicalPath(c) PROVE TypeOK'
  BY <1>10, Zenon DEF cleanupLogicalPath
<1>11. ASSUME NEW c \in Clients, Stat(c) PROVE TypeOK'
  BY <1>11 DEF Stat
<1>12. ASSUME NEW c \in Clients, Unlink(c) PROVE TypeOK'
  BY <1>12 DEF Unlink
<1>13. ASSUME NEW c \in Clients, Open(c) PROVE TypeOK'
  <2>1. PICK r \in Values \cup {"nil", "raw", "error"} :
           res' = [res EXCEPT ![c] = r]
    BY <1>13, OpenResult, Zenon
  <2>2. QED
    BY <1>13, <2>1 DEF Open
<1>14. ASSUME NEW c \in Clients, Fail(c) PROVE TypeOK'
  BY <1>14 DEF Fail
<1>15. ASSUME NEW k \in Keys, Sync(k) PROVE TypeOK'
  BY <1>15 DEF Sync
<1>16. ASSUME Restart PROVE TypeOK'
  BY <1>16 DEF Restart, NewFileBackend, Fault, Temps
<1>17. ASSUME PowerLoss PROVE TypeOK'
  BY <1>17, SMTT(30) DEF PowerLoss, NewFileBackend, Fault, Temps
<1>18. QED
  BY <1>1, <1>2, <1>3, <1>4, <1>5, <1>6, <1>7, <1>8, <1>9, <1>10, <1>11,
     <1>12, <1>13, <1>14, <1>15, <1>16, <1>17, Zenon DEF Next, Work

(* Every step keeps LockInv: the lock excludes. *)
LEMMA LockStep ==
  ASSUME IInv, Next
  PROVE  LockInv'
<1> USE StorageFacts, FS_EmptySet
    DEF IInv, TypeOK, LockInv, HeldByWorkers, Goto, PutSteps, DeleteSteps,
        GetSteps, disk, locks
<1>1. ASSUME NEW c \in Clients, Invoke(c) PROVE LockInv'
  BY <1>1, ZenonT(30) DEF Invoke
<1>2. ASSUME NEW c \in Clients, Acquire(c) PROVE LockInv'
  BY <1>2, PoolSize, ZenonT(30) DEF Acquire
<1>3. ASSUME NEW c \in Clients, Lock(c) PROVE LockInv'
  <2>1. PICK s \in {"mkdir", "remove", "stat"} :
           /\ pc' = [pc EXCEPT ![c] = s]
           /\ s = "stat" <=> call[c].op = "get"
    BY <1>3, LockTarget
  <2>2. QED
    BY <1>3, <2>1 DEF Lock
<1>4. ASSUME NEW c \in Clients, Return(c) PROVE LockInv'
  BY <1>4, PoolSize, Zenon DEF Return
<1>5. ASSUME NEW c \in Clients, MkdirAll(c) PROVE LockInv'
  BY <1>5, ZenonT(30) DEF MkdirAll
<1>6. ASSUME NEW c \in Clients, CreateTemp(c) PROVE LockInv'
  BY <1>6 DEF CreateTemp
<1>7. ASSUME NEW c \in Clients, Encode(c) PROVE LockInv'
  BY <1>7, Zenon DEF Encode
<1>8. ASSUME NEW c \in Clients, Rename(c) PROVE LockInv'
  BY <1>8, Zenon DEF Rename
<1>9. ASSUME NEW c \in Clients, Remove(c) PROVE LockInv'
  BY <1>9, Zenon DEF Remove
<1>10. ASSUME NEW c \in Clients, cleanupLogicalPath(c) PROVE LockInv'
  BY <1>10, Zenon DEF cleanupLogicalPath
<1>11. ASSUME NEW c \in Clients, Stat(c) PROVE LockInv'
  BY <1>11 DEF Stat
<1>12. ASSUME NEW c \in Clients, Unlink(c) PROVE LockInv'
  BY <1>12, Zenon DEF Unlink
<1>13. ASSUME NEW c \in Clients, Open(c) PROVE LockInv'
  BY <1>13, Zenon DEF Open
<1>14. ASSUME NEW c \in Clients, Fail(c) PROVE LockInv'
  BY <1>14, Zenon DEF Fail
<1>15. ASSUME NEW k \in Keys, Sync(k) PROVE LockInv'
  BY <1>15, Zenon DEF Sync
<1>16. ASSUME Restart PROVE LockInv'
  BY <1>16, Zenon DEF Restart, NewFileBackend, Fault, Temps
<1>17. ASSUME PowerLoss PROVE LockInv'
  BY <1>17, SMTT(30) DEF PowerLoss, NewFileBackend, Fault, Temps
<1>18. QED
  BY <1>1, <1>2, <1>3, <1>4, <1>5, <1>6, <1>7, <1>8, <1>9, <1>10, <1>11,
     <1>12, <1>13, <1>14, <1>15, <1>16, <1>17, Zenon DEF Next, Work

(* Every step keeps HeldByWorkers. *)
LEMMA HeldStep ==
  ASSUME IInv, Next
  PROVE  HeldByWorkers'
<1> USE StorageFacts
    DEF IInv, TypeOK, LockInv, HeldByWorkers, Goto, PutSteps, DeleteSteps,
        GetSteps, disk, locks, HasTemp
<1>1. ASSUME NEW c \in Clients, Invoke(c) PROVE HeldByWorkers'
  BY <1>1 DEF Invoke
<1>2. ASSUME NEW c \in Clients, Acquire(c) PROVE HeldByWorkers'
  BY <1>2 DEF Acquire
<1>3. ASSUME NEW c \in Clients, Lock(c) PROVE HeldByWorkers'
  <2>1. PICK s \in {"mkdir", "remove", "stat"} :
           /\ pc' = [pc EXCEPT ![c] = s]
           /\ s = "stat" <=> call[c].op = "get"
    BY <1>3, LockTarget
  <2>2. QED
    BY <1>3, <2>1 DEF Lock
<1>4. ASSUME NEW c \in Clients, Return(c) PROVE HeldByWorkers'
  BY <1>4 DEF Return
<1>5. ASSUME NEW c \in Clients, MkdirAll(c) PROVE HeldByWorkers'
  BY <1>5 DEF MkdirAll
<1>6. ASSUME NEW c \in Clients, CreateTemp(c) PROVE HeldByWorkers'
  BY <1>6 DEF CreateTemp
<1>7. ASSUME NEW c \in Clients, Encode(c) PROVE HeldByWorkers'
  BY <1>7 DEF Encode
<1>8. ASSUME NEW c \in Clients, Rename(c) PROVE HeldByWorkers'
  BY <1>8 DEF Rename
<1>9. ASSUME NEW c \in Clients, Remove(c) PROVE HeldByWorkers'
  BY <1>9 DEF Remove
<1>10. ASSUME NEW c \in Clients, cleanupLogicalPath(c) PROVE HeldByWorkers'
  BY <1>10 DEF cleanupLogicalPath
<1>11. ASSUME NEW c \in Clients, Stat(c) PROVE HeldByWorkers'
  BY <1>11, Zenon DEF Stat
<1>12. ASSUME NEW c \in Clients, Unlink(c) PROVE HeldByWorkers'
  BY <1>12, Zenon DEF Unlink
<1>13. ASSUME NEW c \in Clients, Open(c) PROVE HeldByWorkers'
  BY <1>13, Zenon DEF Open
<1>14. ASSUME NEW c \in Clients, Fail(c) PROVE HeldByWorkers'
  BY <1>14 DEF Fail
<1>15. ASSUME NEW k \in Keys, Sync(k) PROVE HeldByWorkers'
  BY <1>15, Zenon DEF Sync
<1>16. ASSUME Restart PROVE HeldByWorkers'
  BY <1>16, Zenon DEF Restart, NewFileBackend, Fault, Temps
<1>17. ASSUME PowerLoss PROVE HeldByWorkers'
  BY <1>17, SMTT(30) DEF PowerLoss, NewFileBackend, Fault, Temps
<1>18. QED
  BY <1>1, <1>2, <1>3, <1>4, <1>5, <1>6, <1>7, <1>8, <1>9, <1>10, <1>11,
     <1>12, <1>13, <1>14, <1>15, <1>16, <1>17, Zenon DEF Next, Work

(* Every step keeps CallInv. *)
LEMMA CallStep ==
  ASSUME IInv, Next
  PROVE  CallInv'
<1> USE OperationType, StorageFacts
    DEF IInv, TypeOK, LockInv, HeldByWorkers, CallInv, Goto, Answer, key,
        PutSteps, DeleteSteps, GetSteps, Decided, disk, locks
<1>1. ASSUME NEW c \in Clients, Invoke(c) PROVE CallInv'
  BY <1>1 DEF Invoke
<1>2. ASSUME NEW c \in Clients, Acquire(c) PROVE CallInv'
  BY <1>2, SMTT(30) DEF Acquire
<1>3. ASSUME NEW c \in Clients, Lock(c) PROVE CallInv'
  <2>1. PICK s \in {"mkdir", "remove", "stat"} :
           /\ pc' = [pc EXCEPT ![c] = s]
           /\ call[c].op = [mkdir |-> "put", remove |-> "delete", stat |-> "get"][s]
    BY <1>3, LockTarget, Zenon
  <2>2. QED
    BY <1>3, <2>1, SMTT(30) DEF Lock
<1>4. ASSUME NEW c \in Clients, Return(c) PROVE CallInv'
  BY <1>4 DEF Return
<1>5. ASSUME NEW c \in Clients, MkdirAll(c) PROVE CallInv'
  BY <1>5 DEF MkdirAll
<1>6. ASSUME NEW c \in Clients, CreateTemp(c) PROVE CallInv'
  BY <1>6 DEF CreateTemp
<1>7. ASSUME NEW c \in Clients, Encode(c) PROVE CallInv'
  BY <1>7 DEF Encode
<1>8. ASSUME NEW c \in Clients, Rename(c) PROVE CallInv'
  BY <1>8 DEF Rename
<1>9. ASSUME NEW c \in Clients, Remove(c) PROVE CallInv'
  BY <1>9 DEF Remove
<1>10. ASSUME NEW c \in Clients, cleanupLogicalPath(c) PROVE CallInv'
  BY <1>10 DEF cleanupLogicalPath
<1>11. ASSUME NEW c \in Clients, Stat(c) PROVE CallInv'
  BY <1>11 DEF Stat
<1>12. ASSUME NEW c \in Clients, Unlink(c) PROVE CallInv'
  BY <1>12 DEF Unlink
<1>13. ASSUME NEW c \in Clients, Open(c) PROVE CallInv'
  <2>1. PICK r \in Values \cup {"nil", "raw", "error"} :
           res' = [res EXCEPT ![c] = r]
    BY <1>13, OpenResult, Zenon
  <2>2. QED
    BY <1>13, <2>1 DEF Open
<1>14. ASSUME NEW c \in Clients, Fail(c) PROVE CallInv'
  BY <1>14 DEF Fail, HasTemp
<1>15. ASSUME NEW k \in Keys, Sync(k) PROVE CallInv'
  BY <1>15, Zenon DEF Sync
<1>16. ASSUME Restart PROVE CallInv'
  BY <1>16, Zenon DEF Restart, NewFileBackend, Fault, Temps
<1>17. ASSUME PowerLoss PROVE CallInv'
  BY <1>17, SMTT(30) DEF PowerLoss, NewFileBackend, Fault, Temps
<1>18. QED
  BY <1>1, <1>2, <1>3, <1>4, <1>5, <1>6, <1>7, <1>8, <1>9, <1>10, <1>11,
     <1>12, <1>13, <1>14, <1>15, <1>16, <1>17, ZenonT(30) DEF Next, Work

(* Every step keeps DirectoriesStay: who cleans up holds the lock alone. *)
LEMMA DirectoriesStep ==
  ASSUME IInv, Next
  PROVE  DirectoriesStay'
<1> USE OperationType, StorageFacts
    DEF IInv, TypeOK, LockInv, CallInv, HeldByWorkers, DirectoriesStay,
        HasTemp, Goto, key, PutSteps, DeleteSteps, GetSteps, disk, locks
<1>1. ASSUME NEW c \in Clients, Invoke(c) PROVE DirectoriesStay'
  BY <1>1 DEF Invoke
<1>2. ASSUME NEW c \in Clients, Acquire(c) PROVE DirectoriesStay'
  BY <1>2, SMTT(30) DEF Acquire
<1>3. ASSUME NEW c \in Clients, Lock(c) PROVE DirectoriesStay'
  <2>1. PICK s \in {"mkdir", "remove", "stat"} :
           /\ pc' = [pc EXCEPT ![c] = s]
           /\ s = "stat" <=> call[c].op = "get"
    BY <1>3, LockTarget
  <2>2. QED
    BY <1>3, <2>1, SMTT(30) DEF Lock
<1>4. ASSUME NEW c \in Clients, Return(c) PROVE DirectoriesStay'
  BY <1>4 DEF Return
<1>5. ASSUME NEW c \in Clients, MkdirAll(c) PROVE DirectoriesStay'
  BY <1>5 DEF MkdirAll
<1>6. ASSUME NEW c \in Clients, CreateTemp(c) PROVE DirectoriesStay'
  BY <1>6 DEF CreateTemp
<1>7. ASSUME NEW c \in Clients, Encode(c) PROVE DirectoriesStay'
  BY <1>7 DEF Encode
<1>8. ASSUME NEW c \in Clients, Rename(c) PROVE DirectoriesStay'
  BY <1>8 DEF Rename
<1>9. ASSUME NEW c \in Clients, Remove(c) PROVE DirectoriesStay'
  BY <1>9 DEF Remove
<1>10. ASSUME NEW c \in Clients, cleanupLogicalPath(c) PROVE DirectoriesStay'
  BY <1>10 DEF cleanupLogicalPath
<1>11. ASSUME NEW c \in Clients, Stat(c) PROVE DirectoriesStay'
  BY <1>11 DEF Stat
<1>12. ASSUME NEW c \in Clients, Unlink(c) PROVE DirectoriesStay'
  BY <1>12 DEF Unlink
<1>13. ASSUME NEW c \in Clients, Open(c) PROVE DirectoriesStay'
  BY <1>13, SMTT(30) DEF Open
<1>14. ASSUME NEW c \in Clients, Fail(c) PROVE DirectoriesStay'
  BY <1>14 DEF Fail
<1>15. ASSUME NEW k \in Keys, Sync(k) PROVE DirectoriesStay'
  BY <1>15, Zenon DEF Sync
<1>16. ASSUME Restart PROVE DirectoriesStay'
  BY <1>16, Zenon DEF Restart, NewFileBackend, Fault, Temps
<1>17. ASSUME PowerLoss PROVE DirectoriesStay'
  BY <1>17, Zenon DEF PowerLoss, NewFileBackend, Fault, Temps
<1>18. QED
  BY <1>1, <1>2, <1>3, <1>4, <1>5, <1>6, <1>7, <1>8, <1>9, <1>10, <1>11,
     <1>12, <1>13, <1>14, <1>15, <1>16, <1>17, Zenon DEF Next, Work

-----------------------------------------------------------------------------
(* The inductive invariant. *)
THEOREM Invariance == Spec => []IInv
<1>1. IInv /\ [Next]_vars => IInv'
  <2> SUFFICES ASSUME IInv, [Next]_vars PROVE IInv'
    BY Zenon
  <2>1. CASE Next
    BY <2>1, TypeStep, LockStep, HeldStep, CallStep, DirectoriesStep, SMTT(30) DEF IInv
  <2>2. CASE UNCHANGED vars
    BY <2>2, Zenon DEF vars, IInv, TypeOK, LockInv, CallInv, HeldByWorkers,
                DirectoriesStay, HasTemp, key
  <2>3. QED
    BY <2>1, <2>2, Zenon
<1>2. QED
  BY InitInv, <1>1, PTL DEF Spec

(* Types, and no more permits in use than there are (Acquire, Release). *)
THEOREM StorageTypes == Spec => []TypeOK
  BY Invariance, PTL DEF IInv

(* A Put finds the directories it has made, whatever a Delete cleans up    *)
(* (PutInternal, cleanupLogicalPath).                                      *)
THEOREM DirectoriesKept == Spec => []DirectoriesStay
  BY Invariance, PTL DEF IInv

(* Locks and permits are held by operations on their way to giving them    *)
(* back (Put, Get, Delete).                                                *)
THEOREM LocksReturned == Spec => []HeldByWorkers
  BY Invariance, PTL DEF IInv

-----------------------------------------------------------------------------
(* What stays on the disk while nothing fails. *)

(* The directories that the files in the store are in. *)
Needed == UNION {Above(k) : k \in {x \in Keys : files[x] # NoFile}}

(* Without a fault no file is empty or torn, so that no Get removes one. *)
Whole ==
  /\ \A k \in Keys : files[k] \notin {Empty, Torn}
  /\ \A c \in Clients : pc[c] # "unlink"

Rooted == \A d \in dirs : Up(d) \in dirs \cup {Root}

(* The directories that are not needed: those a Put is making, and those a *)
(* Delete has not come to yet.                                             *)
Spare(c) ==
  /\ pc[c] \in PutSteps => dirs \subseteq Needed \cup Above(key(c))
  /\ pc[c] \in {"remove", "return"} => dirs \subseteq Needed
  /\ pc[c] = "cleanup" => /\ dirs \subseteq Needed \cup Path(at[c])
                          /\ at[c] \in dirs \/ dirs \subseteq Needed

TidyInv ==
  faults = 0 =>
    /\ litter = {}
    /\ Whole
    /\ Rooted
    /\ Needed \subseteq dirs
    /\ writer = Nobody => dirs \subseteq Needed
    /\ \A c \in Clients : writer = c => Spare(c)

LEMMA IsNeeded ==
  ASSUME NEW d
  PROVE  /\ d \in Needed <=> \E k \in Keys : files[k] # NoFile /\ d \in Above(k)
         /\ d \in Needed' <=> \E k \in Keys : files'[k] # NoFile /\ d \in Above(k)
  BY Zenon DEF Needed

(* The directory above a needed one is needed. *)
LEMMA NeededUp ==
  ASSUME NEW d \in Needed
  PROVE  Up(d) \in Needed \cup {Root}
<1>1. PICK k \in Keys : files[k] # NoFile /\ d \in Above(k)
  BY IsNeeded, Zenon
<1>2. Up(d) \in Above(k) \cup {Root}
  BY <1>1, KeyPath, Zenon
<1>3. QED
  BY <1>1, <1>2, IsNeeded, Zenon

(* An empty directory is not needed; one that is not empty is needed, if   *)
(* no directory in it is spare.                                            *)
LEMMA EmptyIsSpare ==
  ASSUME NEW d \in Dirs, IsEmpty(d), Needed \subseteq dirs
  PROVE  d \notin Needed
<1> SUFFICES ASSUME d \in Needed PROVE FALSE
  BY Zenon
<1>1. PICK k \in Keys : files[k] # NoFile /\ d \in Above(k)
  BY IsNeeded, Zenon
<1>2. DirOf(k) # d
  BY <1>1, Zenon DEF IsEmpty
<1>3. DirOf(k) \in Dirs
  BY <1>1, KeyPath, FileStorageAssumption, Zenon
<1>4. PICK f \in Above(k) : Up(f) = d
  BY <1>1, <1>2, <1>3, FileStorageAssumption, Zenon DEF Above
<1>5. f \in dirs
  BY <1>1, <1>4, IsNeeded, Zenon
<1>6. QED
  BY <1>4, <1>5, Zenon DEF IsEmpty

LEMMA FullIsNeeded ==
  ASSUME NEW d \in Dirs, ~ IsEmpty(d), litter = {},
         \A c \in Clients : ~ HasTemp(c),
         \A e \in dirs : Up(e) = d => e \in Needed
  PROVE  d \in Needed
<1>1. Root \notin Dirs
  BY FileStorageAssumption, Zenon
<1>2. CASE \E k \in Keys : DirOf(k) = d /\ files[k] # NoFile
  <2>1. PICK k \in Keys : DirOf(k) = d /\ files[k] # NoFile
    BY <1>2, Zenon
  <2>2. d \in Above(k)
    BY <1>1, <2>1, KeyPath, Zenon
  <2>3. QED
    BY <2>1, <2>2, IsNeeded, Zenon
<1>3. CASE \E e \in dirs : Up(e) = d
  <2>1. PICK e \in dirs : Up(e) = d
    BY <1>3, Zenon
  <2>2. e \in Needed
    BY <2>1, Zenon
  <2>3. QED
    BY <1>1, <2>1, <2>2, NeededUp, Zenon
<1>4. QED
  BY <1>2, <1>3, Zenon DEF IsEmpty

(* The writer works alone. *)
LEMMA Alone ==
  ASSUME IInv, NEW c \in Clients, writer = c, NEW b \in Clients, b # c
  PROVE  pc[b] \in Waiting \cup {"return"}
<1>1. pc[b] \in Step
  BY Zenon DEF IInv, TypeOK
<1>2. pc[b] \notin PutSteps \cup DeleteSteps
  BY Zenon DEF IInv, LockInv
<1>3. writer # Nobody
  BY FileStorageAssumption, Zenon
<1>4. readers = {}
  BY <1>3, Zenon DEF IInv, HeldByWorkers
<1>5. pc[b] \notin GetSteps
  BY <1>4, Zenon DEF IInv, LockInv
<1>6. QED
  BY <1>1, <1>2, <1>5, Zenon DEF Step, PutSteps, DeleteSteps, GetSteps, Waiting

LEMMA CleanupTidy ==
  ASSUME IInv, TidyInv, faults = 0, NEW c \in Clients, cleanupLogicalPath(c)
  PROVE  TidyInv'
<1> DEFINE d == at[c]
<1>1. /\ pc[c] = "cleanup" /\ writer = c /\ d \in Dirs /\ d # Root
      /\ Up(d) \in Dirs \cup {Root}
      /\ Path(d) = Path(Up(d)) \cup {d}
      /\ key(c) \in Keys
  <2>1. pc[c] = "cleanup"
    BY Zenon DEF cleanupLogicalPath
  <2>2. writer = c
    BY <2>1, Zenon DEF IInv, LockInv, DeleteSteps
  <2>3. call[c] # NoCall /\ d \in Above(key(c))
    BY <2>1, Zenon DEF IInv, CallInv
  <2>4. key(c) \in Keys
    BY <2>3, OperationType, Zenon DEF IInv, TypeOK, key
  <2>5. d \in Dirs
    BY <2>3, <2>4, KeyPath, Zenon
  <2>6. QED
    BY <2>1, <2>2, <2>4, <2>5, FileStorageAssumption, Zenon
<1>2. /\ litter = {} /\ Whole /\ Rooted /\ Needed \subseteq dirs
      /\ dirs \subseteq Needed \cup Path(d)
      /\ d \in dirs \/ dirs \subseteq Needed
  BY <1>1, Zenon DEF TidyInv, Spare
<1>3. \A b \in Clients : ~ HasTemp(b)
  <2> SUFFICES ASSUME NEW b \in Clients PROVE ~ HasTemp(b)
    BY Zenon
  <2>1. CASE b = c
    BY <1>1, <2>1, Zenon DEF HasTemp
  <2>2. CASE b # c
    BY <1>1, <2>2, Alone, Zenon DEF HasTemp, Waiting
  <2>3. QED
    BY <2>1, <2>2, Zenon
<1>4. \A e \in dirs : Up(e) = d => e \in Needed
  <2> SUFFICES ASSUME NEW e \in dirs, Up(e) = d PROVE e \in Needed
    BY Zenon
  <2>1. e \in Dirs
    BY Zenon DEF IInv, TypeOK
  <2>2. e \notin Path(d)
    BY <2>1, FileStorageAssumption, Zenon
  <2>3. QED
    BY <1>2, <2>2, Zenon
<1>5. /\ dirs' = IF IsEmpty(d) THEN dirs \ {d} ELSE dirs
      /\ pc' = [pc EXCEPT ![c] = IF d \in dirs /\ Up(d) # Root
                                   THEN "cleanup" ELSE "return"]
      /\ at' = [at EXCEPT ![c] = Up(d)]
      /\ UNCHANGED <<files, litter, writer, call, faults>>
  BY Zenon DEF cleanupLogicalPath, Goto, locks
<1>6. Needed' = Needed
  BY <1>5, Zenon DEF Needed
<1>7. dirs' \subseteq Needed \cup (Path(d) \ {d}) /\ Needed \subseteq dirs'
  <2>1. CASE IsEmpty(d)
    BY <1>1, <1>2, <1>5, <2>1, EmptyIsSpare, Zenon
  <2>2. CASE ~ IsEmpty(d)
    <3>1. d \in Needed
      BY <1>1, <1>2, <1>3, <1>4, <2>2, FullIsNeeded, Zenon
    <3>2. QED
      BY <1>2, <1>5, <2>2, <3>1, Zenon
  <2>3. QED
    BY <2>1, <2>2, Zenon
<1>8. Rooted'
  BY <1>2, <1>5, Zenon DEF Rooted, IsEmpty
<1>9. Whole'
  <2>1. pc \in [Clients -> Step]
    BY Zenon DEF IInv, TypeOK
  <2>2. QED
    BY <1>2, <1>5, <2>1, Zenon DEF Whole
<1>10. dirs' \subseteq Needed \cup Path(Up(d))
  BY <1>1, <1>7, Zenon
<1>11. pc'[c] = "return" => dirs' \subseteq Needed
  <2> SUFFICES ASSUME pc'[c] = "return" PROVE dirs' \subseteq Needed
    BY Zenon
  <2>1. pc \in [Clients -> Step]
    BY Zenon DEF IInv, TypeOK
  <2>2. d \notin dirs \/ Up(d) = Root
    BY <1>5, <2>1, Zenon
  <2>3. CASE d \notin dirs
    BY <1>2, <1>5, <2>3, Zenon
  <2>4. CASE Up(d) = Root
    BY <1>10, <2>4, FileStorageAssumption, Zenon
  <2>5. QED
    BY <2>2, <2>3, <2>4, Zenon
<1>12. pc'[c] = "cleanup" => Up(d) \in dirs' \/ dirs' \subseteq Needed
  <2> SUFFICES ASSUME pc'[c] = "cleanup" PROVE Up(d) \in dirs'
    BY Zenon
  <2>1. pc \in [Clients -> Step]
    BY Zenon DEF IInv, TypeOK
  <2>2. d \in dirs /\ Up(d) # Root
    BY <1>5, <2>1, Zenon
  <2>3. Up(d) \in dirs
    BY <1>2, <2>2, Zenon DEF Rooted
  <2>4. Up(d) # d
    BY <1>1, <2>2, FileStorageAssumption, Zenon
  <2>5. QED
    BY <1>5, <2>3, <2>4, Zenon
<1>13. Spare(c)'
  <2>1. pc \in [Clients -> Step] /\ at \in [Clients -> Dirs \cup {Root}]
    BY Zenon DEF IInv, TypeOK
  <2>2. pc'[c] \in {"cleanup", "return"} /\ at'[c] = Up(d)
    BY <1>5, <2>1, Zenon
  <2>3. QED
    BY <1>6, <1>10, <1>11, <1>12, <2>2, Zenon DEF Spare, PutSteps
<1>14. writer' = c /\ c # Nobody
  BY <1>1, <1>5, FileStorageAssumption, Zenon
<1>15. QED
  BY <1>2, <1>5, <1>6, <1>7, <1>8, <1>9, <1>13, <1>14, Zenon DEF TidyInv

LEMMA RenameTidy ==
  ASSUME IInv, TidyInv, faults = 0, NEW c \in Clients, Rename(c)
  PROVE  TidyInv'
<1> DEFINE k == key(c)
           e == Seal(call[c].val)
<1>1. /\ pc[c] = "rename" /\ writer = c /\ k \in Keys
      /\ Above(k) \subseteq dirs /\ e \in Entry
  <2>1. pc[c] = "rename"
    BY Zenon DEF Rename
  <2>2. writer = c
    BY <2>1, Zenon DEF IInv, LockInv, PutSteps
  <2>3. call[c] # NoCall /\ call[c].op = "put"
    BY <2>1, Zenon DEF IInv, CallInv, PutSteps
  <2>4. call[c] \in Operation
    BY <2>3, Zenon DEF IInv, TypeOK
  <2>5. k \in Keys /\ call[c].val \in Values
    BY <2>3, <2>4, OperationType, Zenon DEF key
  <2>6. Above(k) \subseteq dirs
    BY <2>1, Zenon DEF IInv, DirectoriesStay, HasTemp
  <2>7. e \in Entry
    BY <2>5, Zenon DEF Seal, Entry, IInv, TypeOK
  <2>8. QED
    BY <2>1, <2>2, <2>5, <2>6, <2>7, Zenon
<1>2. /\ litter = {} /\ Whole /\ Rooted /\ Needed \subseteq dirs
      /\ dirs \subseteq Needed \cup Above(k)
  BY <1>1, Zenon DEF TidyInv, Spare, PutSteps
<1>3. /\ files' = [files EXCEPT ![k] = e]
      /\ pc' = [pc EXCEPT ![c] = "return"]
      /\ UNCHANGED <<dirs, litter, writer, faults>>
  BY Zenon DEF Rename, Goto, locks
<1>4. e \notin {Empty, Torn, NoFile}
  BY <1>1, FileStorageAssumption, Zenon
<1>5. files \in [Keys -> Content] /\ pc \in [Clients -> Step]
  BY Zenon DEF IInv, TypeOK
<1> HIDE DEF k, e
<1>6. \A d : d \in Needed' <=> d \in Needed \cup Above(k)
  <2> SUFFICES ASSUME NEW d PROVE d \in Needed' <=> d \in Needed \cup Above(k)
    BY Zenon
  <2>1. files'[k] = e /\ \A x \in Keys : x # k => files'[x] = files[x]
    BY <1>1, <1>3, <1>5, Zenon
  <2>2. d \in Needed => d \in Needed'
    BY <1>4, <2>1, IsNeeded, Zenon
  <2>3. d \in Above(k) => d \in Needed'
    BY <1>1, <1>4, <2>1, IsNeeded, Zenon
  <2>4. d \in Needed' => d \in Needed \cup Above(k)
    BY <2>1, IsNeeded, Zenon
  <2>5. QED
    BY <2>2, <2>3, <2>4, Zenon
<1>7. Whole'
  <2>1. \A x \in Keys : files'[x] \notin {Empty, Torn}
    BY <1>2, <1>3, <1>4, <1>5, Zenon DEF Whole
  <2>2. \A b \in Clients : pc'[b] # "unlink"
    BY <1>2, <1>3, <1>5, Zenon DEF Whole
  <2>3. QED
    BY <2>1, <2>2, Zenon DEF Whole
<1>8. Rooted'
  BY <1>2, <1>3, Zenon DEF Rooted
<1>9. Needed' \subseteq dirs' /\ dirs' \subseteq Needed'
  BY <1>1, <1>2, <1>3, <1>6, Zenon
<1>10. pc'[c] = "return" /\ writer' = c
  BY <1>1, <1>3, <1>5, Zenon
<1>11. c # Nobody
  BY FileStorageAssumption, Zenon
<1>12. QED
  BY <1>2, <1>3, <1>7, <1>8, <1>9, <1>10, <1>11, Zenon DEF TidyInv, Spare, PutSteps

LEMMA RemoveTidy ==
  ASSUME IInv, TidyInv, faults = 0, NEW c \in Clients, Remove(c)
  PROVE  TidyInv'
<1> DEFINE k == key(c)
<1>1. pc[c] = "remove" /\ writer = c /\ k \in Keys
  <2>1. pc[c] = "remove"
    BY Zenon DEF Remove
  <2>2. writer = c
    BY <2>1, Zenon DEF IInv, LockInv, DeleteSteps
  <2>3. call[c] # NoCall
    BY <2>1, Zenon DEF IInv, CallInv
  <2>4. k \in Keys
    BY <2>3, OperationType, Zenon DEF IInv, TypeOK, key
  <2>5. QED
    BY <2>1, <2>2, <2>4, Zenon
<1>2. /\ litter = {} /\ Whole /\ Rooted /\ Needed \subseteq dirs
      /\ dirs \subseteq Needed
  BY <1>1, Zenon DEF TidyInv, Spare
<1>3. /\ files' = [files EXCEPT ![k] = NoFile]
      /\ pc' = [pc EXCEPT ![c] = IF DirOf(k) = Root THEN "return" ELSE "cleanup"]
      /\ at' = [at EXCEPT ![c] = DirOf(k)]
      /\ UNCHANGED <<dirs, litter, writer, faults>>
  BY Zenon DEF Remove, Goto, locks
<1>4. files \in [Keys -> Content] /\ pc \in [Clients -> Step]
      /\ at \in [Clients -> Dirs \cup {Root}]
  BY Zenon DEF IInv, TypeOK
<1> HIDE DEF k
<1>5. files'[k] = NoFile /\ \A x \in Keys : x # k => files'[x] = files[x]
  BY <1>1, <1>3, <1>4, Zenon
<1>6. Needed' \subseteq Needed
  BY <1>5, IsNeeded, Zenon
<1>7. Needed \subseteq Needed' \cup Above(k)
  BY <1>5, IsNeeded, Zenon
<1>8. files[k] = NoFile => Needed \subseteq Needed'
  BY <1>1, <1>5, IsNeeded, Zenon
<1>9. files[k] # NoFile => Above(k) \subseteq dirs
  BY <1>1, <1>2, IsNeeded, Zenon
<1>10. Whole'
  <2>1. \A x \in Keys : files'[x] \notin {Empty, Torn}
    BY <1>2, <1>5, FileStorageAssumption, Zenon DEF Whole
  <2>2. \A b \in Clients : pc'[b] # "unlink"
    BY <1>2, <1>3, <1>4, Zenon DEF Whole
  <2>3. QED
    BY <2>1, <2>2, Zenon DEF Whole
<1>11. Rooted'
  BY <1>2, <1>3, Zenon DEF Rooted
<1>12. writer' = c /\ c # Nobody
  BY <1>1, <1>3, FileStorageAssumption, Zenon
<1>13. Spare(c)'
  <2>1. CASE DirOf(k) = Root
    <3>1. Above(k) = {} /\ pc'[c] = "return"
      BY <1>1, <1>3, <1>4, <2>1, KeyPath, Zenon
    <3>2. dirs' \subseteq Needed'
      BY <1>2, <1>3, <1>7, <3>1, Zenon
    <3>3. QED
      BY <3>1, <3>2, Zenon DEF Spare, PutSteps
  <2>2. CASE DirOf(k) # Root
    <3>1. pc'[c] = "cleanup" /\ at'[c] = DirOf(k) /\ DirOf(k) \in Above(k)
      BY <1>1, <1>3, <1>4, <2>2, KeyPath, Zenon
    <3>2. dirs' \subseteq Needed' \cup Path(at'[c])
      BY <1>2, <1>3, <1>7, <3>1, Zenon DEF Above
    <3>3. at'[c] \in dirs' \/ dirs' \subseteq Needed'
      BY <1>2, <1>3, <1>8, <1>9, <3>1, Zenon
    <3>4. QED
      BY <3>1, <3>2, <3>3, Zenon DEF Spare, PutSteps
  <2>3. QED
    BY <2>1, <2>2, Zenon
<1>14. QED
  BY <1>2, <1>3, <1>6, <1>10, <1>11, <1>12, <1>13, Zenon DEF TidyInv

LEMMA MkdirTidy ==
  ASSUME IInv, TidyInv, faults = 0, NEW c \in Clients, MkdirAll(c)
  PROVE  TidyInv'
<1> DEFINE k == key(c)
<1>1. pc[c] = "mkdir" /\ writer = c /\ k \in Keys
  <2>1. pc[c] = "mkdir"
    BY Zenon DEF MkdirAll
  <2>2. writer = c
    BY <2>1, Zenon DEF IInv, LockInv, PutSteps
  <2>3. call[c] # NoCall
    BY <2>1, Zenon DEF IInv, CallInv
  <2>4. k \in Keys
    BY <2>3, OperationType, Zenon DEF IInv, TypeOK, key
  <2>5. QED
    BY <2>1, <2>2, <2>4, Zenon
<1>2. /\ litter = {} /\ Whole /\ Rooted /\ Needed \subseteq dirs
      /\ dirs \subseteq Needed \cup Above(k)
  BY <1>1, Zenon DEF TidyInv, Spare, PutSteps
<1>3. /\ UNCHANGED <<files, litter, writer, call, faults>>
      /\ \/ dirs' = dirs /\ pc' = [pc EXCEPT ![c] = "temp"]
         \/ \E d \in Above(k) \ dirs : /\ Up(d) \notin Above(k) \ dirs
                                       /\ dirs' = dirs \cup {d}
                                       /\ pc' = pc
  BY Zenon DEF MkdirAll, Goto, locks
<1>4. pc \in [Clients -> Step]
  BY Zenon DEF IInv, TypeOK
<1>5. k' = k /\ Needed' = Needed
  BY <1>3, Zenon DEF key, Needed
<1> HIDE DEF k
<1>6. dirs \subseteq dirs' /\ dirs' \subseteq dirs \cup Above(k)
  BY <1>3, Zenon
<1>7. Rooted'
  <2>1. CASE dirs' = dirs
    BY <1>2, <2>1, Zenon DEF Rooted
  <2>2. ASSUME NEW d \in Above(k) \ dirs, Up(d) \notin Above(k) \ dirs,
               dirs' = dirs \cup {d}
        PROVE  Rooted'
    <3>1. Up(d) \in Above(k) \cup {Root}
      BY <1>1, <2>2, KeyPath, Zenon
    <3>2. Up(d) \in dirs \cup {Root}
      BY <2>2, <3>1, Zenon
    <3>3. QED
      BY <1>2, <2>2, <3>2, Zenon DEF Rooted
  <2>3. QED
    BY <1>3, <2>1, <2>2, Zenon
<1>8. pc'[c] \in {"mkdir", "temp"} /\ \A b \in Clients : b # c => pc'[b] = pc[b]
  BY <1>1, <1>3, <1>4, Zenon
<1>9. Whole'
  BY <1>2, <1>3, <1>8, Zenon DEF Whole
<1>10. Spare(c)'
  <2>1. dirs' \subseteq Needed' \cup Above(k')
    BY <1>2, <1>5, <1>6, Zenon
  <2>2. QED
    BY <1>8, <2>1, Zenon DEF Spare, k
<1>11. writer' = c /\ c # Nobody
  BY <1>1, <1>3, FileStorageAssumption, Zenon
<1>12. QED
  BY <1>2, <1>3, <1>5, <1>6, <1>7, <1>9, <1>10, <1>11, Zenon DEF TidyInv

(* The other steps leave the disk alone. *)
LEMMA DiskUnchanged ==
  ASSUME TidyInv, faults = 0, UNCHANGED <<files, dirs, litter>>,
         \A c \in Clients : pc'[c] # "unlink",
         writer' = Nobody => dirs \subseteq Needed,
         \A c \in Clients : writer' = c => Spare(c)'
  PROVE  TidyInv'
<1>1. /\ litter = {} /\ Whole /\ Rooted /\ Needed \subseteq dirs
  BY Zenon DEF TidyInv
<1>2. Needed' = Needed
  BY Zenon DEF Needed
<1>3. Whole' /\ Rooted'
  BY <1>1, Zenon DEF Whole, Rooted
<1>4. QED
  BY <1>1, <1>2, <1>3, Zenon DEF TidyInv

LEMMA OtherSteps ==
  ASSUME TidyInv, faults = 0, NEW c \in Clients, writer # c,
         UNCHANGED <<files, dirs, litter, writer>>, pc'[c] # "unlink",
         \A b \in Clients : b # c =>
            pc'[b] = pc[b] /\ at'[b] = at[b] /\ call'[b] = call[b]
  PROVE  TidyInv'
<1>1. \A b \in Clients : pc'[b] # "unlink"
  BY Zenon DEF TidyInv, Whole
<1>2. writer' = Nobody => dirs \subseteq Needed
  BY Zenon DEF TidyInv
<1>3. ASSUME NEW b \in Clients, writer' = b PROVE Spare(b)'
  <2>1. Spare(b) /\ b # c
    BY <1>3, Zenon DEF TidyInv
  <2>2. Needed' = Needed
    BY Zenon DEF Needed
  <2>3. QED
    BY <2>1, <2>2, Zenon DEF Spare, key
<1>4. QED
  BY <1>1, <1>2, <1>3, DiskUnchanged, Zenon

LEMMA LockTidy ==
  ASSUME IInv, TidyInv, faults = 0, NEW c \in Clients, Lock(c)
  PROVE  TidyInv'
<1>1. PICK s \in {"mkdir", "remove", "stat"} :
         /\ pc' = [pc EXCEPT ![c] = s]
         /\ s = "stat" <=> call[c].op = "get"
  BY LockTarget
<1>2. pc \in [Clients -> Step]
  BY Zenon DEF IInv, TypeOK
<1>3. pc'[c] = s /\ \A b \in Clients : b # c => pc'[b] = pc[b]
  BY <1>1, <1>2, Zenon
<1>4. writer = Nobody /\ UNCHANGED <<files, dirs, litter, at, call>>
  BY Zenon DEF Lock, disk
<1>5. writer # c /\ c # Nobody
  BY <1>4, FileStorageAssumption, Zenon
<1>6. CASE s = "stat"
  <2>1. writer' = writer
    BY <1>1, <1>6, Zenon DEF Lock
  <2>2. QED
    BY <1>3, <1>4, <1>5, <1>6, <2>1, OtherSteps, Zenon
<1>7. CASE s \in {"mkdir", "remove"}
  <2>1. writer' = c
    BY <1>1, <1>7, Zenon DEF Lock
  <2>2. dirs \subseteq Needed
    BY <1>4, Zenon DEF TidyInv
  <2>3. Needed' = Needed
    BY <1>4, Zenon DEF Needed
  <2>4. Spare(c)'
    BY <1>3, <1>4, <1>7, <2>2, <2>3, Zenon DEF Spare
  <2>5. \A b \in Clients : pc'[b] # "unlink"
    BY <1>3, <1>7, Zenon DEF TidyInv, Whole
  <2>6. QED
    BY <1>4, <1>5, <2>1, <2>4, <2>5, DiskUnchanged, Zenon
<1>8. QED
  BY <1>6, <1>7, Zenon

LEMMA ReturnTidy ==
  ASSUME IInv, TidyInv, faults = 0, NEW c \in Clients, Return(c)
  PROVE  TidyInv'
<1>1. /\ pc[c] = "return"
      /\ pc' = [pc EXCEPT ![c] = "idle"]
      /\ call' = [call EXCEPT ![c] = NoCall]
      /\ at' = [at EXCEPT ![c] = Root]
      /\ writer' = IF writer = c THEN Nobody ELSE writer
      /\ UNCHANGED <<files, dirs, litter>>
  BY Zenon DEF Return, Goto, disk
<1>2. /\ pc \in [Clients -> Step] /\ at \in [Clients -> Dirs \cup {Root}]
      /\ call \in [Clients -> Operation \cup {NoCall}]
  BY Zenon DEF IInv, TypeOK
<1>3. /\ pc'[c] = "idle"
      /\ \A b \in Clients : b # c =>
            pc'[b] = pc[b] /\ at'[b] = at[b] /\ call'[b] = call[b]
  BY <1>1, <1>2, Zenon
<1>4. CASE writer # c
  BY <1>1, <1>3, <1>4, OtherSteps, Zenon
<1>5. CASE writer = c
  <2>1. dirs \subseteq Needed
    BY <1>1, <1>5, Zenon DEF TidyInv, Spare
  <2>2. \A b \in Clients : pc'[b] # "unlink"
    BY <1>3, Zenon DEF TidyInv, Whole
  <2>3. \A b \in Clients : writer' # b
    BY <1>1, <1>5, FileStorageAssumption, Zenon
  <2>4. QED
    BY <1>1, <2>1, <2>2, <2>3, DiskUnchanged, Zenon
<1>6. QED
  BY <1>4, <1>5, Zenon

LEMMA WriteTidy ==
  ASSUME IInv, TidyInv, faults = 0, NEW c \in Clients, CreateTemp(c) \/ Encode(c)
  PROVE  TidyInv'
<1>1. pc[c] \in {"temp", "encode"}
  BY Zenon DEF CreateTemp, Encode
<1>2. writer = c /\ c # Nobody
  <2>1. writer = c
    BY <1>1, Zenon DEF IInv, LockInv, PutSteps
  <2>2. QED
    BY <2>1, FileStorageAssumption, Zenon
<1>3. key(c) \in Keys
  <2>1. call[c] # NoCall
    BY <1>1, Zenon DEF IInv, CallInv
  <2>2. QED
    BY <2>1, OperationType, Zenon DEF IInv, TypeOK, key
<1>4. Above(key(c)) \subseteq dirs
  BY <1>1, Zenon DEF IInv, DirectoriesStay, HasTemp
<1>5. DirOf(key(c)) \in dirs \cup {Root}
  BY <1>3, <1>4, KeyPath, Zenon
<1>6. /\ \/ pc' = [pc EXCEPT ![c] = "encode"]
         \/ pc' = [pc EXCEPT ![c] = "rename"]
      /\ UNCHANGED <<files, dirs, litter, writer, call, at>>
  <2>1. CASE CreateTemp(c)
    BY <1>5, <2>1, Zenon DEF CreateTemp, Goto, disk, locks
  <2>2. CASE Encode(c)
    BY <2>2, Zenon DEF Encode, Goto, disk, locks
  <2>3. QED
    BY <2>1, <2>2, Zenon
<1>7. pc \in [Clients -> Step]
  BY Zenon DEF IInv, TypeOK
<1>8. pc'[c] \in {"encode", "rename"} /\ \A b \in Clients : b # c => pc'[b] = pc[b]
  BY <1>6, <1>7, Zenon
<1>9. \A b \in Clients : pc'[b] # "unlink"
  BY <1>8, Zenon DEF TidyInv, Whole
<1>10. Spare(c)'
  <2>1. dirs \subseteq Needed \cup Above(key(c))
    BY <1>1, <1>2, Zenon DEF TidyInv, Spare, PutSteps
  <2>2. Needed' = Needed /\ key(c)' = key(c)
    BY <1>6, Zenon DEF Needed, key
  <2>3. QED
    BY <1>6, <1>8, <2>1, <2>2, Zenon DEF Spare
<1>11. QED
  BY <1>2, <1>6, <1>9, <1>10, DiskUnchanged, Zenon

LEMMA ReadTidy ==
  ASSUME IInv, TidyInv, faults = 0, NEW c \in Clients,
         Stat(c) \/ Unlink(c) \/ Open(c)
  PROVE  TidyInv'
<1>1. pc[c] \in {"stat", "open"}
  BY Zenon DEF Stat, Unlink, Open, TidyInv, Whole
<1>2. writer # c
  <2>1. c \in readers
    BY <1>1, Zenon DEF IInv, LockInv, GetSteps
  <2>2. writer = Nobody
    BY <2>1, Zenon DEF IInv, HeldByWorkers
  <2>3. QED
    BY <2>2, FileStorageAssumption, Zenon
<1>3. files[key(c)] # Empty
  <2>1. call[c] # NoCall
    BY <1>1, Zenon DEF IInv, CallInv
  <2>2. key(c) \in Keys
    BY <2>1, OperationType, Zenon DEF IInv, TypeOK, key
  <2>3. QED
    BY <2>2, Zenon DEF TidyInv, Whole
<1>4. /\ \/ pc' = [pc EXCEPT ![c] = "open"]
         \/ pc' = [pc EXCEPT ![c] = "return"]
      /\ UNCHANGED <<files, dirs, litter, writer, call, at>>
  <2>1. CASE Stat(c)
    BY <1>3, <2>1, Zenon DEF Stat, Goto, disk, locks
  <2>2. CASE Open(c)
    BY <2>2, Zenon DEF Open, Goto, disk, locks
  <2>3. QED
    BY <1>1, <2>1, <2>2, Zenon DEF Unlink
<1>5. pc \in [Clients -> Step]
  BY Zenon DEF IInv, TypeOK
<1>6. pc'[c] # "unlink" /\ \A b \in Clients : b # c => pc'[b] = pc[b]
  BY <1>4, <1>5, Zenon
<1>7. QED
  BY <1>2, <1>4, <1>6, OtherSteps, Zenon

LEMMA EnterTidy ==
  ASSUME IInv, TidyInv, faults = 0, NEW c \in Clients, Invoke(c) \/ Acquire(c)
  PROVE  TidyInv'
<1>1. pc[c] \in {"idle", "permit"}
  BY Zenon DEF Invoke, Acquire
<1>2. writer # c
  BY <1>1, FileStorageAssumption, Zenon DEF IInv, HeldByWorkers
<1>3. /\ \/ pc' = [pc EXCEPT ![c] = "permit"]
         \/ pc' = [pc EXCEPT ![c] = "lock"]
      /\ \/ call' = call
         \/ \E o \in Operation : call' = [call EXCEPT ![c] = o]
      /\ UNCHANGED <<files, dirs, litter, writer, at>>
  BY Zenon DEF Invoke, Acquire, Goto, disk, locks
<1>4. /\ pc \in [Clients -> Step]
      /\ call \in [Clients -> Operation \cup {NoCall}]
  BY Zenon DEF IInv, TypeOK
<1>5. pc'[c] # "unlink" /\ \A b \in Clients : b # c => pc'[b] = pc[b]
  BY <1>3, <1>4, Zenon
<1>6. \A b \in Clients : b # c => call'[b] = call[b]
  BY <1>3, <1>4, Zenon
<1>7. QED
  BY <1>2, <1>3, <1>5, <1>6, OtherSteps, Zenon

LEMMA TidyStep ==
  ASSUME IInv, TidyInv, Next
  PROVE  TidyInv'
<1>1. CASE \E c \in Clients : Fail(c)
  BY <1>1 DEF Fail, Fault, TidyInv, IInv, TypeOK
<1>2. CASE Restart \/ PowerLoss
  BY <1>2 DEF Restart, PowerLoss, Fault, TidyInv, IInv, TypeOK
<1>3. ASSUME NEW k \in Keys, Sync(k) PROVE TidyInv'
  BY <1>3, Zenon DEF Sync, locks, TidyInv, Whole, Rooted, Needed, Spare, key
<1>4. ASSUME NEW c \in Clients, Invoke(c) \/ Acquire(c) \/ Lock(c) \/ Work(c)
      PROVE  TidyInv'
  <2>1. faults' = faults
    BY <1>4, Zenon DEF Invoke, Acquire, Lock, Work, MkdirAll, CreateTemp, Encode,
          Rename, Remove, cleanupLogicalPath, Stat, Unlink, Open, Return
  <2>2. CASE faults = 0
    BY <1>4, <2>2, EnterTidy, LockTidy, MkdirTidy, WriteTidy, RenameTidy,
       RemoveTidy, CleanupTidy, ReadTidy, ReturnTidy, Zenon DEF Work
  <2>3. CASE faults # 0
    BY <2>1, <2>3, Zenon DEF TidyInv
  <2>4. QED
    BY <2>2, <2>3, Zenon
<1>5. QED
  BY <1>1, <1>2, <1>3, <1>4, Zenon DEF Next

(* As long as nothing fails, a Put leaves no temporary file behind, and no *)
(* directory outlives the last file below it, however operations           *)
(* interleave (PutInternal, DeleteInternal, cleanupLogicalPath).           *)
THEOREM NothingLeftBehind == Spec => []Tidy
<1>1. Init => TidyInv
  <2> SUFFICES ASSUME Init PROVE TidyInv
    BY Zenon
  <2>1. Needed = {}
    BY Zenon DEF Init, Needed
  <2>2. Whole
    BY FileStorageAssumption, Zenon DEF Init, Whole
  <2>3. QED
    BY <2>1, <2>2, FileStorageAssumption, Zenon DEF Init, TidyInv, Rooted
<1>2. IInv /\ TidyInv /\ [Next]_vars => TidyInv'
  <2>1. ASSUME TidyInv, UNCHANGED vars PROVE TidyInv'
    BY <2>1, Zenon DEF vars, TidyInv, Whole, Rooted, Needed, Spare, key
  <2>2. QED
    BY <2>1, TidyStep, Zenon
<1>3. TidyInv => Tidy
  BY Zenon DEF TidyInv, Tidy, Needed
<1>4. QED
  BY Invariance, <1>1, <1>2, <1>3, PTL DEF Spec

-----------------------------------------------------------------------------
(* The atomic map. *)

(* What the map shows of a file that changes, of one that does not, and of *)
(* what may be left of it.                                                 *)
LEMMA ViewOf ==
  /\ View(NoFile) = NoFile /\ View(Empty) = NoFile /\ View(Torn) = Torn
  /\ \A e \in Entry : View(e) = e
  BY StorageFacts, Zenon DEF View

(* An operation that is decided in this step. *)
LEMMA PendingOperation ==
  ASSUME IInv, NEW c \in Clients, pc[c] \notin {"idle", "cleanup", "unlink", "return"}
  PROVE  /\ Map!Pending(c)
         /\ call[c] \in Operation
         /\ key(c) \in Keys
  BY OperationType, SMTT(30) DEF IInv, TypeOK, CallInv, Decided, Map!Pending, key

(* Rename is the effect of a Put. *)
LEMMA RenamePuts ==
  ASSUME IInv, NEW c \in Clients, Rename(c)
  PROVE  Map!Effect(c)
<1> DEFINE k == key(c)
           e == [val |-> call[c].val, pass |-> pass]
           kv == [x \in Keys |-> View(files[x])]
           backlog == [x \in Keys |-> {View(y) : y \in survives[x]}]
<1>1. /\ Map!Pending(c) /\ k \in Keys /\ call[c] \in Operation
      /\ call[c].op = "put"
  BY PendingOperation, Zenon DEF Rename, IInv, CallInv, PutSteps
<1>2. e \in Entry
  BY <1>1, OperationType, Zenon DEF Entry, IInv, TypeOK
<1>3. /\ files' = [files EXCEPT ![k] = e]
      /\ survives' = [survives EXCEPT ![k] = @ \cup {e, Empty, Torn}]
      /\ res' = [res EXCEPT ![c] = "ok"]
      /\ UNCHANGED <<pass, call>>
  BY Zenon DEF Rename, Seal, Answer
<1>4. kv' = [kv EXCEPT ![k] = e]
  BY <1>1, <1>2, <1>3, ViewOf, Zenon DEF IInv, TypeOK
<1>5. backlog' = [backlog EXCEPT ![k] = @ \cup {e, NoFile, Torn}]
  <2>1. ASSUME NEW x \in Keys
        PROVE  backlog'[x] = IF x = k THEN backlog[x] \cup {e, NoFile, Torn}
                             ELSE backlog[x]
    BY <1>1, <1>2, <1>3, ViewOf DEF IInv, TypeOK
  <2>2. QED
    BY <1>1, <2>1, Zenon
<1>6. QED
  BY <1>1, <1>3, <1>4, <1>5, SMTT(30) DEF Map!Effect, key

(* Remove is the effect of a Delete. *)
LEMMA RemoveDeletes ==
  ASSUME IInv, NEW c \in Clients, Remove(c)
  PROVE  Map!Effect(c)
<1> DEFINE k == key(c)
           kv == [x \in Keys |-> View(files[x])]
           backlog == [x \in Keys |-> {View(y) : y \in survives[x]}]
<1>1. /\ Map!Pending(c) /\ k \in Keys /\ call[c].op = "delete"
  BY PendingOperation, Zenon DEF Remove, IInv, CallInv, DeleteSteps
<1>2. /\ files' = [files EXCEPT ![k] = NoFile]
      /\ survives' = [survives EXCEPT ![k] = @ \cup {NoFile}]
      /\ res' = [res EXCEPT ![c] = "ok"]
      /\ UNCHANGED <<pass, call>>
  BY Zenon DEF Remove, Answer
<1>3. kv' = [kv EXCEPT ![k] = NoFile]
  BY <1>1, <1>2, ViewOf, Zenon DEF IInv, TypeOK
<1>4. backlog' = [backlog EXCEPT ![k] = @ \cup {NoFile}]
  <2>1. ASSUME NEW x \in Keys
        PROVE  backlog'[x] = IF x = k THEN backlog[x] \cup {NoFile} ELSE backlog[x]
    BY <1>1, <1>2, ViewOf DEF IInv, TypeOK
  <2>2. QED
    BY <1>1, <2>1, Zenon
<1>5. QED
  BY <1>1, <1>2, <1>3, <1>4, Zenon DEF Map!Effect, key

(* Where there is no entry, nil is read. *)
LEMMA ReadingNone == Map!Reading(NoFile) = "nil"
  BY StorageFacts, Zenon DEF Map!Reading, Map!Entry, Entry

(* Stat of an empty file, and Open, are the effect of a Get; what cannot be *)
(* decoded is a failure.                                                   *)
LEMMA OpenGets ==
  ASSUME IInv, NEW c \in Clients, Open(c)
  PROVE  Map!Effect(c) \/ Map!Fail(c)
<1> DEFINE k == key(c)
           e == files[k]
<1>1. /\ Map!Pending(c) /\ k \in Keys /\ call[c].op = "get"
  BY PendingOperation, Zenon DEF Open, IInv, CallInv, GetSteps
<1>2. e \in Content
  BY <1>1, Zenon DEF IInv, TypeOK
<1>3. UNCHANGED <<files, survives, pass, call>>
  BY SMTT(30) DEF Open, disk
<1>4. CASE e = NoFile
  <2>1. res' = [res EXCEPT ![c] = "nil"]
    BY <1>4, StorageFacts, Zenon DEF Open, Answer
  <2>2. Map!Reading(View(e)) = "nil"
    BY <1>4, ReadingNone, ViewOf, Zenon
  <2>3. QED
    BY <1>1, <1>3, <2>1, <2>2, Zenon DEF Map!Effect, key
<1>5. CASE e # NoFile /\ e \in {Empty, Torn}
  <2>1. res' = [res EXCEPT ![c] = "error"]
    BY <1>5, SMTT(30) DEF Open, Answer
  <2>2. QED
    BY <1>1, <1>3, <2>1, Zenon DEF Map!Fail
<1>6. CASE e \notin {NoFile, Empty, Torn}
  <2>1. e \in Entry /\ View(e) = e
    BY <1>2, <1>6, ViewOf, Zenon DEF Content
  <2>2. res' = [res EXCEPT ![c] = Decrypted(e)]
    BY <1>6, Zenon DEF Open, Answer
  <2>3. Map!Reading(e) = Decrypted(e)
    <3>1. e \in Map!Entry
      BY <2>1, Zenon DEF Entry, Map!Entry
    <3>2. Map!Reading(e) = IF e.pass = pass THEN e.val
                           ELSE IF pass = NoPass THEN "raw" ELSE "error"
      BY <1>6, <3>1, Zenon DEF Map!Reading
    <3>3. QED
      BY <3>2, Zenon DEF Decrypted
  <2>4. QED
    BY <1>1, <1>3, <2>1, <2>2, <2>3, Zenon DEF Map!Effect, key
<1>7. QED
  BY <1>4, <1>5, <1>6, Zenon

LEMMA StatGets ==
  ASSUME IInv, NEW c \in Clients, Stat(c)
  PROVE  Map!Effect(c) \/ UNCHANGED Map!vars
<1>1. CASE files[key(c)] = Empty
  <2>1. /\ Map!Pending(c) /\ key(c) \in Keys /\ call[c].op = "get"
    BY PendingOperation, Zenon DEF Stat, IInv, CallInv, GetSteps
  <2>2. /\ res' = [res EXCEPT ![c] = "nil"]
        /\ UNCHANGED <<files, survives, pass, call>>
    BY <1>1, Zenon DEF Stat, Answer, disk
  <2>3. Map!Reading(View(files[key(c)])) = "nil"
    BY <1>1, ReadingNone, ViewOf, Zenon
  <2>4. QED
    BY <2>1, <2>2, <2>3, Zenon DEF Map!Effect, key
<1>2. CASE files[key(c)] # Empty
  BY <1>2, Zenon DEF Stat, Map!vars, disk
<1>3. QED
  BY <1>1, <1>2, Zenon

(* The map does not show that an empty file is removed. *)
LEMMA UnlinkHidden ==
  ASSUME IInv, NEW c \in Clients, Unlink(c)
  PROVE  UNCHANGED Map!vars
<1> DEFINE k == key(c)
           kv == [x \in Keys |-> View(files[x])]
           backlog == [x \in Keys |-> {View(y) : y \in survives[x]}]
<1>1. /\ k \in Keys
      /\ files[k] \in {Empty, NoFile}
      /\ files[k] \in survives[k]
  BY OperationType, Zenon DEF Unlink, IInv, TypeOK, CallInv, key
<1>2. /\ files' = [files EXCEPT ![k] = NoFile]
      /\ survives' = [survives EXCEPT ![k] = @ \cup {NoFile}]
      /\ UNCHANGED <<pass, call, res>>
  BY Zenon DEF Unlink
<1>3. kv' = kv
  BY <1>1, <1>2, ViewOf, Zenon DEF IInv, TypeOK
<1>4. backlog' = backlog
  <2>1. NoFile \in backlog[k]
    BY <1>1, ViewOf, Zenon
  <2>2. ASSUME NEW x \in Keys PROVE backlog'[x] = backlog[x]
    BY <1>1, <1>2, <2>1, ViewOf DEF IInv, TypeOK
  <2>3. QED
    BY <2>2, Zenon
<1>5. QED
  BY <1>2, <1>3, <1>4, Zenon DEF Map!vars

(* A call that fails is a failed operation; a failed clean-up is reported, *)
(* a failed removal of an empty file is not.                               *)
LEMMA FailFails ==
  ASSUME IInv, NEW c \in Clients, Fail(c)
  PROVE  Map!Fail(c) \/ UNCHANGED Map!vars
<1>1. UNCHANGED <<files, survives, pass, call>>
  BY Zenon DEF Fail
<1>2. CASE pc[c] = "unlink"
  <2>1. UNCHANGED res
    BY <1>2, Zenon DEF Fail, HasTemp
  <2>2. QED
    BY <1>1, <2>1, Zenon DEF Map!vars
<1>3. CASE pc[c] = "cleanup"
  <2>1. /\ res' = [res EXCEPT ![c] = "error"]
        /\ call[c] # NoCall /\ call[c].op = "delete"
    BY <1>3, Zenon DEF Fail, HasTemp, Answer, IInv, CallInv, DeleteSteps
  <2>2. QED
    BY <1>1, <2>1, SMTT(30) DEF Map!Fail
<1>4. CASE pc[c] \notin {"unlink", "cleanup"}
  <2>1. /\ res' = [res EXCEPT ![c] = "error"]
        /\ pc[c] \notin {"idle", "cleanup", "unlink", "return"}
    BY <1>4, Zenon DEF Fail, HasTemp, Answer
  <2>2. QED
    BY <1>1, <2>1, PendingOperation, Zenon DEF Map!Fail
<1>5. QED
  BY <1>2, <1>3, <1>4, Zenon

(* What the operating system and a loss of power do to the map. *)
LEMMA SyncSettles ==
  ASSUME IInv, NEW k \in Keys, Sync(k)
  PROVE  Map!Settle(k)
<1> DEFINE backlog == [x \in Keys |-> {View(y) : y \in survives[x]}]
<1>1. /\ survives' = [survives EXCEPT ![k] = {files[k]}]
      /\ UNCHANGED <<files, pass, call, res>>
  BY Zenon DEF Sync
<1>2. backlog' = [backlog EXCEPT ![k] = {View(files[k])}]
  <2>1. ASSUME NEW x \in Keys
        PROVE  backlog'[x] = IF x = k THEN {View(files[k])} ELSE backlog[x]
    BY <1>1, Zenon DEF IInv, TypeOK
  <2>2. QED
    BY <2>1, Zenon
<1>3. QED
  BY <1>1, <1>2, Zenon DEF Map!Settle

LEMMA PowerLossMaps ==
  ASSUME IInv, PowerLoss
  PROVE  Map!PowerLoss
<1> DEFINE kv == [x \in Keys |-> View(files[x])]
           backlog == [x \in Keys |-> {View(y) : y \in survives[x]}]
<1>1. /\ files' \in [Keys -> UNION {survives[k] : k \in Keys}]
      /\ \A k \in Keys : files'[k] \in survives[k]
      /\ survives' = [k \in Keys |-> {files'[k]}]
  BY Zenon DEF PowerLoss
<1>2. Map!Forget
  BY Zenon DEF PowerLoss, NewFileBackend, Map!Forget
<1>3. \A k \in Keys : kv'[k] \in backlog[k]
  BY <1>1, Zenon
<1>4. kv' \in [Keys -> UNION {backlog[k] : k \in Keys}]
  BY <1>3, Zenon
<1>5. backlog' = [k \in Keys |-> {kv'[k]}]
  <2>1. ASSUME NEW k \in Keys PROVE backlog'[k] = {kv'[k]}
    BY <1>1, Zenon
  <2>2. QED
    BY <2>1, Zenon
<1>6. QED
  BY <1>2, <1>3, <1>4, <1>5, Zenon DEF Map!PowerLoss

(* Each step is a step of the map, or is not seen there. *)
LEMMA MapStep ==
  ASSUME IInv, Next
  PROVE  Map!Next \/ UNCHANGED Map!vars
<1>1. ASSUME NEW c \in Clients, Invoke(c) PROVE Map!Next
  <2>1. call[c] = NoCall
    BY <1>1, Zenon DEF Invoke, IInv, CallInv
  <2>2. Map!Invoke(c)
    BY <1>1, <2>1, Zenon DEF Invoke, Map!Invoke, Operation, Map!Operation, disk
  <2>3. QED
    BY <2>2, Zenon DEF Map!Next
<1>2. ASSUME NEW c \in Clients,
             Acquire(c) \/ Lock(c) \/ MkdirAll(c) \/ Encode(c) \/ cleanupLogicalPath(c)
      PROVE  UNCHANGED Map!vars
  BY <1>2, Zenon DEF Acquire, Lock, MkdirAll, Encode, cleanupLogicalPath, disk, Map!vars
<1>3. ASSUME NEW c \in Clients, Return(c) PROVE Map!Next
  <2>1. call[c] # NoCall /\ res[c] # NotYet
    BY <1>3, Zenon DEF Return, IInv, CallInv, Decided
  <2>2. Map!Return(c)
    BY <1>3, <2>1, Zenon DEF Return, Map!Return, Answer, disk
  <2>3. QED
    BY <2>2, SMTT(30) DEF Map!Next
<1>4. ASSUME NEW c \in Clients, CreateTemp(c) PROVE Map!Next \/ UNCHANGED Map!vars
  <2>1. CASE DirOf(key(c)) \in dirs \cup {Root}
    BY <1>4, <2>1, Zenon DEF CreateTemp, disk, Map!vars
  <2>2. CASE DirOf(key(c)) \notin dirs \cup {Root}
    <3>1. Map!Pending(c)
      BY <1>4, PendingOperation, Zenon DEF CreateTemp
    <3>2. Map!Fail(c)
      BY <1>4, <2>2, <3>1, Zenon DEF CreateTemp, Answer, disk, Map!Fail
    <3>3. QED
      BY <3>2, SMTT(30) DEF Map!Next
  <2>3. QED
    BY <2>1, <2>2, SMTT(30)
<1>5. ASSUME NEW c \in Clients,
             Rename(c) \/ Remove(c) \/ Stat(c) \/ Unlink(c) \/ Open(c) \/ Fail(c)
      PROVE  Map!Next \/ UNCHANGED Map!vars
  BY <1>5, RenamePuts, RemoveDeletes, StatGets, UnlinkHidden, OpenGets, FailFails, Zenon
     DEF Map!Next
<1>6. ASSUME NEW k \in Keys, Sync(k) PROVE Map!Next
  BY <1>6, SyncSettles, Zenon DEF Map!Next
<1>7. ASSUME Restart PROVE Map!Next
  <2>1. Map!Restart
    BY <1>7, Zenon DEF Restart, NewFileBackend, Map!Restart, Map!Forget
  <2>2. QED
    BY <2>1, SMTT(30) DEF Map!Next
<1>8. ASSUME PowerLoss PROVE Map!Next
  BY <1>8, PowerLossMaps, Zenon DEF Map!Next
<1>9. QED
  BY <1>1, <1>2, <1>3, <1>4, <1>5, <1>6, <1>7, <1>8, Zenon DEF Next, Work

(* The file backend, plain or encrypted, implements an atomic map: Put,    *)
(* Get and Delete take effect in one step, through failures, restarts and  *)
(* losses of power (PutInternal, GetInternal, DeleteInternal).             *)
THEOREM Refinement == Spec => ImplementsAtomicMap
<1>1. Init => Map!Init
  <2> SUFFICES ASSUME Init PROVE Map!Init
    BY Zenon
  <2>1. [k \in Keys |-> View(files[k])] = [k \in Keys |-> NoFile]
    BY ViewOf, Zenon DEF Init
  <2>2. [k \in Keys |-> {View(e) : e \in survives[k]}] = [k \in Keys |-> {NoFile}]
    BY ViewOf, Zenon DEF Init
  <2>3. QED
    BY <2>1, <2>2, Zenon DEF Init, Map!Init
<1>2. IInv /\ [Next]_vars => [Map!Next]_Map!vars
  <2> SUFFICES ASSUME IInv, [Next]_vars PROVE [Map!Next]_Map!vars
    BY Zenon
  <2>1. CASE Next
    BY <2>1, MapStep, Zenon
  <2>2. CASE UNCHANGED vars
    BY <2>2, Zenon DEF vars, Map!vars
  <2>3. QED
    BY <2>1, <2>2, Zenon
<1>3. QED
  BY <1>1, <1>2, Invariance, PTL DEF Spec, ImplementsAtomicMap, Map!Spec

=============================================================================
