------------------------------ MODULE PosixStore ------------------------------
(***************************************************************************)
(* The POSIX file backend of src/store.c.  Several processes write keys of *)
(* one directory: each write goes through a temporary file of its own that *)
(* is written, synced, closed and renamed over the key's file.  A process  *)
(* may be killed between any two system calls; the machine may also lose   *)
(* power, and then a renamed file may come back under its old content, as  *)
(* the directory is never synced.                                          *)
(***************************************************************************)
EXTENDS Naturals

CONSTANTS
  Procs,      \* writers
  Keys,       \* slot names
  Values,     \* values written
  NoValue,    \* no file
  Torn,       \* a file that holds part of a value
  MaxWrites   \* bound: writes begun

ASSUME PosixStoreAssumption ==
  /\ NoValue \notin Values /\ Torn \notin Values /\ NoValue # Torn
  /\ MaxWrites \in Nat

VARIABLES
  file,      \* Keys -> content visible under the key's path
  disk,      \* Keys -> the contents a power loss may bring back
  pc,        \* Procs -> the system call posix_write makes next
  job,       \* Procs -> the key and value of the write, once begun
  tmp,       \* Procs -> the temporary file: NoValue, Torn or the value
  synced,    \* Procs -> fsync(fd) has succeeded
  boot,      \* flips with every power failure
  writes     \* writes begun so far

posix == <<file, disk, pc, job, tmp, synced, boot, writes>>

Contents == Values \cup {NoValue}

Idle == [key |-> NoValue, val |-> NoValue]

PosixInit ==
  /\ file = [k \in Keys |-> NoValue]
  /\ disk = [k \in Keys |-> {NoValue}]
  /\ pc = [p \in Procs |-> "idle"]
  /\ job = [p \in Procs |-> Idle]
  /\ tmp = [p \in Procs |-> NoValue]
  /\ synced = [p \in Procs |-> FALSE]
  /\ boot = 0 /\ writes = 0
-----------------------------------------------------------------------------
(* posix_write returns: its temporary file is gone, the process is free.   *)
Return(p) ==
  /\ pc' = [pc EXCEPT ![p] = "idle"]
  /\ job' = [job EXCEPT ![p] = Idle]
  /\ tmp' = [tmp EXCEPT ![p] = NoValue]
  /\ synced' = [synced EXCEPT ![p] = FALSE]

(* mkstemp: the name is unique, so writers never share a temporary file.   *)
Create(p, k, v) ==
  /\ pc[p] = "idle" /\ writes < MaxWrites
  /\ pc' = [pc EXCEPT ![p] = "write"]
  /\ job' = [job EXCEPT ![p] = [key |-> k, val |-> v]]
  /\ tmp' = [tmp EXCEPT ![p] = Torn]
  /\ synced' = [synced EXCEPT ![p] = FALSE]
  /\ writes' = writes + 1
  /\ UNCHANGED <<file, disk, boot>>

(* The write loop: short writes and EINTR go round again, the last write   *)
(* completes the file.                                                     *)
WriteAll_StopsShort(p) ==
  /\ pc[p] = "write"
  /\ pc' = [pc EXCEPT ![p] = "fsync"]
  /\ tmp' \in {tmp, [tmp EXCEPT ![p] = job[p].val]}
  /\ UNCHANGED <<file, disk, job, synced, boot, writes>>

WriteAll(p) ==
  /\ pc[p] = "write"
  /\ pc' = [pc EXCEPT ![p] = "fsync"]
  /\ tmp' = [tmp EXCEPT ![p] = job[p].val]
  /\ UNCHANGED <<file, disk, job, synced, boot, writes>>

Fsync_Skipped(p) ==
  /\ pc[p] = "fsync"
  /\ pc' = [pc EXCEPT ![p] = "rename"]
  /\ UNCHANGED <<file, disk, job, tmp, synced, boot, writes>>

Fsync(p) ==
  /\ pc[p] = "fsync"
  /\ pc' = [pc EXCEPT ![p] = "rename"]
  /\ synced' = [synced EXCEPT ![p] = TRUE]
  /\ UNCHANGED <<file, disk, job, tmp, boot, writes>>

(* fchmod, write, fsync, close or rename failed and tmp is unlinked; or the*)
(* process died, and what it leaves has a name nothing reads.              *)
Fail(p) ==
  /\ pc[p] # "idle"
  /\ Return(p)
  /\ UNCHANGED <<file, disk, boot, writes>>

Rename(p) ==
  LET k == job[p].key IN
  /\ pc[p] = "rename"
  /\ file' = [file EXCEPT ![k] = tmp[p]]
  /\ disk' = [disk EXCEPT ![k] = @ \cup {tmp[p]} \cup IF synced[p] THEN {} ELSE {Torn}]
  /\ Return(p)
  /\ UNCHANGED <<boot, writes>>

(* posix_remove: an absent file is no error.                               *)
Remove(p, k) ==
  /\ pc[p] = "idle"
  /\ file' = [file EXCEPT ![k] = NoValue]
  /\ disk' = [disk EXCEPT ![k] = @ \cup {NoValue}]
  /\ UNCHANGED <<pc, job, tmp, synced, boot, writes>>

(* Every key comes back under a content its directory entry ever had since *)
(* the last start.                                                         *)
PowerFails ==
  /\ file' \in {f \in [Keys -> Contents \cup {Torn}] : \A k \in Keys : f[k] \in disk[k]}
  /\ disk' = [k \in Keys |-> {file'[k]}]
  /\ pc' = [p \in Procs |-> "idle"]
  /\ job' = [p \in Procs |-> Idle]
  /\ tmp' = [p \in Procs |-> NoValue]
  /\ synced' = [p \in Procs |-> FALSE]
  /\ boot' = 1 - boot
  /\ UNCHANGED writes

PosixNext ==
  \/ PowerFails
  \/ \E p \in Procs :
       \/ WriteAll(p) \/ Fsync(p) \/ Rename(p) \/ Fail(p)
       \/ \E k \in Keys : Remove(p, k) \/ \E v \in Values : Create(p, k, v)

PosixSpec == PosixInit /\ [][PosixNext]_posix
-----------------------------------------------------------------------------
(* Properties                                                              *)

(* The files, the writers and their temporary files have their types; a    *)
(* write that returned has left no temporary file behind.                  *)
PosixTypeOK ==
  /\ file \in [Keys -> Contents \cup {Torn}]
  /\ disk \in [Keys -> SUBSET (Contents \cup {Torn})]
  /\ pc \in [Procs -> {"idle", "write", "fsync", "rename"}]
  /\ \A p \in Procs :
       IF pc[p] = "idle" THEN tmp[p] = NoValue
       ELSE job[p].key \in Keys /\ job[p].val \in Values
  /\ tmp \in [Procs -> Contents \cup {Torn}]
  /\ synced \in [Procs -> BOOLEAN] /\ boot \in {0, 1} /\ writes \in 0..MaxWrites

(* No reader ever sees part of a value, and no power loss leaves part of   *)
(* one: whatever the interleaving of writers and crashes, a key's file is  *)
(* absent or whole, now and after a restart.                               *)
NeverTorn == \A k \in Keys : Torn # file[k] /\ Torn \notin disk[k]

(* As long as the machine has power, the steps of posix_write, killed      *)
(* anywhere, implement the atomic write that wolfcert/store.h promises.    *)
Abstract == INSTANCE AtomicStore WITH contents <- file

WritesAtomically ==
  Abstract!StoreInit /\ [][boot' = boot => Abstract!StoreNext]_file
=============================================================================
