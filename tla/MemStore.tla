------------------------------- MODULE MemStore -------------------------------
(***************************************************************************)
(* The in-memory backend of src/store.c.  Any allocation may fail.         *)
(***************************************************************************)
CONSTANTS
  Keys, Values, NoValue,
  Empty    \* an entry whose data is NULL and whose length is 0

VARIABLE
  entry,   \* Keys -> the list entry of the key, NoValue when there is none
  got      \* what the newest read returned; NoValue for any error

mem == <<entry, got>>

MemInit == entry = [k \in Keys |-> NoValue] /\ got = NoValue

(* mem_write: a new entry is linked only once everything is allocated, but *)
(* an existing one is freed before its replacement is allocated.           *)
MemWrite(k, v) ==
  /\ entry' = [entry EXCEPT ![k] = v]
  /\ UNCHANGED got

MemWriteFails(k) ==
  /\ entry' = IF entry[k] = NoValue THEN entry ELSE [entry EXCEPT ![k] = Empty]
  /\ UNCHANGED got

MemRemove(k) ==
  /\ entry' = [entry EXCEPT ![k] = NoValue]
  /\ UNCHANGED got

MemRead(k) ==
  /\ got' \in {entry[k], NoValue}
  /\ UNCHANGED entry

MemNext ==
  \E k \in Keys :
    \/ MemWriteFails(k) \/ MemRemove(k) \/ MemRead(k)
    \/ \E v \in Values : MemWrite(k, v)

MemSpec == MemInit /\ [][MemNext]_mem
-----------------------------------------------------------------------------
(* The backend implements the contract of wolfcert/store.h, which asks of  *)
(* write that it "Write or replace key atomically": a write that fails     *)
(* leaves what was stored.                                                 *)
Abstract == INSTANCE AtomicStore WITH contents <- entry

WritesAtomically == Abstract!StoreSpec
=============================================================================
