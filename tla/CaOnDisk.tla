------------------------------- MODULE CaOnDisk -------------------------------
(***************************************************************************)
(* Servers that keep their CA in the POSIX file backend: CaStore with each *)
(* write taken apart into the system calls of PosixStore.  A server is one *)
(* writer.  Besides what CaStore allows, a server may be killed inside a   *)
(* write, and the machine may lose power.                                  *)
(***************************************************************************)
EXTENDS PosixStore, CaStore

CONSTANT MaxOutages   \* bound: power failures

ASSUME CaOnDiskAssumption ==
  /\ Procs = Servers /\ Keys = Names /\ Values = Cas /\ NoValue = NoCa
  /\ MaxOutages \in Nat

VARIABLE outages      \* history: power failures so far

cd == <<posix, cs, outages>>

CaOnDiskInit == PosixInit /\ CaStoreInit /\ outages = 0

(* The file wolfcert_ca_save is writing.                                   *)
Target(s) == IF stage[s] = "savecert" THEN "ca.cert.der" ELSE "ca.key.der"

SaveBegins(s) ==
  /\ stage[s] \in {"savecert", "savekey"}
  /\ Create(s, Target(s), ca[s][Target(s)])
  /\ UNCHANGED cs

SaveGoesOn(s) == (WriteAll(s) \/ Fsync(s)) /\ UNCHANGED cs

SaveDone(s) == Rename(s) /\ (SaveCert(s) \/ SaveKey(s))

(* posix_write returns an error, before or after it made its temporary     *)
(* file; or the server is killed in the middle of it.                      *)
SaveFails(s) ==
  /\ stage[s] \in {"savecert", "savekey"}
  /\ Fail(s) \/ (pc[s] = "idle" /\ UNCHANGED posix)
  /\ SaveKeyFails(s) \/ End(s)

Undo(s) == Remove(s, "ca.cert.der") /\ Rollback(s)

(* Steps of a server that do not write.                                    *)
NoWrite(s) ==
  /\ \/ Start(s) \/ ReadCert(s) \/ ReadKey(s) \/ Generate(s) \/ Serve(s)
     \/ stage[s] \notin {"savecert", "savekey"} /\ End(s)
  /\ UNCHANGED posix

Outage ==
  /\ outages < MaxOutages
  /\ PowerFails
  /\ contents' = file'
  /\ stage' = [s \in Servers |-> "off"] /\ ca' = [s \in Servers |-> Nothing]
  /\ outages' = outages + 1
  /\ UNCHANGED <<minted, starts, served, users>>

CaOnDiskNext ==
  \/ Outage
  \/ /\ \E s \in Servers :
          \/ SaveBegins(s) \/ SaveGoesOn(s) \/ SaveDone(s) \/ SaveFails(s)
          \/ Undo(s) \/ NoWrite(s)
     /\ UNCHANGED outages

CaOnDiskSpec == CaOnDiskInit /\ [][CaOnDiskNext]_cd
-----------------------------------------------------------------------------
(* Properties, besides NeverTorn, WritesAtomically and ServesMatchedPair.  *)

(* A CA that was served stays the one in the store, through crashes at any *)
(* system call of a save, while the machine has power: the directory is    *)
(* not synced, so an outage may take back a CA that was already served.    *)
KeptWhilePowered == outages = 0 => StoredCaIsKept

(* No start overwrites half a pair that a crash, or an outage, has left.   *)
HalfPairOutlivesCrash == [][outages' = outages => HalfPairStays]_cd
=============================================================================
