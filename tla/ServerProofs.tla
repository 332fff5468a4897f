----------------------------- MODULE ServerProofs -----------------------------
(***************************************************************************)
(* Proofs about the process of the in-tree server, for every value of the  *)
(* constants.  First the CA it starts with: the POSIX file backend, for    *)
(* any number of writers, keys and values, and servers that keep their CA  *)
(* in it, for any number of servers, starts and power failures.            *)
(* posix_write is atomic under the servers too, no server serves with half *)
(* a pair or with a mixed one, and a server alone on its store keeps its   *)
(* CA.  Then the thread that serves, ServerLoop.                           *)
(***************************************************************************)
EXTENDS CaOnDisk, ServerLoop, FiniteSetTheorems, TLAPS

(* What posix_write has established of its temporary file when it gets to  *)
(* each call: all of the value is in it once the write loop is done, and   *)
(* it is on the disk once fsync has returned.                              *)
TmpInv ==
  \A p \in Procs :
    /\ pc[p] \in {"fsync", "rename"} => tmp[p] = job[p].val
    /\ pc[p] = "rename" => synced[p]

(* The inductive invariant.                                                *)
PosixInv ==
  /\ PosixTypeOK /\ TmpInv /\ NeverTorn
  /\ job \in [Procs -> [key : Keys \cup {NoValue}, val : Contents]]

(* An empty directory satisfies the invariant.                             *)
LEMMA PosixStarts == PosixInit => PosixInv
  BY PosixStoreAssumption
  DEF PosixInit, PosixInv, PosixTypeOK, TmpInv, NeverTorn, Contents, Idle

(* Every system call, failure, crash and power loss keeps the invariant.   *)
LEMMA PosixSteps == PosixInv /\ [PosixNext]_posix => PosixInv'
<1> SUFFICES ASSUME PosixInv, [PosixNext]_posix PROVE PosixInv'
  OBVIOUS
<1> USE PosixStoreAssumption DEF PosixInv, PosixTypeOK, TmpInv, NeverTorn, Contents, Idle
<1>1. ASSUME NEW p \in Procs, WriteAll(p) PROVE PosixInv'
  BY Zenon, <1>1 DEF WriteAll
<1>2. ASSUME NEW p \in Procs, Fsync(p) PROVE PosixInv'
  BY Zenon, <1>2 DEF Fsync
<1>3. ASSUME NEW p \in Procs, Rename(p) PROVE PosixInv'
  BY <1>3 DEF Rename, Return
<1>4. ASSUME NEW p \in Procs, Fail(p) PROVE PosixInv'
  BY Zenon, <1>4 DEF Fail, Return
<1>5. ASSUME NEW p \in Procs, NEW k \in Keys, Remove(p, k) PROVE PosixInv'
  BY Zenon, <1>5 DEF Remove
<1>6. ASSUME NEW p \in Procs, NEW k \in Keys, NEW v \in Values, Create(p, k, v)
      PROVE  PosixInv'
  BY <1>6 DEF Create
<1>7. CASE PowerFails
  BY <1>7 DEF PowerFails
<1>8. CASE UNCHANGED posix
  BY Zenon, <1>8 DEF posix
<1> QED
  BY Zenon, <1>1, <1>2, <1>3, <1>4, <1>5, <1>6, <1>7, <1>8 DEF PosixNext

(* The invariant holds throughout, for any number of writers of a store.   *)
THEOREM PosixInvHolds == PosixSpec => []PosixInv
  BY PosixStarts, PosixSteps, PTL DEF PosixSpec

(* PosixTypeOK for all constants: a write that has returned, or was killed *)
(* and cleaned up after, leaves no temporary file in its own hands.        *)
THEOREM PosixTypeOKHolds == PosixSpec => []PosixTypeOK
<1>1. PosixInv => PosixTypeOK
  BY Zenon DEF PosixInv
<1> QED
  BY <1>1, PosixInvHolds, PTL

(* NeverTorn for all constants: as posix_write syncs before it renames, no *)
(* reader and no restart ever finds part of a value.                       *)
THEOREM NeverTornHolds == PosixSpec => []NeverTorn
<1>1. PosixInv => NeverTorn
  BY Zenon DEF PosixInv
<1> QED
  BY <1>1, PosixInvHolds, PTL

(* A step of posix_write or posix_remove with the power on is one atomic   *)
(* write, one atomic remove, or nothing to a reader.                       *)
LEMMA PosixRefines ==
  PosixInv /\ [PosixNext]_posix => [boot' = boot => Abstract!StoreNext]_file
<1> SUFFICES ASSUME PosixInv, PosixNext, boot' = boot, file' # file
             PROVE  Abstract!StoreNext
  BY Zenon DEF posix
<1> USE DEF PosixInv, PosixTypeOK
<1>1. ASSUME NEW p \in Procs, Rename(p) PROVE Abstract!StoreNext
  <2>1. job[p].key \in Keys /\ job[p].val \in Values /\ tmp[p] = job[p].val
    BY Zenon, <1>1 DEF Rename, TmpInv
  <2>2. Abstract!StoreWrite(job[p].key, job[p].val)
    BY Zenon, <1>1, <2>1 DEF Rename, Abstract!StoreWrite
  <2> QED
    BY Zenon, <2>1, <2>2 DEF Abstract!StoreNext
<1>2. ASSUME NEW p \in Procs, NEW k \in Keys, Remove(p, k) PROVE Abstract!StoreNext
  BY Zenon, <1>2 DEF Remove, Abstract!StoreNext, Abstract!StoreRemove
<1>3. ~PowerFails
  BY DEF PowerFails
<1> QED
  BY Zenon, <1>1, <1>2, <1>3 DEF PosixNext, WriteAll, Fsync, Fail, Create

(* WritesAtomically for all constants: posix_write, interleaved with other *)
(* writers and killed anywhere, implements the contract of AtomicStore.    *)
THEOREM WritesAtomicallyHolds == PosixSpec => WritesAtomically
<1>1. PosixInit => Abstract!StoreInit
  BY Zenon DEF PosixInit, Abstract!StoreInit
<1> QED
  BY <1>1, PosixRefines, PosixInvHolds, PTL DEF PosixSpec, WritesAtomically
-----------------------------------------------------------------------------
(* The servers.                                                            *)
Stages == {"off", "readcert", "readkey", "generate", "savecert", "savekey",
           "rollback", "start", "serving"}
Pairs == [Names -> Cas \cup {NoCa}]

(* From the moment a server has a CA, it has both halves of one CA.        *)
PairOK(l, x) ==
  l \in {"savecert", "savekey", "rollback", "start", "serving"} =>
    x["ca.cert.der"] # NoCa /\ x["ca.cert.der"] = x["ca.key.der"]

(* What a server at stage l, with x in memory and alone on its store, knows*)
(* of the files f: nobody else has changed them since it looked.           *)
SoleOK(l, x, f) ==
  /\ l = "readkey" => f["ca.cert.der"] = x["ca.cert.der"]
  /\ l \in {"generate", "savecert"} => \A n \in Names : f[n] = NoCa
  /\ l \in {"savekey", "rollback"} =>
       f["ca.cert.der"] = x["ca.cert.der"] /\ f["ca.key.der"] = NoCa
  /\ l \in {"start", "serving"} => \A n \in Names : f[n] = x[n]

CaTypes ==
  /\ stage \in [Servers -> Stages] /\ ca \in [Servers -> Pairs]
  /\ minted \in 0..MaxCas /\ outages \in Nat
  /\ users \subseteq Servers /\ IsFiniteSet(users) /\ (users = {} => served = {})
  /\ \A s \in Servers : stage[s] # "off" => s \in users

(* The store CaStore reads is the directory; a write in progress is the    *)
(* save its server has got to.                                             *)
SaveInv ==
  /\ contents = file
  /\ \A s \in Servers : pc[s] # "idle" =>
       /\ stage[s] \in {"savecert", "savekey"}
       /\ job[s] = [key |-> Target(s), val |-> ca[s][Target(s)]]

ServersInv ==
  \A s \in Servers :
    /\ PairOK(stage[s], ca[s])
    /\ users = {s} => SoleOK(stage[s], ca[s], contents)

KeptInv ==
  outages = 0 =>
    \A s \in Servers : users = {s} /\ served # {} =>
      \E c \in Cas : served = {c} /\ \A n \in Names : contents[n] = c

(* The inductive invariant of the servers, and that of the whole.          *)
CaInv == CaTypes /\ SaveInv /\ ServersInv /\ KeptInv
DiskInv == PosixInv /\ CaInv
-----------------------------------------------------------------------------
(* What the servers read is a CA or nothing, never part of a file.         *)
LEMMA Readable == DiskInv => contents \in Pairs /\ NoCa \notin Cas
BY CaOnDiskAssumption, PosixStoreAssumption
DEF DiskInv, PosixInv, PosixTypeOK, NeverTorn, Contents, CaInv, SaveInv, Pairs

(* An empty directory and no server running.                               *)
LEMMA DiskStarts == CaOnDiskInit => DiskInv
<1> SUFFICES ASSUME CaOnDiskInit PROVE DiskInv
  OBVIOUS
<1> USE DEF CaOnDiskInit, CaStoreInit
<1>1. PosixInv
  BY Zenon, PosixStarts
<1>2. CaTypes
  BY CaStoreAssumption, FS_EmptySet DEF CaTypes, Stages, Pairs, Nothing
<1>3. SaveInv
  BY Zenon, CaOnDiskAssumption DEF SaveInv, PosixInit, Store!StoreInit
<1>4. ServersInv /\ KeptInv
  BY Zenon DEF ServersInv, PairOK, SoleOK, KeptInv
<1> QED BY Zenon, <1>1, <1>2, <1>3, <1>4 DEF DiskInv, CaInv

(* Each step of the composition is a step of the file backend, or none.    *)
LEMMA DiskIsPosix == DiskInv /\ [CaOnDiskNext]_cd => [PosixNext]_posix
<1> SUFFICES ASSUME DiskInv, [CaOnDiskNext]_cd PROVE [PosixNext]_posix
  OBVIOUS
<1> USE CaOnDiskAssumption
<1>1. ASSUME NEW s \in Servers, SaveBegins(s) PROVE PosixNext
  <2>1. Target(s) \in Names /\ ca[s][Target(s)] \in Cas
    BY Zenon, <1>1 DEF SaveBegins, Target, Names, DiskInv, CaInv, CaTypes, Pairs, ServersInv, PairOK
  <2> QED BY Zenon, <1>1, <2>1 DEF SaveBegins, PosixNext
<1>2. ASSUME NEW s \in Servers,
             SaveGoesOn(s) \/ SaveDone(s) \/ SaveFails(s) \/ Undo(s) \/ NoWrite(s)
      PROVE  [PosixNext]_posix
  BY Zenon, <1>2 DEF SaveGoesOn, SaveDone, SaveFails, Undo, NoWrite, PosixNext, Names
<1>3. CASE Outage \/ UNCHANGED cd
  BY Zenon, <1>3 DEF Outage, cd, PosixNext
<1> QED BY Zenon, <1>1, <1>2, <1>3 DEF CaOnDiskNext

(* A server s that goes to stage l with x in memory, its write, if it made *)
(* one, being over: what is to be shown of the servers is shown of s.      *)
LEMMA ServerMoves ==
  ASSUME DiskInv, NEW s \in Servers, NEW l \in Stages, NEW x \in Pairs,
         stage' = [stage EXCEPT ![s] = l], ca' = [ca EXCEPT ![s] = x],
         users' = users \cup {s}, minted' \in 0..MaxCas, outages' = outages,
         contents' = file', pc'[s] = "idle",
         \A t \in Servers \ {s} : pc'[t] = pc[t] /\ job'[t] = job[t],
         PairOK(l, x), users' = {s} => SoleOK(l, x, contents')
  PROVE  CaTypes' /\ SaveInv' /\ ServersInv'
<1>1. CaTypes'
  BY Zenon, FS_AddElement DEF DiskInv, CaInv, CaTypes
<1>2. \A t \in Servers \ {s} : stage'[t] = stage[t] /\ ca'[t] = ca[t]
  BY Zenon DEF DiskInv, CaInv, CaTypes
<1>3. SaveInv'
  BY <1>2 DEF DiskInv, CaInv, SaveInv, Target
<1>4. stage'[s] = l /\ ca'[s] = x
  BY Zenon DEF DiskInv, CaInv, CaTypes
<1>5. \A t \in Servers \ {s} : users' # {t}
  OBVIOUS
<1>6. ServersInv'
  BY Zenon, <1>2, <1>4, <1>5 DEF DiskInv, CaInv, ServersInv
<1> QED BY Zenon, <1>1, <1>3, <1>6

(* A server that is not in a write has none open, and one that runs is     *)
(* among the users.                                                        *)
LEMMA AtRest ==
  ASSUME DiskInv, NEW s \in Servers
  PROVE  /\ stage[s] \notin {"savecert", "savekey"} => pc[s] = "idle"
         /\ stage[s] # "off" => users \cup {s} = users
         /\ ca[s] \in Pairs /\ PairOK(stage[s], ca[s])
         /\ users = {s} => SoleOK(stage[s], ca[s], contents)
         /\ contents = file /\ minted \in 0..MaxCas
BY Zenon DEF DiskInv, CaInv, CaTypes, SaveInv, ServersInv, PosixInv, PosixTypeOK

(* What was served is kept by a step that serves nothing new and leaves    *)
(* the files alone.                                                        *)
LEMMA KeptStays ==
  ASSUME DiskInv, NEW s \in Servers, users' = users \cup {s}, served' = served,
         contents' = contents, outages' = outages
  PROVE  KeptInv'
BY Zenon DEF DiskInv, CaInv, CaTypes, KeptInv

(* Steps that do not write.                                                *)
LEMMA NoWriteKeepsInv ==
  ASSUME DiskInv, NEW s \in Servers, NoWrite(s), outages' = outages
  PROVE  CaInv'
<1>1. /\ UNCHANGED posix /\ contents' = contents
      /\ contents' = file' /\ pc' = pc /\ job' = job
  BY Zenon, AtRest DEF NoWrite, Start, ReadCert, ReadKey, Generate, Serve, End, posix
<1>2. contents \in Pairs /\ NoCa \notin Cas /\ Nothing \in Pairs
  BY Zenon, Readable DEF Nothing, Pairs
<1>3. CASE Start(s)
  <2>1. ca' = [ca EXCEPT ![s] = ca[s]] /\ pc'[s] = "idle" /\ PairOK("readcert", ca[s])
        /\ SoleOK("readcert", ca[s], contents')
    BY Zenon, <1>1, <1>3, AtRest DEF Start, PairOK, SoleOK, DiskInv, CaInv, CaTypes
  <2>2. CaTypes' /\ SaveInv' /\ ServersInv'
    BY Zenon, <1>1, <1>3, <2>1, AtRest, ServerMoves DEF Start, Goto, Stages
  <2> QED BY Zenon, <1>1, <1>3, <2>2, KeptStays DEF Start, CaInv
<1>4. CASE ReadCert(s)
  <2> DEFINE x == [ca[s] EXCEPT !["ca.cert.der"] = contents["ca.cert.der"]]
  <2>1. x \in Pairs /\ x["ca.cert.der"] = contents["ca.cert.der"]
    BY Zenon, <1>2, AtRest DEF Pairs, Names
  <2>2. ca' = [ca EXCEPT ![s] = x]
    BY Zenon, <1>4 DEF ReadCert
  <2> HIDE DEF x
  <2>3. pc'[s] = "idle" /\ PairOK("readkey", x) /\ SoleOK("readkey", x, contents')
    BY Zenon, <1>1, <1>4, <2>1, AtRest DEF ReadCert, PairOK, SoleOK
  <2>4. users' = users \cup {s} /\ stage' = [stage EXCEPT ![s] = "readkey"]
        /\ minted' \in 0..MaxCas /\ served' = served
    BY Zenon, <1>4, AtRest DEF ReadCert, Goto
  <2>5. CaTypes' /\ SaveInv' /\ ServersInv'
    BY Zenon, <1>1, <2>1, <2>2, <2>3, <2>4, ServerMoves DEF Stages
  <2> QED BY Zenon, <1>1, <2>4, <2>5, KeptStays DEF CaInv
<1>5. CASE ReadKey(s)
  <2> DEFINE y == [ca[s] EXCEPT !["ca.key.der"] = contents["ca.key.der"]]
             x == IF Loaded(y) = "start" THEN y ELSE Nothing
             l == Loaded(y)
  <2>1. /\ y \in Pairs /\ y["ca.cert.der"] = ca[s]["ca.cert.der"]
        /\ y["ca.key.der"] = contents["ca.key.der"]
    BY Zenon, <1>2, AtRest DEF Pairs, Names
  <2>2. ca' = [ca EXCEPT ![s] = x] /\ stage' = [stage EXCEPT ![s] = l]
    BY Zenon, <1>5 DEF ReadKey, Goto
  <2> HIDE DEF y
  <2>3. l \in {"generate", "start", "off"} /\ x \in Pairs
    BY Zenon, <1>2, <2>1 DEF Loaded
  <2>4. pc'[s] = "idle" /\ PairOK(l, x)
    BY Zenon, <1>1, <1>5, <2>1, AtRest DEF ReadKey, PairOK, Loaded, Names
  <2>5. users' = users \cup {s} /\ minted' \in 0..MaxCas /\ served' = served
    BY Zenon, <1>5, AtRest DEF ReadKey
  <2>6. ASSUME users' = {s} PROVE SoleOK(l, x, contents')
    <3>1. contents["ca.cert.der"] = ca[s]["ca.cert.der"]
      BY Zenon, <1>5, <2>6, AtRest DEF ReadKey, SoleOK
    <3> QED BY Zenon, <1>1, <2>1, <3>1 DEF SoleOK, Loaded, Names
  <2> HIDE DEF x, l
  <2>7. CaTypes' /\ SaveInv' /\ ServersInv'
    BY Zenon, <1>1, <2>2, <2>3, <2>4, <2>5, <2>6, ServerMoves DEF Stages
  <2> QED BY Zenon, <1>1, <2>5, <2>7, KeptStays DEF CaInv
<1>6. CASE Generate(s)
  <2> DEFINE x == [n \in Names |-> minted + 1]
  <2>1. minted + 1 \in Cas /\ minted' = minted + 1 /\ minted' \in 0..MaxCas
    <3>1. minted \in 0..MaxCas
      BY Zenon, AtRest
    <3>2. minted < MaxCas /\ minted' = minted + 1
      BY Zenon, <1>6 DEF Generate
    <3> QED BY ONLY <3>1, <3>2, CaStoreAssumption DEF Cas
  <2>2. x \in Pairs /\ x["ca.cert.der"] # NoCa /\ x["ca.cert.der"] = x["ca.key.der"]
    BY Zenon, <1>2, <2>1 DEF Pairs, Names
  <2>3. ca' = [ca EXCEPT ![s] = x] /\ stage' = [stage EXCEPT ![s] = "savecert"]
    BY Zenon, <1>6, <2>1 DEF Generate, Goto
  <2> HIDE DEF x
  <2>4. users' = users \cup {s} /\ served' = served /\ pc'[s] = "idle"
    BY Zenon, <1>1, <1>6, AtRest DEF Generate
  <2>5. PairOK("savecert", x) /\ (users' = {s} => SoleOK("savecert", x, contents'))
    BY Zenon, <1>1, <1>6, <2>2, AtRest DEF Generate, PairOK, SoleOK
  <2>6. CaTypes' /\ SaveInv' /\ ServersInv'
    BY Zenon, <1>1, <2>1, <2>2, <2>3, <2>4, <2>5, ServerMoves DEF Stages
  <2> QED BY Zenon, <1>1, <2>4, <2>6, KeptStays DEF CaInv
<1>7. CASE Serve(s)
  <2>1. ca' = [ca EXCEPT ![s] = ca[s]] /\ stage' = [stage EXCEPT ![s] = "serving"]
        /\ users' = users \cup {s} /\ minted' \in 0..MaxCas /\ pc'[s] = "idle"
    BY Zenon, <1>1, <1>7, AtRest DEF Serve, Goto, DiskInv, CaInv, CaTypes
  <2>2. PairOK("serving", ca[s]) /\ (users' = {s} => SoleOK("serving", ca[s], contents'))
    BY Zenon, <1>1, <1>7, AtRest DEF Serve, PairOK, SoleOK
  <2>3. CaTypes' /\ SaveInv' /\ ServersInv'
    BY Zenon, <1>1, <2>1, <2>2, AtRest, ServerMoves DEF Stages
  <2>4. KeptInv'
    <3> SUFFICES ASSUME outages = 0, users' = {s}
                 PROVE  \E c \in Cas : served' = {c} /\ \A n \in Names : contents'[n] = c
      BY Zenon, <2>1 DEF KeptInv
    <3> DEFINE c == ca[s]["ca.cert.der"]
    <3>1. c \in Cas /\ \A n \in Names : contents'[n] = c
      BY Zenon, <1>2, <2>2, AtRest DEF PairOK, SoleOK, Pairs, Names
    <3>2. served = {} \/ served = {c}
      BY Zenon, <1>1, <1>7, <3>1, AtRest DEF Serve, DiskInv, CaInv, KeptInv, Names
    <3>3. served' = served \cup {c}
      BY Zenon, <1>7 DEF Serve
    <3> QED BY Zenon, <3>1, <3>2, <3>3
  <2> QED BY Zenon, <2>3, <2>4 DEF CaInv
<1>8. CASE stage[s] \notin {"savecert", "savekey"} /\ End(s)
  <2>1. ca' = [ca EXCEPT ![s] = Nothing] /\ stage' = [stage EXCEPT ![s] = "off"]
        /\ users' = users \cup {s} /\ minted' \in 0..MaxCas /\ pc'[s] = "idle"
        /\ served' = served
    BY Zenon, <1>1, <1>8, AtRest DEF End, Off, Goto
  <2>2. PairOK("off", Nothing) /\ SoleOK("off", Nothing, contents')
    BY Zenon DEF PairOK, SoleOK
  <2>3. CaTypes' /\ SaveInv' /\ ServersInv'
    BY Zenon, <1>1, <1>2, <2>1, <2>2, ServerMoves DEF Stages
  <2> QED BY Zenon, <1>1, <2>1, <2>3, KeptStays DEF CaInv
<1> QED BY Zenon, <1>3, <1>4, <1>5, <1>6, <1>7, <1>8 DEF NoWrite

(* While a save is under way nothing of the servers changes.               *)
LEMMA SavingKeepsInv ==
  ASSUME DiskInv, NEW s \in Servers, SaveBegins(s) \/ SaveGoesOn(s), outages' = outages
  PROVE  CaInv'
<1>1. UNCHANGED cs /\ file' = file
  BY Zenon DEF SaveBegins, SaveGoesOn, Create, WriteAll, Fsync
<1>2. CaTypes' /\ ServersInv' /\ KeptInv'
  BY Zenon, <1>1 DEF DiskInv, CaInv, CaTypes, ServersInv, KeptInv, cs
<1>3. \A t \in Servers : Target(t)' = Target(t)
  BY Zenon, <1>1 DEF Target, cs
<1>4. SaveInv'
  <2>1. CASE SaveBegins(s)
    BY Zenon, <1>1, <1>3, <2>1, CaOnDiskAssumption
    DEF SaveBegins, Create, DiskInv, CaInv, SaveInv, PosixInv, PosixTypeOK, cs
  <2>2. CASE SaveGoesOn(s)
    <3>1. pc[s] # "idle" /\ job' = job
      BY Zenon, <2>2 DEF SaveGoesOn, WriteAll, Fsync
    <3>2. \A t \in Servers \ {s} : pc'[t] = pc[t]
      BY Zenon, <2>2, CaOnDiskAssumption
      DEF SaveGoesOn, WriteAll, Fsync, DiskInv, PosixInv, PosixTypeOK
    <3> QED BY Zenon, <1>1, <1>3, <3>1, <3>2 DEF DiskInv, CaInv, SaveInv, cs
  <2> QED BY Zenon, <2>1, <2>2
<1> QED BY Zenon, <1>2, <1>4 DEF CaInv

(* posix_write returning: s has no write open, the others theirs.          *)
LEMMA Returned ==
  ASSUME DiskInv, NEW s \in Servers, Return(s)
  PROVE  /\ pc'[s] = "idle"
         /\ \A t \in Servers \ {s} : pc'[t] = pc[t] /\ job'[t] = job[t]
BY Zenon, CaOnDiskAssumption DEF Return, DiskInv, PosixInv, PosixTypeOK

(* A rename puts the half its server is saving into the store: of a        *)
(* server alone on the store, only one that found it empty gets there.     *)
LEMMA SaveDoneKeepsInv ==
  ASSUME DiskInv, NEW s \in Servers, SaveDone(s), outages' = outages
  PROVE  CaInv'
<1> DEFINE k == Target(s)
           x == ca[s]
<1>1. /\ pc[s] = "rename" /\ file' = [file EXCEPT ![job[s].key] = tmp[s]] /\ Return(s)
      /\ SaveCert(s) \/ SaveKey(s)
  BY Zenon DEF SaveDone, Rename
<1>2. job[s].key = k /\ tmp[s] = x[k]
  BY <1>1, CaOnDiskAssumption DEF DiskInv, CaInv, SaveInv, PosixInv, TmpInv
<1>3. contents' = [contents EXCEPT ![k] = x[k]]
  BY Zenon, <1>1 DEF SaveCert, SaveKey, Store!StoreWrite, Target
<1>4. contents' = file' /\ contents \in Pairs /\ x \in Pairs /\ NoCa \notin Cas
  BY Zenon, <1>1, <1>2, <1>3, AtRest, Readable
<1>5. /\ users' = users \cup {s} /\ minted' \in 0..MaxCas /\ served' = served
      /\ ca' = [ca EXCEPT ![s] = x] /\ stage[s] \in {"savecert", "savekey"}
  BY Zenon, <1>1, AtRest DEF SaveCert, SaveKey, DiskInv, CaInv, CaTypes
<1>6. PairOK(stage[s], x) /\ (users = {s} => SoleOK(stage[s], x, contents))
  BY Zenon, AtRest
<1>7. ASSUME SaveCert(s) PROVE CaTypes' /\ SaveInv' /\ ServersInv'
  <2>1. stage[s] = "savecert" /\ k = "ca.cert.der" /\ stage' = [stage EXCEPT ![s] = "savekey"]
    BY Zenon, <1>7 DEF SaveCert, Goto, Target
  <2> HIDE DEF k, x
  <2>2. PairOK("savekey", x)
    BY Zenon, <1>6, <2>1 DEF PairOK
  <2>3. ASSUME users' = {s} PROVE SoleOK("savekey", x, contents')
    <3>1. users = {s} /\ contents["ca.key.der"] = NoCa
      BY Zenon, <1>5, <1>6, <2>1, <2>3, AtRest DEF SoleOK, Names
    <3>2. /\ contents'["ca.cert.der"] = x["ca.cert.der"]
          /\ contents'["ca.key.der"] = contents["ca.key.der"]
      BY Zenon, <1>3, <1>4, <2>1 DEF Pairs, Names
    <3> QED BY Zenon, <3>1, <3>2 DEF SoleOK
  <2> QED BY Zenon, <1>1, <1>4, <1>5, <2>1, <2>2, <2>3, Returned, ServerMoves DEF Stages
<1>8. ASSUME SaveKey(s) PROVE CaTypes' /\ SaveInv' /\ ServersInv'
  <2>1. stage[s] = "savekey" /\ k = "ca.key.der" /\ stage' = [stage EXCEPT ![s] = "start"]
    BY Zenon, <1>8 DEF SaveKey, Goto, Target
  <2> HIDE DEF k, x
  <2>2. PairOK("start", x)
    BY Zenon, <1>6, <2>1 DEF PairOK
  <2>3. ASSUME users' = {s} PROVE SoleOK("start", x, contents')
    <3>1. users = {s} /\ contents["ca.cert.der"] = x["ca.cert.der"]
      BY Zenon, <1>5, <1>6, <2>1, <2>3, AtRest DEF SoleOK
    <3>2. /\ contents'["ca.key.der"] = x["ca.key.der"]
          /\ contents'["ca.cert.der"] = contents["ca.cert.der"]
      BY Zenon, <1>3, <1>4, <2>1 DEF Pairs, Names
    <3> QED BY Zenon, <3>1, <3>2 DEF SoleOK, Names
  <2> QED BY Zenon, <1>1, <1>4, <1>5, <2>1, <2>2, <2>3, Returned, ServerMoves DEF Stages
<1>9. KeptInv'
  <2> SUFFICES ASSUME outages = 0, NEW t \in Servers, users' = {t}, served # {} PROVE FALSE
    BY Zenon, <1>5 DEF KeptInv
  <2>1. users = {s}
    BY <1>5, AtRest
  <2>2. \E c \in Cas : \A n \in Names : contents[n] = c
    BY Zenon, <2>1 DEF DiskInv, CaInv, KeptInv
  <2>3. \A n \in Names : contents[n] # NoCa
    BY Zenon, <1>4, <2>2
  <2> QED BY Zenon, <1>5, <1>6, <2>1, <2>3 DEF SoleOK, Names
<1> QED BY Zenon, <1>1, <1>7, <1>8, <1>9 DEF CaInv

(* A save that fails or is killed leaves the files as they are.            *)
LEMMA SaveFailsKeepsInv ==
  ASSUME DiskInv, NEW s \in Servers, SaveFails(s), outages' = outages
  PROVE  CaInv'
<1>1. /\ pc'[s] = "idle" /\ file' = file
      /\ \A t \in Servers \ {s} : pc'[t] = pc[t] /\ job'[t] = job[t]
  BY Zenon, Returned DEF SaveFails, Fail, posix
<1>2. /\ contents' = contents /\ contents' = file' /\ served' = served
      /\ users' = users \cup {s} /\ minted' \in 0..MaxCas
  BY Zenon, <1>1, AtRest DEF SaveFails, SaveKeyFails, End
<1>3. CASE SaveKeyFails(s)
  <2>1. stage[s] = "savekey" /\ stage' = [stage EXCEPT ![s] = "rollback"]
        /\ ca' = [ca EXCEPT ![s] = ca[s]]
    BY Zenon, <1>3 DEF SaveKeyFails, Goto, DiskInv, CaInv, CaTypes
  <2>2. PairOK("rollback", ca[s]) /\ (users' = {s} => SoleOK("rollback", ca[s], contents'))
    BY Zenon, <1>2, <2>1, AtRest DEF PairOK, SoleOK
  <2>3. CaTypes' /\ SaveInv' /\ ServersInv'
    BY Zenon, <1>1, <1>2, <2>1, <2>2, AtRest, ServerMoves DEF Stages
  <2> QED BY Zenon, <1>2, <2>3, KeptStays DEF CaInv
<1>4. CASE End(s)
  <2>1. ca' = [ca EXCEPT ![s] = Nothing] /\ stage' = [stage EXCEPT ![s] = "off"]
    BY Zenon, <1>4 DEF End, Off, Goto
  <2>2. PairOK("off", Nothing) /\ SoleOK("off", Nothing, contents') /\ Nothing \in Pairs
    BY Zenon DEF PairOK, SoleOK, Nothing, Pairs
  <2>3. CaTypes' /\ SaveInv' /\ ServersInv'
    BY Zenon, <1>1, <1>2, <2>1, <2>2, ServerMoves DEF Stages
  <2> QED BY Zenon, <1>2, <2>3, KeptStays DEF CaInv
<1> QED BY Zenon, <1>3, <1>4 DEF SaveFails

(* A rollback removes the certificate of a CA that was never served.       *)
LEMMA UndoKeepsInv ==
  ASSUME DiskInv, NEW s \in Servers, Undo(s), outages' = outages
  PROVE  CaInv'
<1>1. /\ stage[s] = "rollback" /\ pc' = pc /\ job' = job /\ pc'[s] = "idle"
      /\ file' = [file EXCEPT !["ca.cert.der"] = NoValue]
      /\ contents' = [contents EXCEPT !["ca.cert.der"] = NoCa]
      /\ stage' = [stage EXCEPT ![s] = "off"] /\ ca' = [ca EXCEPT ![s] = Nothing]
      /\ UNCHANGED <<minted, served, users>>
  BY Zenon DEF Undo, Remove, Rollback, Off, Goto, Store!StoreRemove
<1>2. /\ contents' = file' /\ users' = users \cup {s} /\ minted' \in 0..MaxCas
  BY Zenon, <1>1, AtRest, CaOnDiskAssumption
<1>3. PairOK("off", Nothing) /\ SoleOK("off", Nothing, contents') /\ Nothing \in Pairs
  BY Zenon DEF PairOK, SoleOK, Nothing, Pairs
<1>4. CaTypes' /\ SaveInv' /\ ServersInv'
  BY Zenon, <1>1, <1>2, <1>3, ServerMoves DEF Stages
<1>5. KeptInv'
  <2> SUFFICES ASSUME outages = 0, NEW t \in Servers, users' = {t}, served # {} PROVE FALSE
    BY Zenon, <1>1 DEF KeptInv
  <2>1. users = {s}
    BY Zenon, <1>1, AtRest
  <2>2. \E c \in Cas : \A n \in Names : contents[n] = c
    BY Zenon, <2>1 DEF DiskInv, CaInv, KeptInv
  <2>3. \A n \in Names : contents[n] # NoCa
    BY Zenon, <2>2, Readable
  <2> QED BY Zenon, <1>1, <2>1, <2>3, AtRest DEF SoleOK, Names
<1> QED BY Zenon, <1>4, <1>5 DEF CaInv

(* An outage stops every server.                                           *)
LEMMA OutageKeepsInv ==
  ASSUME DiskInv, Outage
  PROVE  CaInv'
<1>1. /\ outages \in Nat /\ outages' = outages + 1 /\ contents' = file'
      /\ stage' = [s \in Servers |-> "off"] /\ ca' = [s \in Servers |-> Nothing]
      /\ pc' = [s \in Servers |-> "idle"] /\ UNCHANGED <<minted, served, users>>
  BY Zenon, CaOnDiskAssumption DEF Outage, PowerFails, DiskInv, CaInv, CaTypes
<1>2. CaTypes'
  BY <1>1 DEF DiskInv, CaInv, CaTypes, Stages, Pairs, Nothing
<1>3. SaveInv' /\ ServersInv'
  BY Zenon, <1>1 DEF SaveInv, ServersInv, PairOK, SoleOK
<1>4. KeptInv'
  BY <1>1 DEF KeptInv
<1> QED BY Zenon, <1>2, <1>3, <1>4 DEF CaInv

(* Every step of a server and every outage keeps the invariant.            *)
LEMMA DiskSteps == DiskInv /\ [CaOnDiskNext]_cd => DiskInv'
<1> SUFFICES ASSUME DiskInv, [CaOnDiskNext]_cd PROVE DiskInv'
  OBVIOUS
<1>1. PosixInv'
  BY Zenon, DiskIsPosix, PosixSteps DEF DiskInv
<1>2. CASE UNCHANGED cd
  <2>1. CaTypes' /\ ServersInv' /\ KeptInv'
    BY Zenon, <1>2 DEF cd, cs, DiskInv, CaInv, CaTypes, ServersInv, KeptInv
  <2>2. SaveInv'
    BY Zenon, <1>2 DEF cd, cs, posix, DiskInv, CaInv, SaveInv, Target
  <2> QED BY Zenon, <1>1, <2>1, <2>2 DEF DiskInv, CaInv
<1>3. ASSUME NEW s \in Servers, outages' = outages,
             \/ SaveBegins(s) \/ SaveGoesOn(s) \/ SaveDone(s) \/ SaveFails(s)
             \/ Undo(s) \/ NoWrite(s)
      PROVE  CaInv'
  BY Zenon, <1>3, SavingKeepsInv, SaveDoneKeepsInv, SaveFailsKeepsInv, UndoKeepsInv, NoWriteKeepsInv
<1> QED BY Zenon, <1>1, <1>2, <1>3, OutageKeepsInv DEF DiskInv, CaOnDiskNext
-----------------------------------------------------------------------------
(* Every reachable state of the servers and the directory satisfies the    *)
(* inductive invariant.                                                    *)
THEOREM DiskInvHolds == CaOnDiskSpec => []DiskInv
BY DiskStarts, DiskSteps, PTL DEF CaOnDiskSpec

(* The servers drive the file backend only as PosixStore allows, so what   *)
(* is proved of posix_write for any writers holds under them as well.      *)
THEOREM ServersUsePosix == CaOnDiskSpec => PosixSpec
<1>1. CaOnDiskInit => PosixInit
  BY Zenon DEF CaOnDiskInit
<1> QED BY <1>1, DiskIsPosix, DiskInvHolds, PTL DEF CaOnDiskSpec, PosixSpec

(* ... so a CA half is never torn and every save is atomic, with the       *)
(* servers, their kills and the outages interleaved in any way.            *)
THEOREM CaFilesWhole == CaOnDiskSpec => []NeverTorn /\ WritesAtomically
BY ServersUsePosix, NeverTornHolds, WritesAtomicallyHolds, PTL

(* What a server reads as its store is the directory, at every system call *)
(* of every save: a rename writes exactly the half wolfcert_ca_save is at. *)
THEOREM StoreIsDirectory == CaOnDiskSpec => [](contents = file)
<1>1. DiskInv => contents = file
  BY Zenon DEF DiskInv, CaInv, SaveInv
<1> QED BY <1>1, DiskInvHolds, PTL

(* wolfcert_ca_load, ca_check_stored_pair and wolfcert_ca_save: a server   *)
(* serves with both halves of one CA, whoever else writes the store.       *)
THEOREM ServesMatchedPairHolds == CaOnDiskSpec => []ServesMatchedPair
<1>1. DiskInv => ServesMatchedPair
  BY Zenon DEF DiskInv, CaInv, ServersInv, PairOK, ServesMatchedPair
<1> QED BY <1>1, DiskInvHolds, PTL

(* The users of a store when there is one of them.                         *)
LEMMA OneUser ==
  ASSUME DiskInv, Cardinality(users) = 1
  PROVE  \E u : users = {u}
BY Zenon, FS_Singleton DEF DiskInv, CaInv, CaTypes

(* A server alone on its store keeps the CA it served with, whatever fails *)
(* and wherever it is killed, as long as the machine has power.            *)
THEOREM KeptWhilePoweredHolds == CaOnDiskSpec => []KeptWhilePowered
<1>1. ASSUME DiskInv PROVE KeptWhilePowered
  <2> SUFFICES ASSUME outages = 0, Cardinality(users) = 1, served # {}
               PROVE  \E c \in Cas : served = {c} /\ contents = [n \in Names |-> c]
    BY Zenon DEF KeptWhilePowered, StoredCaIsKept
  <2>1. PICK u : users = {u}
    BY Zenon, <1>1, OneUser
  <2>2. u \in Servers
    BY Zenon, <1>1, <2>1 DEF DiskInv, CaInv, CaTypes
  <2>3. PICK c \in Cas : served = {c} /\ \A n \in Names : contents[n] = c
    BY Zenon, <1>1, <2>1, <2>2 DEF DiskInv, CaInv, KeptInv
  <2>4. contents = [n \in Names |-> c]
    BY Zenon, <1>1, <2>3, Readable DEF Pairs
  <2> QED BY Zenon, <2>3, <2>4
<1> QED BY <1>1, DiskInvHolds, PTL

(* wolfcert_server_start on a store of its own: a half it did not write    *)
(* itself stays, also when an earlier crash or outage left it.             *)
THEOREM HalfPairOutlivesCrashHolds == CaOnDiskSpec => HalfPairOutlivesCrash
<1>1. DiskInv /\ [CaOnDiskNext]_cd => [outages' = outages => HalfPairStays]_cd
  <2> SUFFICES ASSUME DiskInv, CaOnDiskNext, outages' = outages, Cardinality(users) = 1,
                      Cardinality({n \in Names : contents[n] # NoCa}) = 1,
                      contents' # contents
               PROVE  \E s \in Servers :
                        /\ stage[s] \in {"savekey", "rollback"}
                        /\ contents["ca.cert.der"] = ca[s]["ca.cert.der"]
    BY Zenon DEF HalfPairStays
  <2>1. PICK u : users = {u}
    BY Zenon, OneUser
  <2>2. PICK s \in Servers : SaveDone(s) \/ Undo(s)
    <3>1. ~Outage
      BY DEF Outage, DiskInv, CaInv, CaTypes
    <3> QED BY Zenon, <3>1 DEF CaOnDiskNext, SaveBegins, SaveGoesOn, SaveFails, NoWrite, cs,
               SaveKeyFails, End, Start, ReadCert, ReadKey, Generate, Serve
  <2>3. stage[s] \in {"savecert", "savekey", "rollback"}
    BY Zenon, <2>2 DEF SaveDone, SaveCert, SaveKey, Undo, Rollback
  <2>4. SoleOK(stage[s], ca[s], contents)
    BY Zenon, <2>1, <2>3, AtRest
  <2>5. stage[s] # "savecert"
    <3>1. ASSUME stage[s] = "savecert" PROVE {n \in Names : contents[n] # NoCa} = {}
      BY Zenon, <2>4, <3>1 DEF SoleOK
    <3> QED BY <3>1, FS_EmptySet
  <2> QED BY Zenon, <2>3, <2>4, <2>5 DEF SoleOK
<1> QED BY <1>1, DiskInvHolds, PTL DEF CaOnDiskSpec, HalfPairOutlivesCrash
-----------------------------------------------------------------------------
(* Between connections the server thread holds nothing of the last one, and *)
(* a handshake begins with no history.                                      *)
Between ==
  /\ at \in {"poll", "check", "accept", "returned"} =>
       ~open /\ ~tls /\ ~armed /\ deadline = "none"
  /\ at \in {"poll", "check", "accept", "returned", "handshake"} =>
       ~within /\ ~gaveUp /\ late = 0

(* Why a second transfer cannot be late: one that was late leaves the       *)
(* server stopping, and a server that should stop is inside no transfer     *)
(* that it has not entered before.                                          *)
LateInv ==
  /\ late <= 1
  /\ late > 0 => IoShouldStop
  /\ within => late = 0

(* Why nothing follows an answer that was given up: the reason is permanent. *)
GaveUpInv ==
  /\ gaveUp => IoShouldStop \/ peer = "reset"
  /\ gaveUp /\ within => peer = "reset"

(* The two halves of the type invariant: the flags of srv, and the rest.    *)
Flags ==
  /\ within \in BOOLEAN /\ stopping \in BOOLEAN /\ armed \in BOOLEAN
  /\ tls \in BOOLEAN /\ keepAlive \in BOOLEAN /\ ok \in BOOLEAN
  /\ open \in BOOLEAN /\ gaveUp \in BOOLEAN

Ranges ==
  /\ at \in Places
  /\ deadline \in {"none", "running", "passed"}
  /\ peer \in {"open", "closed", "reset"}
  /\ need \in Nat /\ part \in Nat /\ wire \in Nat /\ unread \in Nat
  /\ out \in Nat /\ late \in Nat

Rest == Ranges /\ Between /\ LateInv /\ GaveUpInv

LoopInv == Flags /\ Rest

-----------------------------------------------------------------------------

(* The server starts with no connection and no history.                     *)
LEMMA LoopInitInv == LoopInit => LoopInv
<1>1. LoopInit => Flags
  BY Zenon DEF LoopInit, Flags
<1>2. LoopInit => Rest
  BY DEF LoopInit, Rest, Ranges, Between, LateInv, GaveUpInv, IoShouldStop, Places
<1> QED BY Zenon, <1>1, <1>2 DEF LoopInv

(* Every step leaves the flags of srv Boolean.                              *)
LEMMA FlagSteps ==
  ASSUME Flags, [LoopNext]_vars
  PROVE  Flags'
<1> USE DEF Flags
<1>1. CASE Poll \/ Check \/ AcceptFails \/ HandshakeWants \/ HandshakeFails
  BY Zenon, <1>1 DEF Poll, Check, AcceptFails, HandshakeWants, HandshakeFails, Go, past
<1>2. CASE Accept
  <2>1. gaveUp' \in BOOLEAN /\ open' \in BOOLEAN /\ armed' \in BOOLEAN
    BY Zenon, <1>2 DEF Accept
  <2> QED BY Zenon, <1>2, <2>1 DEF Accept, StartRequest
<1>3. CASE HandshakeDone
  <2>1. tls' \in BOOLEAN
    BY Zenon, <1>3 DEF HandshakeDone
  <2> QED BY Zenon, <1>3, <2>1 DEF HandshakeDone, StartRequest
<1>4. CASE RecvEnter
  <2>1. CASE within' = TRUE
    BY Zenon, <1>4, <2>1 DEF RecvEnter, Answer
  <2>2. CASE Answer(FALSE, FALSE)
    BY Zenon, <1>4, <2>2 DEF RecvEnter, Answer
  <2> QED BY Zenon, <1>4, <2>1, <2>2 DEF RecvEnter
<1>5. CASE RecvData
  BY Zenon, <1>5 DEF RecvData, Answer
<1>6. CASE RecvEnds \/ RecvErrors \/ RecvWants \/ PhaWants
  BY Zenon, <1>6 DEF RecvEnds, RecvErrors, RecvWants, PhaWants, Answer
<1>7. CASE PhaEnds
  BY Zenon, <1>7 DEF PhaEnds, Answer
<1>8. CASE SendEnter
  BY Zenon, <1>8 DEF SendEnter, PartDone
<1>9. CASE SendData
  BY Zenon, <1>9 DEF SendData
<1>10. CASE SendFails \/ SendErrors
  BY Zenon, <1>10 DEF SendFails, SendErrors, PartDone, past
<1>11. CASE Again
  BY Zenon, <1>11 DEF Again, StartRequest, Go
<1>12. CASE Teardown
  BY Zenon, <1>12 DEF Teardown
<1>13. CASE Stop \/ Tick
  BY Zenon, <1>13 DEF Stop, Tick, thread, past
<1>14. CASE Peer
  BY Zenon, <1>14 DEF Peer, PeerSends, PeerReads, PeerCloses, PeerResets, thread, past
<1>15. CASE UNCHANGED vars
  BY Zenon, <1>15 DEF vars, thread, past
<1> QED BY Zenon, <1>1, <1>2, <1>3, <1>4, <1>5, <1>6, <1>7, <1>8, <1>9, <1>10, <1>11,
           <1>12, <1>13, <1>14, <1>15 DEF LoopNext, Run, TlsAnswer, IoErrors

(* A step of wolfcert_server_run before a connection is accepted, or after  *)
(* the last request on it, keeps the invariant.                             *)
LEMMA BetweenSteps ==
  ASSUME LoopInv, \/ Poll \/ Check \/ AcceptFails \/ Accept
                  \/ HandshakeWants \/ HandshakeFails \/ HandshakeDone
                  \/ Again \/ Teardown
  PROVE  Rest'
<1> USE LoopAssumption DEF LoopInv, Flags, Rest, Ranges, Between, LateInv,
                           GaveUpInv, IoShouldStop, Places
<1>1. CASE Poll
  BY Zenon, <1>1 DEF Poll, Go, link, past
<1>2. CASE Check
  BY Zenon, <1>2 DEF Check, Go, link, past
<1>3. CASE AcceptFails
  BY <1>3 DEF AcceptFails, Go, link, past
<1>4. CASE Accept
  BY <1>4 DEF Accept, StartRequest
<1>5. CASE HandshakeWants
  BY Zenon, <1>5 DEF HandshakeWants, Go, link, past
<1>6. CASE HandshakeFails
  BY Zenon, <1>6 DEF HandshakeFails, Go, link, past
<1>7. CASE HandshakeDone
  BY <1>7 DEF HandshakeDone, StartRequest, link
<1>8. CASE Again
  BY <1>8 DEF Again, KeepsServing, StartRequest, Go, link
<1>9. CASE Teardown
  BY <1>9 DEF Teardown
<1> QED BY Zenon, <1>1, <1>2, <1>3, <1>4, <1>5, <1>6, <1>7, <1>8, <1>9

(* Receiving a request, and waiting for post-handshake authentication,      *)
(* keeps the invariant: wolfcert_io_recv is entered only when the server    *)
(* should not stop, so it is the first late transfer if it is late.         *)
LEMMA RecvSteps ==
  ASSUME LoopInv, \/ RecvEnter \/ RecvData \/ RecvEnds \/ RecvErrors \/ RecvWants
                  \/ PhaEnds \/ PhaWants
  PROVE  Rest'
<1> USE LoopAssumption DEF LoopInv, Flags, Rest, Ranges, Between, LateInv,
                           GaveUpInv, IoShouldStop, Places
<1>1. CASE RecvEnter
  BY <1>1 DEF RecvEnter, MayTransfer, Answer, link
<1>2. CASE RecvData
  <2>1. /\ at = "recv" /\ within /\ wire > 0 /\ late' = Late
        /\ UNCHANGED <<stopping, peer, unread, gaveUp>>
    BY Zenon, <1>2 DEF RecvData
  <2>2. PICK k \in 1..wire :
          /\ wire' = wire - k
          /\ \/ /\ k < need
                /\ need' = need - k /\ within' = FALSE
                /\ UNCHANGED <<at, deadline, armed, tls, keepAlive, ok, part, open,
                               out>>
             \/ /\ k >= need
                /\ \E rc, keep \in BOOLEAN : Answer(rc, keep)
             \/ /\ k >= need /\ tls
                /\ at' = "pha" /\ need' = 0 /\ within' = FALSE
                /\ UNCHANGED <<deadline, armed, tls, keepAlive, ok, part, open, out>>
             \/ Answer(FALSE, FALSE)
    BY Zenon, <1>2 DEF RecvData
  <2>3. CASE k < need /\ need' = need - k /\ within' = FALSE
             /\ UNCHANGED <<at, deadline, armed, tls, keepAlive, ok, part, open, out>>
    BY <2>1, <2>2, <2>3 DEF Late
  <2>4. ASSUME NEW rc \in BOOLEAN, NEW keep \in BOOLEAN, Answer(rc, keep)
        PROVE  Rest'
    BY <2>1, <2>2, <2>4 DEF Late, Answer
  <2>5. CASE tls /\ at' = "pha" /\ need' = 0 /\ within' = FALSE
             /\ UNCHANGED <<deadline, armed, tls, keepAlive, ok, part, open, out>>
    BY <2>1, <2>2, <2>5 DEF Late
  <2> QED BY ONLY Zenon, <2>2, <2>3, <2>4, <2>5
<1>3. CASE RecvEnds \/ RecvErrors
  BY <1>3 DEF RecvEnds, RecvErrors, Answer, link
<1>4. CASE RecvWants
  BY <1>4 DEF RecvWants, Answer, link
<1>5. CASE PhaEnds
  BY <1>5 DEF PhaEnds, Answer, link
<1>6. CASE PhaWants
  BY <1>6 DEF PhaWants, Answer, link
<1> QED BY Zenon, <1>1, <1>2, <1>3, <1>4, <1>5, <1>6

(* Sending an answer keeps the invariant: send_all gives up because the     *)
(* server should stop or because the peer is gone, and neither is undone.   *)
LEMMA SendSteps ==
  ASSUME LoopInv, SendEnter \/ SendData \/ SendFails \/ SendErrors
  PROVE  Rest'
<1> USE LoopAssumption DEF LoopInv, Flags, Rest, Ranges, Between, LateInv,
                           GaveUpInv, IoShouldStop, Places
<1>1. CASE SendEnter
  <2>1. Sending /\ ~within /\ UNCHANGED <<stopping, link, out, late>>
    BY Zenon, <1>1 DEF SendEnter
  <2>2. CASE /\ part > 0 /\ MayTransfer /\ within' = TRUE
             /\ UNCHANGED <<at, deadline, armed, tls, keepAlive, ok, need, part,
                            open, gaveUp>>
    BY <2>1, <2>2 DEF Sending, MayTransfer, link
  <2>3. CASE part > 0 /\ ~MayTransfer /\ PartDone /\ gaveUp' = TRUE
    BY <2>1, <2>3 DEF Sending, MayTransfer, PartDone, link
  <2>4. CASE part = 0 /\ PartDone /\ UNCHANGED gaveUp
    BY <2>1, <2>4 DEF Sending, PartDone, link
  <2> QED BY Zenon, <1>1, <2>2, <2>3, <2>4 DEF SendEnter
<1>2. CASE SendData
  BY <1>2 DEF SendData, Sending, Late
<1>3. CASE SendFails
  BY <1>3 DEF SendFails, Sending, PartDone, link
<1>4. CASE SendErrors
  BY <1>4 DEF SendErrors, Sending, PartDone, link, past
<1> QED BY Zenon, <1>1, <1>2, <1>3, <1>4

(* wolfcert_server_stop, the clock and the peer keep the invariant: none of *)
(* them lets a stopped or reset connection go on.                           *)
LEMMA OtherSteps ==
  ASSUME LoopInv, Stop \/ Tick \/ Peer
  PROVE  Rest'
<1> USE LoopAssumption DEF LoopInv, Flags, Rest, Ranges, Between, LateInv,
                           GaveUpInv, IoShouldStop, Places
<1>1. CASE Stop
  BY Zenon, <1>1 DEF Stop, thread, link, past
<1>2. CASE Tick
  BY Zenon, <1>2 DEF Tick, link, past
<1>3. CASE PeerSends
  BY <1>3 DEF PeerSends, thread, past
<1>4. CASE PeerReads
  BY <1>4 DEF PeerReads, thread, past
<1>5. CASE PeerCloses
  BY Zenon, <1>5 DEF PeerCloses, thread, past
<1>6. CASE PeerResets
  BY Zenon, <1>6 DEF PeerResets, thread, past
<1> QED BY Zenon, <1>1, <1>2, <1>3, <1>4, <1>5, <1>6 DEF Peer

(* LoopInv is an inductive invariant of the server thread, its peer, the    *)
(* clock and the stopping thread together.                                  *)
THEOREM LoopInvHolds == LoopSpec => []LoopInv
<1>1. LoopInv /\ [LoopNext]_vars => LoopInv'
  <2> SUFFICES ASSUME LoopInv, [LoopNext]_vars PROVE LoopInv'
    OBVIOUS
  <2>1. ASSUME Run PROVE Rest'
    BY Zenon, <2>1, BetweenSteps, RecvSteps, SendSteps DEF Run
  <2>2. ASSUME TlsAnswer \/ IoErrors PROVE Rest'
    BY Zenon, <2>2, BetweenSteps, RecvSteps, SendSteps DEF TlsAnswer, IoErrors
  <2>3. ASSUME Stop \/ Tick \/ Peer PROVE Rest'
    BY Zenon, <2>3, OtherSteps
  <2>4. ASSUME UNCHANGED vars PROVE Rest'
    BY Zenon, <2>4 DEF vars, thread, link, past, LoopInv, Rest, Ranges, Between,
                LateInv, GaveUpInv, IoShouldStop
  <2>5. Flags'
    BY Zenon, FlagSteps DEF LoopInv
  <2>6. Rest'
    BY Zenon, <2>1, <2>2, <2>3, <2>4 DEF LoopNext
  <2> QED BY Zenon, <2>5, <2>6 DEF LoopInv
<1> QED BY <1>1, LoopInitInv, PTL DEF LoopSpec

(* The fields of srv and the connection keep their types.                   *)
THEOREM LoopTypeOKHolds == LoopSpec => []LoopTypeOK
<1>1. LoopInv => LoopTypeOK
  BY Zenon DEF LoopInv, Flags, Rest, Ranges, LoopTypeOK
<1> QED BY <1>1, LoopInvHolds, PTL

(* No state of one connection of wolfcert_server_run reaches the next.      *)
THEOREM NothingCarriedOverHolds == LoopSpec => []NothingCarriedOver
<1>1. LoopInv => NothingCarriedOver
  BY Zenon DEF LoopInv, Rest, Between, NothingCarriedOver
<1> QED BY <1>1, LoopInvHolds, PTL

(* At most one transfer completes after the deadline or the stop, however   *)
(* long the request and the answer and however the peer paces them.         *)
THEOREM OneLateTransferHolds == LoopSpec => []OneLateTransfer
<1>1. LoopInv => OneLateTransfer
  BY Zenon DEF LoopInv, Rest, LateInv, OneLateTransfer
<1> QED BY <1>1, LoopInvHolds, PTL

(* Nothing is sent on a connection after an answer on it was given up for   *)
(* the deadline, the stop or a reset peer.                                  *)
THEOREM GivenUpIsLastHolds == LoopSpec => GivenUpIsLast
<1>1. LoopInv /\ [LoopNext]_vars => [gaveUp => out' <= out]_vars
  <2> SUFFICES ASSUME LoopInv, LoopNext, gaveUp PROVE out' = out \/ out' = 0
    BY DEF LoopInv, Rest, Ranges
  <2>0. gaveUp /\ within => peer = "reset"
    BY Zenon DEF LoopInv, Rest, GaveUpInv
  <2>1. CASE Run
    <3>1. CASE SendData
      BY Zenon, <2>0, <3>1 DEF SendData
    <3>2. CASE Again \/ Accept
      BY Zenon, <3>2 DEF Again, Accept, StartRequest
    <3>3. CASE SendEnter \/ SendFails
      BY Zenon, <3>3 DEF SendEnter, SendFails
    <3>4. CASE RecvEnter \/ RecvData \/ RecvEnds \/ RecvWants \/ PhaWants
      BY Zenon, <3>4 DEF RecvEnter, RecvData, RecvEnds, RecvWants, PhaWants, Answer
    <3>5. CASE Poll \/ Check \/ AcceptFails \/ HandshakeWants \/ Teardown
      BY Zenon, <3>5 DEF Poll, Check, AcceptFails, HandshakeWants, Teardown, past
    <3> QED BY Zenon, <2>1, <3>1, <3>2, <3>3, <3>4, <3>5 DEF Run
  <2>2. CASE TlsAnswer \/ IoErrors
    BY Zenon, <2>2 DEF TlsAnswer, HandshakeDone, HandshakeFails, PhaEnds, StartRequest,
                IoErrors, RecvErrors, SendErrors, Answer, past
  <2>3. CASE Stop \/ Tick \/ Peer
    BY Zenon, <2>3 DEF Stop, Tick, Peer, PeerSends, PeerReads, PeerCloses, PeerResets,
                past
  <2> QED BY Zenon, <2>1, <2>2, <2>3 DEF LoopNext
<1> QED BY <1>1, LoopInvHolds, PTL DEF LoopSpec, GivenUpIsLast
=============================================================================
