------------------------------- MODULE CaStore -------------------------------
(***************************************************************************)
(* How a server comes by its CA: wolfcert_server_start loads the pair      *)
(* ca.cert.der / ca.key.der from the configured store, mints and saves a   *)
(* new CA only when both are absent, and rolls a half-saved pair back.     *)
(* The store is any backend that keeps the contract of AtomicStore; each   *)
(* access may fail.  A server may stop, or be killed between two accesses, *)
(* and start again; several may share a store.                             *)
(***************************************************************************)
EXTENDS Naturals, FiniteSets

CONSTANTS
  Servers,     \* server processes
  NoCa,        \* nothing stored, nothing loaded
  MaxCas,      \* bound: CAs minted
  MaxStarts    \* bound: calls of wolfcert_server_start

ASSUME CaStoreAssumption == MaxCas \in Nat /\ MaxStarts \in Nat /\ NoCa \notin Nat

Cas == 1..MaxCas
Names == {"ca.cert.der", "ca.key.der"}

VARIABLES
  contents,  \* the store: which CA the certificate and the key belong to
  stage,     \* Servers -> where wolfcert_server_start is
  ca,        \* Servers -> s->ca, by file name: the halves in memory
  \* bounds and history
  minted, starts,
  served,    \* CAs some server has served with
  users      \* servers that ever started on the store

cs == <<contents, stage, ca, minted, starts, served, users>>

Store == INSTANCE AtomicStore WITH Keys <- Names, Values <- Cas, NoValue <- NoCa

Nothing == [n \in Names |-> NoCa]

CaStoreInit ==
  /\ Store!StoreInit
  /\ stage = [s \in Servers |-> "off"]
  /\ ca = [s \in Servers |-> Nothing]
  /\ minted = 0 /\ starts = 0 /\ served = {} /\ users = {}

Goto(s, l) == stage' = [stage EXCEPT ![s] = l]

(* The fail: path of wolfcert_server_start, which frees the CA; also the   *)
(* server stopped and freed, or killed.                                    *)
Off(s) == Goto(s, "off") /\ ca' = [ca EXCEPT ![s] = Nothing]
-----------------------------------------------------------------------------
Start(s) ==
  /\ stage[s] = "off" /\ starts < MaxStarts
  /\ Goto(s, "readcert") /\ starts' = starts + 1 /\ users' = users \cup {s}
  /\ UNCHANGED <<contents, ca, minted, served>>

(* wolfcert_ca_load: the certificate and then the key are read; a read that*)
(* fails otherwise than by NOT_FOUND ends the start.                       *)
ReadCert(s) ==
  /\ stage[s] = "readcert"
  /\ Goto(s, "readkey")
  /\ ca' = [ca EXCEPT ![s]["ca.cert.der"] = contents["ca.cert.der"]]
  /\ UNCHANGED <<contents, minted, starts, served, users>>

Loaded_HalfIsEmpty(pair) ==
  IF \E n \in Names : pair[n] = NoCa THEN "generate"
  ELSE IF pair["ca.cert.der"] = pair["ca.key.der"] THEN "start" ELSE "off"

Loaded_NoPairCheck(pair) ==
  IF \A n \in Names : pair[n] = NoCa THEN "generate"
  ELSE IF \A n \in Names : pair[n] # NoCa THEN "start" ELSE "off"

(* What the two reads amount to: no CA yet, a pair that passes             *)
(* ca_check_stored_pair, or a store the server refuses to start from.      *)
Loaded(pair) ==
  IF \A n \in Names : pair[n] = NoCa THEN "generate"
  ELSE IF pair["ca.cert.der"] = pair["ca.key.der"] THEN "start" ELSE "off"

ReadKey(s) ==
  LET pair == [ca[s] EXCEPT !["ca.key.der"] = contents["ca.key.der"]] IN
  /\ stage[s] = "readkey"
  /\ Goto(s, Loaded(pair))
  /\ ca' = [ca EXCEPT ![s] = IF Loaded(pair) = "start" THEN pair ELSE Nothing]
  /\ UNCHANGED <<contents, minted, starts, served, users>>

Generate(s) ==
  /\ stage[s] = "generate" /\ minted < MaxCas
  /\ minted' = minted + 1
  /\ ca' = [ca EXCEPT ![s] = [n \in Names |-> minted']]
  /\ Goto(s, "savecert")
  /\ UNCHANGED <<contents, starts, served, users>>

(* wolfcert_ca_save                                                        *)
SaveCert(s) ==
  /\ stage[s] = "savecert"
  /\ Store!StoreWrite("ca.cert.der", ca[s]["ca.cert.der"])
  /\ Goto(s, "savekey")
  /\ UNCHANGED <<ca, minted, starts, served, users>>

SaveKey(s) ==
  /\ stage[s] = "savekey"
  /\ Store!StoreWrite("ca.key.der", ca[s]["ca.key.der"])
  /\ Goto(s, "start")
  /\ UNCHANGED <<ca, minted, starts, served, users>>

SaveKeyFails_Serves(s) ==
  /\ stage[s] = "savekey"
  /\ Goto(s, "start")
  /\ UNCHANGED <<contents, ca, minted, starts, served, users>>

SaveKeyFails(s) ==
  /\ stage[s] = "savekey"
  /\ Goto(s, "rollback")
  /\ UNCHANGED <<contents, ca, minted, starts, served, users>>

Rollback(s) ==
  /\ stage[s] = "rollback"
  /\ Store!StoreRemove("ca.cert.der")
  /\ Off(s)
  /\ UNCHANGED <<minted, starts, served, users>>

(* The protocol's start, TLS and the listener; then the server serves.     *)
Serve(s) ==
  /\ stage[s] = "start"
  /\ Goto(s, "serving")
  /\ served' = served \cup {ca[s]["ca.cert.der"]}
  /\ UNCHANGED <<contents, ca, minted, starts, users>>

(* A store access or a later step of the start fails, the server is        *)
(* stopped, or the process is killed: the store stays as it is.            *)
End(s) ==
  /\ stage[s] # "off"
  /\ Off(s)
  /\ UNCHANGED <<contents, minted, starts, served, users>>

CaStoreNext ==
  \E s \in Servers :
    \/ Start(s) \/ ReadCert(s) \/ ReadKey(s) \/ Generate(s)
    \/ SaveCert(s) \/ SaveKey(s) \/ SaveKeyFails(s) \/ Rollback(s)
    \/ Serve(s) \/ End(s)

CaStoreSpec == CaStoreInit /\ [][CaStoreNext]_cs
-----------------------------------------------------------------------------
(* Properties                                                              *)

(* A server never serves with a certificate and a key of different CAs,    *)
(* nor with half a pair, even when several servers save their pairs into   *)
(* one store at the same time.                                             *)
ServesMatchedPair ==
  \A s \in Servers : stage[s] = "serving" =>
    ca[s]["ca.cert.der"] # NoCa /\ ca[s]["ca.cert.der"] = ca[s]["ca.key.der"]

(* The identity clients trust is permanent: once a server using the store  *)
(* alone has served with a CA, the store holds that CA whole, and no       *)
(* restart, failed access or crash makes a later start serve with another. *)
StoredCaIsKept ==
  Cardinality(users) = 1 /\ served # {} =>
    \E c \in Cas : served = {c} /\ contents = [n \in Names |-> c]

(* Half a pair is evidence of a CA that may have been used: on a store of  *)
(* its own a server completes or removes only the half it has just written *)
(* itself, and one left by a crash stays for the operator to look at.      *)
HalfPairStays ==
  /\ Cardinality(users) = 1
  /\ Cardinality({n \in Names : contents[n] # NoCa}) = 1
  /\ contents' # contents
  => \E s \in Servers :
       /\ stage[s] \in {"savekey", "rollback"}
       /\ contents["ca.cert.der"] = ca[s]["ca.cert.der"]
=============================================================================
