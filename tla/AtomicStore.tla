----------------------------- MODULE AtomicStore -----------------------------
(***************************************************************************)
(* What wolfcert/store.h promises of a storage backend (WolfCertStoreOps): *)
(* a write replaces the value of a key atomically or leaves it alone, and a*)
(* remove deletes it or leaves it alone.  A read returns the whole value   *)
(* or "absent" and changes nothing.                                        *)
(***************************************************************************)
CONSTANTS Keys, Values, NoValue

VARIABLE contents   \* Keys -> Values, NoValue when absent

StoreInit == contents = [k \in Keys |-> NoValue]

StoreWrite(k, v) == contents' = [contents EXCEPT ![k] = v]

StoreRemove(k) == contents' = [contents EXCEPT ![k] = NoValue]

StoreNext ==
  \E k \in Keys : StoreRemove(k) \/ \E v \in Values : StoreWrite(k, v)

StoreSpec == StoreInit /\ [][StoreNext]_contents
=============================================================================
