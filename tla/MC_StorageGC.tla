---------------------------- MODULE MC_StorageGC ----------------------------
(* Small instance of StorageGC: one task, two peers; two workers race to   *)
(* register the first peer's store, a third registers the second.          *)
EXTENDS StorageGC

CONSTANTS t1, p1, p2, w1, w2, w3, r1

MC_WorkerKey == (w1 :> <<t1, p1>>) @@ (w2 :> <<t1, p1>>) @@ (w3 :> <<t1, p2>>)

MC_ContentLength == (<<t1, p1>> :> 2) @@ (<<t1, p2>> :> 1)

MC_PeerOrder == <<p1, p2>>
=============================================================================
