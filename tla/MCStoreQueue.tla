---------------------------- MODULE MCStoreQueue ----------------------------
(* StoreQueue on a small instance: three threads, and a drain limit below the *)
(* number of calls, reach shared batches, a second batch of one holder and    *)
(* the hand-over of a queued write.                                           *)
EXTENDS StoreQueue, TLC

ThreadSymmetry == Permutations(Threads)
=============================================================================
