---------------------------- MODULE MCWorkerPool ----------------------------
(***************************************************************************)
(* Model checking of WorkerPool: two workers and up to three items.  Two   *)
(* workers are enough for every interleaving of one worker with another    *)
(* and with the client; three items let a worker have one recorded, one in *)
(* hand and one waiting.                                                   *)
(***************************************************************************)
EXTENDS WorkerPool
=============================================================================
