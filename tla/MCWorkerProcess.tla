--------------------------- MODULE MCWorkerProcess ---------------------------
(* Two workers, a threshold of three, a bucket of one token.               *)
EXTENDS WorkerProcess
=============================================================================
