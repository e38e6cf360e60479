---------------------------- MODULE MCTaskQueue -----------------------------
(* Instances of TaskQueue for TLC: which worker belongs to which process,  *)
(* and which faults a behaviour has together.                              *)
EXTENDS TaskQueue, TLC

CONSTANTS w1, w2, i1, i2

OneProcess   == (w1 :> i1) @@ (w2 :> i1)
TwoProcesses == (w1 :> i1) @@ (w2 :> i2)
SingleWorker == w1 :> i1

(* One of a crash, a reclaim under a live worker, a client's replay and a  *)
(* client's cancel.                                                        *)
OneDisturbance == {{k, f} : k \in FaultKinds, f \in FaultKinds} \ {{k} : k \in FaultKinds}
=============================================================================
