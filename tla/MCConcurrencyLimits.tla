------------------------- MODULE MCConcurrencyLimits -------------------------
(* One job type and one tenant, shared by all jobs.                        *)
EXTENDS ConcurrencyLimits, TLC

CONSTANTS t1, n1

OneType   == [j \in Jobs |-> t1]
OneTenant == [j \in Jobs |-> n1]
LimitOne  == t1 :> 1
=============================================================================
