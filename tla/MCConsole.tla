----------------------------- MODULE MCConsole ------------------------------
(* One job of the tenant whose key the dashboard holds. The views of every *)
(* page for an administrator, one for a viewer. Left out are three views   *)
(* that are kept up to date as another of their page is: the operators'    *)
(* statistics (as the breakers, from the jobs' events) and rate limits (as *)
(* the dead letters, from a kind of their own), and the dashboard's        *)
(* statistics (as its recent jobs).                                        *)
EXTENDS Console

MCJobs == {"j1"}
MCTenantOf == [j \in MCJobs |-> "t1"]
MCWatched ==
    (UNION {{<<p, v, "admin">> : v \in Views(p)} : p \in Pages}
        \ {<<"operator", "stats", "admin">>, <<"operator", "rates", "admin">>,
           <<"client", "stats", "admin">>})
    \cup {<<"operator", "panic", "viewer">>}
=============================================================================
