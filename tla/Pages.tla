------------------------------- MODULE Pages --------------------------------
(* The three browser pages the API serves, as tables: what each of their   *)
(* functions asks of the API and what it loads again afterwards. Prefix op:*)
(* the operator console (ui_handler.go); ad: the dead letter page          *)
(* (admin_handler.go); cl: the clients' dashboard (client_ui_handler.go).  *)
EXTENDS FiniteSets

(* A loader: does it show a spinner first, and what does the view show     *)
(* when the request is refused, and when there is no answer to it ("keep": *)
(* what it showed).                                                        *)
Loader(v, spins, refused, lost) ==
    [view |-> v, spins |-> spins, refused |-> refused, lost |-> lost]

(* A function that posts to a handler, the views it loads afterwards, and  *)
(* when: after any answer or none, after any answer, after a success.      *)
Click(handler, reloads, when) == [handler |-> handler, reloads |-> reloads, when |-> when]

(***************************************************************************)
(* The operator console                                                    *)
(***************************************************************************)

op_loadStats == Loader("stats", TRUE, "error", "error")
op_loadWorkers == Loader("workers", TRUE, "error", "error")
op_loadRateLimits == Loader("rates", TRUE, "error", "error")
op_loadCircuitBreakers == Loader("breakers", TRUE, "error", "error")
op_loadPanicButtons == Loader("panic", FALSE, "error", "error")
op_loadDLQ == Loader("dlq", TRUE, "error", "error")
op_loadClients == Loader("clients", TRUE, "empty", "empty")
op_loadWebhooks == Loader("webhooks", TRUE, "error", "error")
op_loadJobTypes == Loader("types", TRUE, "empty", "empty")
op_searchJobs == Loader("jobs", TRUE, "error", "error")
op_openJobDetail == Loader("detail", FALSE, "keep", "keep")
op_openDLQDetail == Loader("failedDetail", FALSE, "keep", "keep")
op_loadDAG == Loader("dag", FALSE, "empty", "empty")

op_createJob == Click("CreateJob", {}, "if_ok")
op_resetBreaker == Click("ResetCircuitBreaker", {"breakers"}, "always")
op_pauseQueue == Click("PauseQueue", {"panic"}, "always")
op_resumeQueue == Click("ResumeQueue", {"panic"}, "always")
op_replayDLQId == Click("ReplayFailedJob", {"dlq"}, "always")
op_deleteDLQId == Click("DeleteFailedJob", {"dlq"}, "always")
op_replayDLQ == Click("ReplayFailedJob", {"dlq"}, "always")
op_deleteDLQ == Click("DeleteFailedJob", {"dlq"}, "always")
op_bulkPurgeDLQ == Click("BulkPurgeDLQ", {"dlq"}, "always")
op_revokeClient == Click("RevokeClient", {"clients"}, "always")
op_rotateClientKey == Click("RotateClientKey", {"clients"}, "always")
op_registerWebhook == Click("RegisterWebhook", {"webhooks"}, "if_ok")
op_createJobType == Click("CreateJobType", {"types"}, "if_ok")
op_deleteJobType == Click("DeleteJobType", {"types"}, "always")

(* Bug: the kind of the dead letter queue's events is not known.           *)
op_onmessageNoDLQ(kind) ==
    CASE kind = "job" -> {"stats", "breakers"}
      [] kind = "rate_limit" -> {"rates"}
      [] kind = "circuit_breaker" -> {"breakers"}
      [] OTHER -> {}

op_onmessage(kind) ==
    CASE kind = "job" -> {"stats", "breakers"}
      [] kind = "rate_limit" -> {"rates"}
      [] kind = "circuit_breaker" -> {"breakers"}
      [] kind = "dlq" -> {"dlq"}
      [] OTHER -> {}

op_loadEverything ==
    {"dlq", "workers", "stats", "breakers", "rates", "webhooks", "types", "panic"}

(***************************************************************************)
(* The dead letter page                                                    *)
(***************************************************************************)

ad_loadDLQ == Loader("dlq", TRUE, "empty", "empty")
ad_loadWorkers == Loader("workers", FALSE, "keep", "empty")
ad_openDLQDetail == Loader("failedDetail", FALSE, "empty", "keep")
ad_replayDLQ == Click("ReplayFailedJob", {"dlq"}, "always")
ad_purgeDLQ == Click("DeleteFailedJob", {"dlq"}, "always")
ad_onmessage(kind) == IF kind \in {"dlq", "job"} THEN {"dlq"} ELSE {}
ad_loadDashboard == {"dlq", "workers"}

(***************************************************************************)
(* The clients' dashboard                                                  *)
(***************************************************************************)

cl_refreshStats == Loader("stats", FALSE, "keep", "keep")
cl_loadRecentJobs == Loader("recent", FALSE, "error", "error")
cl_loadJobs == Loader("jobs", TRUE, "empty", "error")
cl_loadDLQ == Loader("dlq", TRUE, "empty", "error")
cl_viewJob == Loader("detail", TRUE, "empty", "error")
cl_loadWebhooks == Loader("webhooks", FALSE, "empty", "error")
cl_loadJobTypes == Loader("types", FALSE, "keep", "keep")

cl_replayJob == Click("ReplayFailedJob", {"dlq"}, "if_ok")
cl_deleteFromDLQ == Click("DeleteFailedJob", {"dlq"}, "if_ok")
cl_cancelJob == Click("CancelJob", {"jobs"}, "unless_lost")
cl_pauseJob == Click("PauseJob", {"jobs"}, "unless_lost")
cl_submitJob == Click("CreateJob", {}, "if_ok")
cl_saveWebhook == Click("RegisterWebhook", {"webhooks"}, "if_ok")
cl_deleteWebhook == Click("DeleteWebhook", {"webhooks"}, "unless_lost")

cl_onmessage(kind) == {"stats", "recent"}
cl_bootstrap == {"stats", "types", "recent"}

(***************************************************************************)
(* By page                                                                 *)
(***************************************************************************)

Pages == {"operator", "admin", "client"}

Loaders(p) ==
    CASE p = "operator" ->
            {op_loadStats, op_loadWorkers, op_loadRateLimits, op_loadCircuitBreakers,
             op_loadPanicButtons, op_loadDLQ, op_loadClients, op_loadWebhooks, op_loadJobTypes,
             op_searchJobs, op_openJobDetail, op_openDLQDetail, op_loadDAG}
      [] p = "admin" -> {ad_loadDLQ, ad_loadWorkers, ad_openDLQDetail}
      [] p = "client" ->
            {cl_refreshStats, cl_loadRecentJobs, cl_loadJobs, cl_loadDLQ, cl_viewJob,
             cl_loadWebhooks, cl_loadJobTypes}

Clicks(p) ==
    CASE p = "operator" ->
            {op_createJob, op_resetBreaker, op_pauseQueue, op_resumeQueue, op_replayDLQId,
             op_deleteDLQId, op_replayDLQ, op_deleteDLQ, op_bulkPurgeDLQ, op_revokeClient,
             op_rotateClientKey, op_registerWebhook, op_createJobType, op_deleteJobType}
      [] p = "admin" -> {ad_replayDLQ, ad_purgeDLQ}
      [] p = "client" ->
            {cl_replayJob, cl_deleteFromDLQ, cl_cancelJob, cl_pauseJob, cl_submitJob,
             cl_saveWebhook, cl_deleteWebhook}

Onmessage(p, kind) ==
    CASE p = "operator" -> op_onmessage(kind)
      [] p = "admin" -> ad_onmessage(kind)
      [] p = "client" -> cl_onmessage(kind)

FirstLoads(p) ==
    CASE p = "operator" -> op_loadEverything
      [] p = "admin" -> ad_loadDashboard
      [] p = "client" -> cl_bootstrap

Views(p) == {l.view : l \in Loaders(p)}
LoaderOf(p, v) == CHOOSE l \in Loaders(p) : l.view = v

(* The answer to a request decides whether the page loads again.           *)
Reloads(click, answer) ==
    CASE click.when = "always" -> TRUE
      [] click.when = "unless_lost" -> answer # "lost"
      [] click.when = "if_ok" -> answer = "ok"
=============================================================================
