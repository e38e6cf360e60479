------------------------------ MODULE Console -------------------------------
(* A page in a browser, the handlers it talks to, the event stream between *)
(* them (sse/broker.go, JobEventsSSE) and everybody else who calls the API *)
(* meanwhile. One view of the page is watched: the views do not read each  *)
(* other. Its access is Access; beside the browser, the key and the login  *)
(* traffic of Access are behaviours of their own.                          *)
EXTENDS Access, Handlers, Pages, Bags

CONSTANTS Watched,       \* triples <<page, view, role>> to watch
          Traffic,       \* subset of {"keys", "logins", "browser"}
          MaxCalls,      \* bound: calls that change the view or publish
          MaxReads,      \* bound: loads in flight
          MaxClicks,     \* bound: actions of the user
          MaxFaults,     \* bound: requests and streams the network loses
          MaxVisits,     \* bound: times the page is opened
          MaxSignIns,    \* bound: logins and registrations of the browser
          MaxEvents,     \* bound: calls, clicks and faults together
          PageTime,      \* bound: the clock of the browser traffic
          ChanCap        \* 64 in the code

VARIABLES traffic, page, view, role,
          place,     \* where the browser is
          stored,    \* the key in the browser's local storage, 0: none
          calls,     \* calls so far that changed the view or published
          touched,   \* those that changed the view
          pub,       \* changes whose event is still to be published
          chan,      \* the subscriber's channel
          stream,    \* the server's end: none, open, late (past WriteTimeout)
          source,    \* the EventSource's readyState
          sseState, timer,
          asked,     \* loads not yet served
          answers,   \* bag of answers on their way
          shown,     \* what the view shows, and as of which call
          req,       \* the request of a click
          best,      \* history: the newest call the view has shown
          missed,    \* history: changes the page had no way to learn of
          clicks, faults, visits

streamVars == <<stream, source, sseState, timer>>
viewVars == <<asked, answers, shown, best>>
serverVars == <<calls, touched>>
countVars == <<clicks, faults, visits>>
watchVars == <<traffic, page, view, role>>
browserVars == <<place, stored, serverVars, pub, chan, streamVars, viewVars, req, missed, countVars>>
vars == <<accessVars, watchVars, browserVars>>

(* The dashboard's tenant.                                                 *)
Home == CHOOSE t \in Tenants : TRUE
Told(what, n) == [what |-> what, n |-> n]
NoReq == [phase |-> "none", click |-> [again |-> FALSE, when |-> "always"], answer |-> "none",
          n |-> 0, silent |-> FALSE]

TypeOK ==
    /\ AccessTypeOK
    /\ place \in {"login", "opening", "page"} /\ stored \in 0 .. MaxKeys
    /\ touched \subseteq 1 .. calls /\ missed \subseteq 0 .. calls
    /\ stream \in {"none", "open", "late"} /\ source \in {"none", "connecting", "open", "closed"}
    /\ sseState \in {"connecting", "connected", "reconnecting", "disconnected"}
    /\ Len(chan) <= ChanCap /\ (stream = "none" => chan = << >>)
    /\ asked + BagCardinality(answers) <= MaxReads
    /\ shown.what \in {"blank", "spinner", "error", "empty", "data"} /\ shown.n \in 0 .. calls

Init ==
    /\ AccessInit
    /\ traffic \in Traffic
    /\ \E w \in (IF traffic = "browser" THEN Watched ELSE {CHOOSE w \in Watched : TRUE}) :
          page = w[1] /\ view = w[2] /\ role = w[3]
    /\ traffic = "browser" => session = 0 /\ (page = "client" \/ owner = << >>)
    /\ place = "login" /\ stored \in {0} \cup (IF traffic = "browser" THEN live ELSE {})
    /\ calls = 0 /\ touched = {} /\ pub = {} /\ missed = {}
    /\ stream = "none" /\ source = "none" /\ sseState = "connecting" /\ timer = FALSE
    /\ chan = << >>
    /\ asked = 0 /\ answers = EmptyBag /\ shown = Told("blank", 0) /\ best = 0
    /\ req = NoReq
    /\ clicks = 0 /\ faults = 0 /\ visits = 0

Room == calls + clicks + faults < MaxEvents
ClickOnce == Room /\ clicks < MaxClicks /\ clicks' = clicks + 1
Fault == Room /\ faults < MaxFaults /\ faults' = faults + 1

(***************************************************************************)
(* The server                                                              *)
(***************************************************************************)

Writes == {"CreateJob", "CreateJobBatch", "UpdateJobProgress", "PauseJob", "ResumeJob",
           "CancelJob", "ReplayFailedJob", "DeleteFailedJob", "BulkPurgeDLQ",
           "ResetCircuitBreaker", "PauseQueue", "ResumeQueue", "CreateJobType",
           "DeleteJobType", "RegisterClient", "RevokeClient", "RotateClientKey",
           "UpdateClientConfig", "RegisterWebhook", "UpdateWebhook", "DeleteWebhook"}

Handle(h, a, s, j) ==
    CASE h = "CreateJob" -> CreateJob(a, s, j)
      [] h = "CreateJobBatch" -> CreateJobBatch(a, s, j)
      [] h = "UpdateJobProgress" -> UpdateJobProgress(a, s, j)
      [] h = "PauseJob" -> PauseJob(a, s, j)
      [] h = "ResumeJob" -> ResumeJob(a, s, j)
      [] h = "CancelJob" -> CancelJob(a, s, j)
      [] h = "ReplayFailedJob" -> ReplayFailedJob(a, s, j)
      [] h = "DeleteFailedJob" -> DeleteFailedJob(a, s, j)
      [] h = "BulkPurgeDLQ" -> BulkPurgeDLQ(a, s, j)
      [] h = "ResetCircuitBreaker" -> ResetCircuitBreaker(a, s, j)
      [] h = "PauseQueue" -> PauseQueue(a, s, j)
      [] h = "ResumeQueue" -> ResumeQueue(a, s, j)
      [] h = "CreateJobType" -> CreateJobType(a, s, j)
      [] h = "DeleteJobType" -> DeleteJobType(a, s, j)
      [] h = "RegisterClient" -> RegisterClient(a, s, j)
      [] h = "RevokeClient" -> RevokeClient(a, s, j)
      [] h = "RotateClientKey" -> RotateClientKey(a, s, j)
      [] h = "UpdateClientConfig" -> UpdateClientConfig(a, s, j)
      [] h = "RegisterWebhook" -> RegisterWebhook(a, s, j)
      [] h = "UpdateWebhook" -> UpdateWebhook(a, s, j)
      [] h = "DeleteWebhook" -> DeleteWebhook(a, s, j)

(* A watch is a page, one of its views and the user's role. The page's     *)
(* user, and the other callers: an operator and the clients.               *)
User(w) == IF w[1] = "client" THEN KeyOf(Home) ELSE SessionOf(w[3])
Others == {SessionOf("admin")} \cup {KeyOf(t) : t \in Tenants}

View(w, s) ==
    LET a == User(w) v == w[2]
    IN  CASE v = "dlq" -> ListFailedJobs(a, s)
          [] v = "stats" -> GetStats(a, s)
          [] v \in {"jobs", "recent"} -> ListJobs(a, s)
          [] v = "detail" -> GetJobStatus(a, s)
          [] v = "failedDetail" -> GetFailedJobDetail(a, s)
          [] v = "dag" -> GetJobDeps(a, s)
          [] v = "workers" -> GetWorkers(s)
          [] v = "rates" -> GetRateLimits(s)
          [] v = "breakers" -> GetCircuitBreakers(s)
          [] v = "panic" -> GetPausedQueues(s)
          [] v = "types" -> ListJobTypes(s)
          [] v = "clients" -> ListClients(s)
          [] v = "webhooks" -> ListWebhooks(a, s)

(* The events the page means to refresh the view from. StaleHasACause is   *)
(* stated with these, so they are kept apart from Onmessage, which acts.   *)
Follows(w) ==
    CASE w[1] = "operator" /\ w[2] = "stats" -> {"job"}
      [] w[1] = "operator" /\ w[2] = "breakers" -> {"job", "circuit_breaker"}
      [] w[1] = "operator" /\ w[2] = "rates" -> {"rate_limit"}
      [] w[1] = "operator" /\ w[2] = "dlq" -> {"dlq"}
      [] w[1] = "admin" /\ w[2] = "dlq" -> {"dlq", "job"}
      [] w[1] = "client" /\ w[2] \in {"stats", "recent"} ->
            {"job", "rate_limit", "circuit_breaker", "dlq"}
      [] OTHER -> {}

(* An event as far as the page tells it from others. A view that follows   *)
(* none does not need the stream.                                          *)
Seen(w, ev) ==
    LET tenant == IF w[1] = "client" THEN ev.tenant ELSE NoTenant
    IN  CASE ev = NoEvent \/ Follows(w) = {} -> NoEvent
          [] ev.kind \in Follows(w) -> Event(ev.kind, tenant)
          [] OTHER -> Event("other", tenant)

(* What the outcomes of a call in any state of the server can be to the    *)
(* page: does its view change, what is published, is it a success.         *)
Effect(w, s, o) == [touch |-> View(w, o.srv) # View(w, s), ev |-> Seen(w, o.ev),
                    ok |-> Success(o)]
Effects(w, h, a) ==
    UNION {{Effect(w, s, o) : o \in Handle(h, a, s, j)} : s \in SomeServers, j \in Jobs}
Counts(e) == e.touch \/ e.ev # NoEvent

(* Of the other callers, the calls the page could notice; the workers'     *)
(* steps are not published by this process.                                *)
CallsOf(w) == UNION {{e \in Effects(w, h, a) : Counts(e)} : h \in Writes, a \in Others}
StepsOf(w) ==
    UNION {{e \in {Effect(w, s, Answer(t, 0)) : t \in WorkerSteps(s)} : Counts(e)} :
             s \in SomeServers}

(* Tables of the above, computed once: what others can do to the view, and *)
(* what the page's own clicks can (a pair of the click and an effect).     *)
OtherEffects ==
    [w \in Watched |-> {[e EXCEPT !.ok = TRUE] : e \in CallsOf(w) \cup StepsOf(w)}]
OwnEffects ==
    [w \in Watched |->
        UNION {{<<[again |-> w[2] \in c.reloads, when |-> c.when], e>> :
                   e \in Effects(w, c.handler, User(w))} : c \in Clicks(w[1])}]

Watch == <<page, view, role>>
OtherCalls == OtherEffects[Watch]
OwnCalls(c) == {x[2] : x \in {y \in OwnEffects[Watch] : y[1] = c}}

(* The clicks that load the view or change it: the others do to it what    *)
(* the calls of others do.                                                 *)
OwnClicks == {x[1] : x \in {y \in OwnEffects[Watch] : y[1].again \/ y[2].touch}}

(* RequireAuth.                                                            *)
CheckAccess(ok) ==
    \/ page # "client" /\ ok = SessionGet /\ GetSession
    \/ page = "client" /\ AuthKey(stored, ok)

Silent(e) == e.touch /\ e.ev.kind \notin Follows(Watch)

(* A handler's change; what it publishes comes after it.                   *)
Change(e) ==
    IF Counts(e)
    THEN /\ calls < MaxCalls /\ calls' = calls + 1
         /\ touched' = IF e.touch THEN touched \cup {calls + 1} ELSE touched
         /\ pub' = IF e.ev = NoEvent THEN pub ELSE pub \cup {[n |-> calls + 1, ev |-> e.ev]}
    ELSE UNCHANGED <<calls, touched, pub>>

(* A call of somebody else, or a step of the workers.                      *)
OtherCall ==
    /\ place = "page" /\ Room
    /\ \E e \in OtherCalls :
          /\ Change(e)
          /\ missed' = IF Silent(e) THEN missed \cup {calls + 1} ELSE missed
    /\ UNCHANGED <<accessVars, watchVars, place, stored, chan, streamVars, viewVars, req, countVars>>

(***************************************************************************)
(* The event stream                                                        *)
(***************************************************************************)

(* Broker.Publish: a subscriber whose channel is full is passed over.      *)
Publish ==
    /\ \E p \in pub :
          /\ pub' = pub \ {p}
          /\ IF stream # "none" /\ Len(chan) < ChanCap
             THEN chan' = Append(chan, p) /\ UNCHANGED missed
             ELSE missed' = missed \cup {p.n} /\ UNCHANGED chan
    /\ UNCHANGED <<accessVars, watchVars, place, stored, serverVars, streamVars, viewVars, req, countVars>>

(* Bug: the timer is not set when the connection breaks.                   *)
onerrorUntimed(state) ==
    /\ source' = state
    /\ sseState' = (CASE page = "operator" /\ sseState \in {"connected", "connecting"} -> "reconnecting"
                      [] page = "client" -> "disconnected"
                      [] OTHER -> sseState)
    /\ UNCHANGED timer

(* onerror: the browser tries again, or has given up (closed).             *)
onerror(state) ==
    /\ source' = state
    /\ sseState' = (CASE page = "operator" /\ sseState \in {"connected", "connecting"} -> "reconnecting"
                      [] page = "client" -> "disconnected"
                      [] OTHER -> sseState)
    /\ timer' = (page = "operator")

onopen == source' = "open" /\ sseState' = "connected" /\ timer' = FALSE

(* connectEvents, and every attempt of the EventSource after an error. An  *)
(* answer other than 200 closes it for good.                               *)
Connect ==
    /\ source = "connecting"
    /\ \/ /\ CheckAccess(TRUE)
          /\ stream' = "open" /\ onopen
          /\ UNCHANGED faults
       \/ /\ CheckAccess(FALSE)
          /\ onerror("closed") /\ UNCHANGED <<stream, faults>>
       \/ /\ Fault
          /\ onerror("connecting")
          /\ UNCHANGED <<accessVars, stream>>
    /\ UNCHANGED <<watchVars, place, stored, serverVars, pub, chan, viewVars, req, missed, clicks, visits>>

(* Unsubscribe: what the channel still holds is lost.                      *)
EndStream ==
    /\ stream' = "none" /\ chan' = << >>
    /\ missed' = missed \cup {chan[i].n : i \in DOMAIN chan}
    /\ onerror("connecting")

DropStream ==
    /\ stream # "none"
    /\ Fault
    /\ EndStream
    /\ UNCHANGED <<accessVars, watchVars, place, stored, serverVars, pub, viewVars, req, clicks, visits>>

(* The server's WriteTimeout counts from the request.                      *)
Deadline ==
    /\ stream = "open" /\ stream' = "late"
    /\ UNCHANGED <<accessVars, watchVars, place, stored, serverVars, pub, chan, source, sseState, timer,
                   viewVars, req, missed, countVars>>

(* Bug: the stream is not checked again once it is open.                   *)
CheckSessionOnce ==
    /\ page # "client" /\ stream # "none" /\ ~SessionGet
    /\ GetSession
    /\ UNCHANGED <<watchVars, browserVars>>

(* The ticker of JobEventsSSE. What it writes reaches the page as a message*)
(* without a kind, not as a session_expired event: the blank line after    *)
(* the event's name ends an event that has no data.                        *)
CheckSession ==
    /\ page # "client" /\ stream # "none" /\ ~SessionGet
    /\ GetSession
    /\ EndStream
    /\ UNCHANGED <<watchVars, place, stored, serverVars, pub, viewVars, req, countVars>>

(* The eight seconds after an error.                                       *)
DisconnectTimer ==
    /\ timer /\ timer' = FALSE
    /\ sseState' = IF source = "closed" THEN "disconnected" ELSE sseState
    /\ UNCHANGED <<accessVars, watchVars, place, stored, serverVars, pub, chan, stream, source, viewVars,
                   req, missed, countVars>>

(***************************************************************************)
(* The page                                                                *)
(***************************************************************************)

(* The watched view is loaded if it is one of these.                       *)
Ask(views) ==
    IF view \in views
    THEN /\ asked + BagCardinality(answers) < MaxReads
         /\ asked' = asked + 1
         /\ shown' = IF LoaderOf(page, view).spins THEN Told("spinner", shown.n) ELSE shown
         /\ UNCHANGED <<answers, best>>
    ELSE UNCHANGED viewVars

(* sseEventMatchesTenant, for a client's stream.                           *)
MatchesTenant(ev) == page = "client" => ev.tenant = owner[stored]

Deliver ==
    /\ stream # "none" /\ chan # << >>
    /\ LET e == Head(chan)
       IN  \/ /\ ~MatchesTenant(e.ev)
              /\ chan' = Tail(chan) /\ missed' = missed \cup {e.n}
              /\ UNCHANGED <<streamVars, viewVars>>
           \/ /\ MatchesTenant(e.ev) /\ stream = "open"
              /\ chan' = Tail(chan)
              /\ timer' = FALSE
              /\ sseState' = IF page = "operator" THEN "connected" ELSE sseState
              /\ Ask(Onmessage(page, e.ev.kind))
              /\ UNCHANGED <<stream, source, missed>>
           \/ /\ MatchesTenant(e.ev) /\ stream = "late"
              /\ EndStream
              /\ UNCHANGED viewVars
    /\ UNCHANGED <<accessVars, watchVars, place, stored, serverVars, pub, req, countVars>>

Fresh ==
    /\ stream' = "none" /\ chan' = << >> /\ timer' = FALSE /\ sseState' = "connecting"
    /\ answers' = EmptyBag /\ best' = 0 /\ req' = NoReq

(* The page is there: it loads its views and connects.                     *)
Show(views) ==
    /\ place' = "page" /\ visits' = visits + 1
    /\ Fresh
    /\ source' = IF Follows(Watch) = {} THEN "none" ELSE "connecting"
    /\ asked' = IF view \in views THEN 1 ELSE 0
    /\ shown' = Told(IF asked' = 1 /\ LoaderOf(page, view).spins THEN "spinner" ELSE "blank", 0)

Redirect(to) == place' = to /\ UNCHANGED <<chan, streamVars, viewVars, req, visits>>

(* The login page of the operators, when it has loaded: GET /session       *)
(* answers 200 with or without a session, and the page takes that for one. *)
(* (A viewer is sent to the public page and opens the console from there.) *)
op_loginLoads ==
    /\ page # "client" /\ place = "login"
    /\ GetSession
    /\ Redirect("opening") /\ UNCHANGED <<stored, faults>>

op_login ==
    /\ page # "client" /\ place = "login" /\ asks < MaxSignIns
    /\ \E ok \in BOOLEAN : Login(ok) /\ Redirect(IF ok THEN "opening" ELSE "login")
    /\ UNCHANGED <<stored, faults>>

(* loadSession of the console and of the dead letter page; no answer       *)
(* counts as no session.                                                   *)
op_loadSession ==
    /\ page # "client" /\ place = "opening"
    /\ GetSession
    /\ (SessionGet /\ Show(FirstLoads(page))) \/ Redirect("login")
    /\ UNCHANGED <<stored, faults>>

(* The clients' login page tries the key of the last time.                 *)
cl_loginLoads ==
    /\ page = "client" /\ place = "login" /\ stored # 0
    /\ \E ok \in BOOLEAN : /\ AuthKey(stored, ok)
                          /\ Redirect(IF ok THEN "opening" ELSE "login")
                          /\ stored' = IF ok THEN stored ELSE 0
    /\ UNCHANGED faults

cl_doLogin ==
    /\ page = "client" /\ place = "login"
    /\ \E k \in DOMAIN owner : AuthKey(k, TRUE) /\ stored' = k
    /\ Redirect("opening") /\ UNCHANGED faults

(* doRegister, and goToDashboard with the key it shows.                    *)
cl_doRegister ==
    /\ page = "client" /\ place = "login" /\ Len(owner) < MaxSignIns
    /\ NewKey(Home) /\ stored' = Len(owner')
    /\ UNCHANGED <<now, cache, session, hits, caller, asks, passed, dropped>>
    /\ Redirect("opening") /\ UNCHANGED faults

(* bootstrap of the dashboard. Without an answer it goes on all the same.  *)
cl_open ==
    /\ page = "client" /\ place = "opening"
    /\ \/ AuthKey(stored, TRUE) /\ Show(cl_bootstrap) /\ UNCHANGED <<stored, faults>>
       \/ /\ AuthKey(stored, FALSE)
          /\ stored' = 0 /\ Redirect("login") /\ UNCHANGED faults
       \/ Fault /\ Show({"recent"}) /\ UNCHANGED <<accessVars, stored>>

SignIn ==
    /\ visits < MaxVisits
    /\ \/ op_loginLoads \/ op_login \/ op_loadSession
       \/ cl_loginLoads \/ cl_doLogin \/ cl_doRegister \/ cl_open
    /\ UNCHANGED <<watchVars, serverVars, pub, missed, clicks>>

(* logout, also the idle timer's: the console's request has no token, the  *)
(* dashboard only forgets its key.                                         *)
Leave ==
    /\ place = "page" /\ place' = "login" /\ stored' = 0
    /\ IF page = "client" THEN UNCHANGED accessVars ELSE Logout(FALSE)
    /\ Fresh /\ source' = "none" /\ asked' = 0 /\ shown' = Told("blank", 0)
    /\ UNCHANGED <<watchVars, serverVars, pub, missed, countVars>>

(* A read handler answers from the state as it is.                         *)
ServeRead ==
    /\ asked > 0 /\ asked' = asked - 1
    /\ \/ \E ok \in BOOLEAN :
             /\ CheckAccess(ok)
             /\ answers' = answers (+) SetToBag({IF ok THEN Told("data", calls) ELSE Told("refused", 0)})
             /\ UNCHANGED faults
       \/ /\ Fault
          /\ \E what \in {"refused", "lost"} : answers' = answers (+) SetToBag({Told(what, 0)})
          /\ UNCHANGED accessVars
    /\ UNCHANGED <<watchVars, place, stored, serverVars, pub, chan, streamVars, shown, best, req, missed,
                   clicks, visits>>

(* The rest of a loader, after its await: the answers come in any order.   *)
ShowAnswer ==
    /\ \E x \in BagToSet(answers) :
          LET loader == LoaderOf(page, view)
              fallback == IF x.what = "lost" THEN loader.lost ELSE loader.refused
          IN  /\ answers' = answers (-) SetToBag({x})
              /\ IF x.what = "data"
                 THEN /\ shown' = x
                      /\ best' = IF x.n > best THEN x.n ELSE best
                      /\ UNCHANGED missed
                 ELSE /\ shown' = IF fallback = "keep" THEN shown ELSE Told(fallback, shown.n)
                      /\ missed' = missed \cup 1 .. calls
                      /\ UNCHANGED best
    /\ UNCHANGED <<accessVars, watchVars, place, stored, serverVars, pub, chan, streamVars, asked, req, countVars>>

(* The user: the refresh button, a view's own loader, or a request.        *)
Refresh ==
    /\ place = "page" /\ ClickOnce
    /\ \/ /\ page = "operator"
          /\ sseState' = IF sseState = "connected" THEN sseState ELSE "connecting"
          /\ Ask(op_loadEverything)
       \/ Ask({view}) /\ UNCHANGED sseState
    /\ UNCHANGED <<accessVars, watchVars, place, stored, serverVars, pub, chan, stream, source, timer, req,
                   missed, faults, visits>>

Post ==
    /\ place = "page" /\ req.phase = "none"
    /\ ClickOnce
    /\ \E c \in OwnClicks : req' = [NoReq EXCEPT !.phase = "sent", !.click = c]
    /\ UNCHANGED <<accessVars, watchVars, place, stored, serverVars, pub, chan, streamVars, viewVars, missed,
                   faults, visits>>

(* The checks in front of the handler, and the handler.                    *)
ServePost ==
    /\ req.phase = "sent"
    /\ \E ok \in BOOLEAN :
          /\ CheckAccess(ok)
          /\ IF ok /\ MayWrite(User(Watch), TRUE)
             THEN \E e \in OwnCalls(req.click) :
                     /\ Change(e)
                     /\ req' = [req EXCEPT !.phase = "answered", !.silent = Silent(e),
                                           !.n = IF Silent(e) THEN calls + 1 ELSE 0,
                                           !.answer = IF e.ok THEN "ok" ELSE "refused"]
                     /\ missed' = IF Silent(e) /\ ~req.click.again
                                  THEN missed \cup {calls + 1} ELSE missed
             ELSE /\ req' = [req EXCEPT !.phase = "answered", !.answer = "refused"]
                  /\ UNCHANGED <<serverVars, pub, missed>>
    /\ UNCHANGED <<watchVars, place, stored, chan, streamVars, viewVars, countVars>>

(* The request, or only its answer, is lost.                               *)
LosePost ==
    /\ req.phase \in {"sent", "answered"}
    /\ Fault
    /\ req' = [req EXCEPT !.phase = "answered", !.answer = "lost"]
    /\ UNCHANGED <<accessVars, watchVars, place, stored, serverVars, pub, chan, streamVars, viewVars, missed,
                   clicks, visits>>

(* What the function does after its await.                                 *)
AfterPost ==
    /\ req.phase = "answered" /\ req' = NoReq
    /\ IF req.click.again /\ Reloads(req.click, req.answer)
       THEN Ask({view}) /\ UNCHANGED missed
       ELSE /\ missed' = IF req.silent THEN missed \cup {req.n} ELSE missed
            /\ UNCHANGED viewVars
    /\ UNCHANGED <<accessVars, watchVars, place, stored, serverVars, pub, chan, streamVars, countVars>>

(***************************************************************************)
(* The specification                                                       *)
(***************************************************************************)

(* The clock runs as long as there is something that can run out.          *)
PageTick ==
    /\ place = "page" /\ now < PageTime
    /\ now <= session \/ \E k \in Keys : now <= cache[k]
    /\ Tick /\ UNCHANGED <<watchVars, browserVars>>

(* RevokeClient from elsewhere; the page sees no more of it than this.     *)
KeyRevoked ==
    /\ page = "client" /\ live # {}
    /\ \E t \in Tenants : live' = {k \in live : owner[k] # t} /\ dropped' = dropped \cup {t}
    /\ UNCHANGED <<now, owner, cache, session, hits, caller, asks, passed, watchVars, browserVars>>

Page ==
    \/ PageTick \/ KeyRevoked
    \/ SignIn \/ Leave
    \/ ServeRead \/ ShowAnswer \/ Refresh
    \/ Post \/ ServePost \/ LosePost \/ AfterPost
Stream ==
    \/ Publish \/ Connect \/ DropStream \/ Deadline \/ CheckSession \/ DisconnectTimer
    \/ Deliver

Next ==
    \/ traffic = "keys" /\ KeyNext /\ UNCHANGED <<watchVars, browserVars>>
    \/ traffic = "logins" /\ LoginNext /\ UNCHANGED <<watchVars, browserVars>>
    \/ traffic = "browser" /\ (Page \/ Stream \/ OtherCall)

(* The browser connects again and runs its timers; the server's ticker     *)
(* runs as long as the stream does.                                        *)
Fairness ==
    /\ WF_vars(traffic = "browser" /\ Connect)
    /\ WF_vars(traffic = "browser" /\ DisconnectTimer)
    /\ WF_vars(traffic = "browser" /\ CheckSession)

Spec == Init /\ [][Next]_vars /\ Fairness

(***************************************************************************)
(* Properties                                                              *)
(***************************************************************************)

AtRest == asked = 0 /\ answers = EmptyBag /\ req = NoReq /\ pub = {} /\ chan = << >>

(* Whatever the order of requests, events and answers, a page at rest      *)
(* shows every change of its view unless the change was never told to it:  *)
(* it was another's and no event the page follows was published, its event *)
(* met a full channel, a broken or late stream or the tenant's filter, a   *)
(* load or its own request failed, or an older answer came in last. And no *)
(* loader leaves its spinner.                                              *)
StaleHasACause ==
    place = "page" /\ AtRest =>
        /\ shown.what # "spinner"
        /\ shown.what = "data" =>
              \A n \in touched : n > shown.n => n \in missed \/ n <= best

(* The console's connectEvents: "reconnecting" does not stay: the stream   *)
(* comes back, or the timer finds the EventSource closed.                  *)
ReconnectingSettles ==
    (page = "operator" /\ sseState = "reconnecting")
        ~> (sseState \in {"connected", "disconnected"} \/ place # "page")

(* JobEventsSSE: the stream of a session that has expired or is deleted    *)
(* ends, however quiet it is.                                              *)
StreamEndsWithSession ==
    (page # "client" /\ stream # "none" /\ ~SessionGet) ~> stream = "none"
=============================================================================
