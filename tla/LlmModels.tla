----------------------------- MODULE LlmModels -----------------------------
(***************************************************************************)
(* The models of the shared Ollama and their registration with LiteLLM:    *)
(* downloads, registration, synchronisation and deletion.                  *)
(*                                                                         *)
(* A download is made by a detached worker of the script hpc-ollama, which *)
(* leaves files behind: a lock directory, the worker's process ID and then *)
(* its model, the result, the log.  A coroutine of the portal watches them *)
(* and registers the model when it is complete.  A registration and an     *)
(* unregistration hold a lock on the model; nothing orders them with the   *)
(* script.                                                                 *)
(*                                                                         *)
(* A portal restart ends the calls and, as they belong to its service, the *)
(* workers; what is in files, at Ollama and at LiteLLM stays.              *)
(*                                                                         *)
(* A definition whose name begins with M_ is never used: it is the next    *)
(* definition with a plausible error, which the properties must notice.    *)
(***************************************************************************)
EXTENDS Naturals, FiniteSets

CONSTANTS
    Task,        \* requests of administrators in progress
    Model,
    Nobody,
    MaxCalls,    \* bound on requests
    MaxFaults,   \* bound on commands and requests that fail
    MaxCrashes   \* bound on restarts of the portal

ASSUME ConstantsAssumption ==
    /\ Task \cap Model = {}
    /\ Nobody \notin Task \cup Model
    /\ {MaxCalls, MaxFaults, MaxCrashes} \subseteq Nat

\* Those that register models: requests, and the watcher of a model's
\* download, which goes by the name of the model.
Actor == Task \cup Model

Op == {"register", "sync", "delete", "pull", "cancel", "status", "watch"}

\* Places: of a registration, of an unregistration, and of the rest.
Registering == {"has", "show", "info", "new", "verify", "drop"}
Unregistering == {"find", "remove"}
Place == {"idle", "lock", "unlist"} \cup Registering \cup Unregistering \cup
         {"names", "exists", "tags", "erase", "pull", "sweep", "mkdir", "started",
          "cancel", "clean", "poll", "files", "progress", "done", "failed"}

VARIABLES
    installed,   \* models Ollama has
    chat,        \* portal-managed ollama_chat/ deployments of a model, counted
    legacy,      \* models with a portal-managed ollama/ deployment
    lock,        \* model_lock: who holds it, or Nobody
    proc,        \* what each actor does
    worker,      \* each model's pull worker
    pulling,     \* the pull lock directory exists
    pid,         \* the model whose worker wrote the process ID file, or Nobody
    named,       \* the model in the file beside it, or Nobody
    last,        \* the model last downloaded, or Nobody
    result,      \* each model's result file
    logged,      \* models whose download log ends in success
    calls, faults, crashes,
    gone,        \* history: models reported deleted and not downloaded since
    noted,       \* history: models whose watcher logged a failure, or was lost
    misread,     \* history: models whose watcher saw their worker without their name
    disturbed    \* history: models whose worker lost its files to another call, whose
                 \* former watcher was at its end when they were pulled, or that were
                 \* being deleted then or later

deployments == <<chat, legacy>>
script == <<worker, pulling, pid, named, last, result, logged>>
history == <<gone, noted, misread, disturbed>>
vars == <<installed, deployments, lock, proc, script, calls, faults, crashes, history>>

Idle == [op |-> "none", at |-> "idle", model |-> Nobody, todo |-> 0, rest |-> {},
         second |-> FALSE]

TypeOK ==
    /\ installed \subseteq Model
    /\ chat \in [Model -> 0..1]    \* model_lock: no model is registered twice
    /\ legacy \subseteq Model
    /\ lock \in [Model -> Actor \cup {Nobody}]
    /\ proc \in [Actor -> [op : Op \cup {"none"}, at : Place, model : Model \cup {Nobody},
                           todo : 0..2, rest : SUBSET Model, second : BOOLEAN]]
    /\ worker \in [Model -> {"none", "spawned", "starting", "running", "complete"}]
    /\ pulling \in BOOLEAN
    /\ {pid, named, last} \subseteq Model \cup {Nobody}
    /\ result \in [Model -> {"none", "ok", "failed", "cancelled", "unclean"}]
    /\ logged \subseteq Model
    /\ calls \in 0..MaxCalls
    /\ faults \in 0..MaxFaults
    /\ crashes \in 0..MaxCrashes
    /\ gone \cup noted \cup misread \cup disturbed \subseteq Model

\* A release before ollama_chat/ left models with the old deployment.
Init ==
    /\ installed \in SUBSET Model
    /\ chat = [m \in Model |-> 0]
    /\ legacy \in SUBSET installed
    /\ lock = [m \in Model |-> Nobody]
    /\ proc = [a \in Actor |-> Idle]
    /\ worker = [m \in Model |-> "none"]
    /\ pulling = FALSE
    /\ pid = Nobody
    /\ named = Nobody
    /\ last = Nobody
    /\ result = [m \in Model |-> "none"]
    /\ logged = {}
    /\ calls = 0
    /\ faults = 0
    /\ crashes = 0
    /\ gone = {}
    /\ noted = {}
    /\ misread = {}
    /\ disturbed = {}

-----------------------------------------------------------------------------
At(a, place) == [proc[a] EXCEPT !.at = place]

\* An actor goes on; the model lock is held at the places of the with-blocks.
Go(a, p) ==
    /\ proc' = [proc EXCEPT ![a] = p]
    /\ lock' = [m \in Model |->
                  IF lock[m] = a /\ p.at \notin Registering \cup Unregistering
                  THEN Nobody ELSE lock[m]]
    /\ gone' = IF p.op = "delete" /\ p.at = "done" THEN gone \cup ({p.model} \ installed)
               ELSE gone

Unchanged == UNCHANGED <<script, calls, crashes, noted, misread, disturbed>>

\* A request or command that has the given effect or fails, in which case it
\* may have had the effect all the same.
Request(a, Effect, answered, refused) ==
    /\ \/ Effect /\ Go(a, answered) /\ UNCHANGED faults
       \/ /\ faults < MaxFaults
          /\ faults' = faults + 1
          /\ Effect \/ UNCHANGED <<installed, deployments>>
          /\ Go(a, refused)
    /\ Unchanged

Query(a, answered, refused) ==
    Request(a, UNCHANGED <<installed, deployments>>, answered, refused)

Step(a, p) ==
    Go(a, p) /\ Unchanged /\ UNCHANGED <<installed, deployments, faults>>

-----------------------------------------------------------------------------
\* The requests of administrators

BeginModelRequest(t) ==
    /\ proc[t].at = "idle"
    /\ calls < MaxCalls
    /\ calls' = calls + 1
    /\ \E m \in Model, start \in {<<"register", "exists">>, <<"delete", "tags">>,
                                  <<"pull", "pull">>, <<"cancel", "cancel">>,
                                  <<"status", "progress">>, <<"sync", "names">>} :
        /\ proc' = [proc EXCEPT ![t] = [Idle EXCEPT !.op = start[1], !.at = start[2],
                                                    !.model = m]]
        /\ disturbed' = IF start[1] = "delete" THEN disturbed \cup {m} ELSE disturbed
    /\ UNCHANGED <<installed, deployments, lock, script, faults, crashes, gone, noted, misread>>

-----------------------------------------------------------------------------
\* RegisterLlmModelUseCase

\* What its caller does next, with the lock given up.
Registered(a, good) ==
    CASE proc[a].op = "sync" /\ proc[a].rest # {} ->
            LET m == CHOOSE x \in proc[a].rest : TRUE
            IN  [At(a, "lock") EXCEPT !.model = m, !.rest = @ \ {m}]
      [] proc[a].op = "delete" -> At(a, "failed")
      [] OTHER -> At(a, IF good THEN "done" ELSE "failed")

M_LockModel(a) ==
    /\ proc[a].at \in {"lock", "unlist"}
    /\ Step(a, At(a, IF proc[a].at = "lock" THEN "has" ELSE "find"))

\* with model_lock(model)
LockModel(a) ==
    /\ proc[a].at \in {"lock", "unlist"}
    /\ lock[proc[a].model] = Nobody
    /\ lock' = [lock EXCEPT ![proc[a].model] = a]
    /\ proc' = [proc EXCEPT ![a].at = IF @ = "lock" THEN "has" ELSE "find"]
    /\ Unchanged
    /\ UNCHANGED <<installed, deployments, faults, gone>>

\* The model must be at Ollama, at the moment the lock is held.
HasModel(a) ==
    /\ proc[a].at = "has"
    /\ Query(a, IF proc[a].model \in installed THEN At(a, "show") ELSE Registered(a, FALSE),
             Registered(a, FALSE))

\* model_supports_tools
Show(a) ==
    /\ proc[a].at = "show"
    /\ Query(a, IF proc[a].model \in installed THEN At(a, "info") ELSE Registered(a, FALSE),
             Registered(a, FALSE))

\* An old deployment that is not the portal's ends it like a failure.
ModelInfo(a) ==
    /\ proc[a].at = "info"
    /\ Query(a, At(a, IF chat[proc[a].model] = 0 THEN "new" ELSE "verify"),
             Registered(a, FALSE))

NewModel(a) ==
    /\ proc[a].at = "new"
    /\ Request(a, chat' = [chat EXCEPT ![proc[a].model] = @ + 1] /\ UNCHANGED <<installed, legacy>>,
               At(a, "verify"), Registered(a, FALSE))

\* The new deployment must be seen before the old one is deleted.
VerifyNew(a) ==
    /\ proc[a].at = "verify"
    /\ LET m == proc[a].model
       IN  Query(a, IF chat[m] = 0 THEN Registered(a, FALSE)
                    ELSE IF m \in legacy THEN At(a, "drop") ELSE Registered(a, TRUE),
                 Registered(a, FALSE))

DropLegacy(a) ==
    /\ proc[a].at = "drop"
    /\ Request(a, legacy' = legacy \ {proc[a].model} /\ UNCHANGED <<installed, chat>>,
               Registered(a, TRUE), Registered(a, FALSE))

-----------------------------------------------------------------------------
\* UnregisterLlmModelUseCase: all portal-managed deployments of the model.

Unlisted(a) ==
    CASE proc[a].second -> At(a, "done")
      [] OTHER -> At(a, "erase")

Count(m) == chat[m] + (IF m \in legacy THEN 1 ELSE 0)

Find(a) ==
    /\ proc[a].at = "find"
    /\ LET n == Count(proc[a].model)
       IN  Query(a, IF n = 0 THEN Unlisted(a) ELSE [At(a, "remove") EXCEPT !.todo = n],
                 At(a, "failed"))

\* /model/delete of one of those listed; an error ends it.
Remove(a) ==
    /\ proc[a].at = "remove"
    /\ LET m == proc[a].model
           rest == IF proc[a].todo = 1 THEN [Unlisted(a) EXCEPT !.todo = 0]
                   ELSE [proc[a] EXCEPT !.todo = @ - 1]
       IN  IF Count(m) = 0 THEN Step(a, [At(a, "failed") EXCEPT !.todo = 0])
           ELSE Request(a, /\ UNCHANGED installed
                           /\ IF m \in legacy THEN legacy' = legacy \ {m} /\ UNCHANGED chat
                              ELSE chat' = [chat EXCEPT ![m] = @ - 1] /\ UNCHANGED legacy,
                        rest, [At(a, "failed") EXCEPT !.todo = 0])

-----------------------------------------------------------------------------
\* RegisterInstalledModelUseCase, SynchronizeInstalledModelsUseCase

CheckInstalled(t) ==
    /\ proc[t].at = "exists"
    /\ Query(t, At(t, IF proc[t].model \in installed THEN "lock" ELSE "failed"),
             At(t, "failed"))

ModelNames(t) ==
    /\ proc[t].at = "names"
    /\ Query(t, IF installed = {} THEN At(t, "done")
                ELSE LET m == CHOOSE x \in installed : TRUE
                     IN  [At(t, "lock") EXCEPT !.model = m, !.rest = installed \ {m}],
             At(t, "failed"))

-----------------------------------------------------------------------------
\* DeleteInstalledModelUseCase: unregister, delete, unregister.  "rest" keeps
\* whether Ollama had the model.

Tags(t) ==
    /\ proc[t].at = "tags"
    /\ Query(t, [At(t, "unlist") EXCEPT !.rest = {proc[t].model} \cap installed],
             At(t, "failed"))

\* The command fails for a model Ollama does not have; the model is then
\* registered again.
M_Erase(t) ==
    /\ proc[t].at = "erase"
    /\ Request(t, installed' = installed \ {proc[t].model} /\ UNCHANGED deployments,
               At(t, "done"), At(t, "lock"))

Erase(t) ==
    LET m == proc[t].model
        next == [At(t, "unlist") EXCEPT !.second = TRUE, !.rest = {}]
        back == [At(t, "lock") EXCEPT !.rest = {}]
    IN  /\ proc[t].at = "erase"
        /\ CASE m \notin proc[t].rest -> Step(t, next)
             [] m \in proc[t].rest /\ m \notin installed -> Step(t, back)
             [] OTHER ->
                  /\ \/ Go(t, next) /\ UNCHANGED faults /\ installed' = installed \ {m}
                     \/ /\ faults < MaxFaults /\ faults' = faults + 1
                        /\ Go(t, back)
                        /\ installed' \in {installed, installed \ {m}}
                  /\ last' = IF last = m /\ m \notin installed' THEN Nobody ELSE last
                  /\ result' = IF last = m /\ m \notin installed'
                               THEN [result EXCEPT ![m] = "none"] ELSE result
                  /\ UNCHANGED <<deployments, worker, pulling, pid, named, logged, calls,
                                 crashes, noted, misread, disturbed>>

-----------------------------------------------------------------------------
\* hpc-ollama pull

\* kill -0 of the process ID in the file
Alive == pid # Nobody /\ worker[pid] \in {"starting", "running", "complete"}

Working == {w \in Model : worker[w] # "none"}

\* Models whose downloads lose the lock when that of m gives it up.
Others(m) == Working \ {m}

Deleting(m) == \E t \in Task : proc[t].op = "delete" /\ proc[t].model = m

\* A worker's files without the worker ...
PullLooks(t) ==
    /\ proc[t].at = "pull"
    /\ Step(t, At(t, IF pid # Nobody /\ ~Alive THEN "sweep" ELSE "mkdir"))

\* ... are taken away, whosever they are by then.
PullSweeps(t) ==
    /\ proc[t].at = "sweep"
    /\ Go(t, At(t, "mkdir"))
    /\ pid' = Nobody
    /\ named' = Nobody
    /\ pulling' = FALSE
    /\ disturbed' = disturbed \cup Working
    /\ UNCHANGED <<installed, deployments, worker, last, result, logged, calls, faults,
                   crashes, noted, misread>>

\* The lock directory is made, the old result and log are removed, the worker
\* is started.
Pull(t) ==
    LET m == proc[t].model
    IN  /\ proc[t].at = "mkdir"
        /\ worker[m] = "none"    \* two workers for one model are left out
        /\ IF pulling
           THEN Go(t, At(t, "failed"))
                /\ UNCHANGED <<worker, pulling, last, result, logged, disturbed>>
           ELSE /\ Go(t, At(t, "started"))
                /\ pulling' = TRUE
                /\ last' = m
                /\ result' = [result EXCEPT ![m] = "none"]
                /\ logged' = logged \ {m}
                /\ worker' = [worker EXCEPT ![m] = "spawned"]
                /\ disturbed' = IF Others(m) = {} /\ ~Deleting(m) THEN disturbed \ {m}
                                ELSE disturbed \cup {m}
        /\ UNCHANGED <<installed, deployments, pid, named, calls, faults, crashes, noted,
                       misread>>

\* The command waits until there is a process ID or the worker is gone, and
\* PullLlmModelUseCase then starts a watcher unless the model has one.
M_PullStarted(t) ==
    /\ proc[t].at = "started"
    /\ pid # Nobody \/ worker[proc[t].model] = "none"
    /\ Step(t, At(t, "done"))

PullStarted(t) ==
    LET m == proc[t].model
        watched == [Idle EXCEPT !.op = "watch", !.at = "poll", !.model = m]
    IN  /\ proc[t].at = "started"
        /\ \/ /\ pid # Nobody \/ (worker[m] = "none" /\ result[m] = "ok")
              /\ proc' = [proc EXCEPT ![t].at = "done",
                                      ![m] = IF @.at = "idle" THEN watched ELSE @]
              /\ noted' = noted \ {m} /\ misread' = misread \ {m}
              /\ disturbed' = IF proc[m].at \in {"idle", "poll", "files"} THEN disturbed
                              ELSE disturbed \cup {m}
              /\ UNCHANGED <<worker, pulling, faults>>
           \/ /\ pid = Nobody /\ result[m] # "ok"
              /\ \/ worker[m] = "none" /\ UNCHANGED faults
                 \/ faults < MaxFaults /\ faults' = faults + 1    \* it takes too long
              /\ worker' = [worker EXCEPT ![m] = "none"]
              /\ pulling' = FALSE
              /\ proc' = [proc EXCEPT ![t].at = "failed"]
              /\ disturbed' = disturbed \cup Others(m)
              /\ UNCHANGED <<noted, misread>>
        /\ UNCHANGED <<installed, deployments, lock, pid, named, last, result, logged, calls,
                       crashes, gone>>

\* The worker writes its process ID, and then its model.
WorkerStarts(m) ==
    /\ worker[m] = "spawned"
    /\ worker' = [worker EXCEPT ![m] = "starting"]
    /\ pid' = m
    /\ UNCHANGED <<pulling, named, last, result, logged, installed, gone, disturbed>>

WorkerNames(m) ==
    /\ worker[m] = "starting"
    /\ worker' = [worker EXCEPT ![m] = "running"]
    /\ named' = m
    /\ UNCHANGED <<pulling, pid, last, result, logged, installed, gone, disturbed>>

WorkerInstalls(m) ==
    /\ worker[m] = "running"
    /\ worker' = [worker EXCEPT ![m] = "complete"]
    /\ installed' = installed \cup {m}
    /\ logged' = logged \cup {m}
    /\ gone' = gone \ {m}
    /\ UNCHANGED <<pulling, pid, named, last, result, disturbed>>

\* It leaves the result and removes its files, or those of another worker.
WorkerEnds(m) ==
    /\ \/ worker[m] = "complete" /\ result' = [result EXCEPT ![m] = "ok"]
       \/ worker[m] = "running" /\ result' = [result EXCEPT ![m] = "failed"]
    /\ worker' = [worker EXCEPT ![m] = "none"]
    /\ pid' = Nobody
    /\ named' = Nobody
    /\ pulling' = FALSE
    /\ disturbed' = disturbed \cup Others(m)
    /\ UNCHANGED <<last, logged, installed, gone>>

Worker(m) ==
    /\ WorkerStarts(m) \/ WorkerNames(m) \/ WorkerInstalls(m) \/ WorkerEnds(m)
    /\ UNCHANGED <<deployments, lock, proc, calls, faults, crashes, noted, misread>>

-----------------------------------------------------------------------------
\* hpc-ollama pull-cancel

Cancel(t) ==
    LET m == proc[t].model
        mine == named \in {m, Nobody}
    IN  /\ proc[t].at = "cancel"
        /\ IF mine /\ pid = m /\ Alive
           THEN Go(t, At(t, "clean")) /\ worker' = [worker EXCEPT ![m] = "none"]
           ELSE /\ UNCHANGED worker
                /\ Go(t, At(t, IF mine /\ ~Alive /\ result[m] = "unclean" THEN "clean"
                               ELSE IF mine /\ ~Alive /\ result[m] = "ok" THEN "done"
                               ELSE "failed"))
        /\ UNCHANGED <<installed, deployments, pulling, pid, named, last, result, logged,
                       calls, faults, crashes, noted, misread, disturbed>>

\* More than a second later, the partial files are removed, and the files of
\* a worker, whichever wrote them.
CancelClean(t) ==
    LET m == proc[t].model
    IN  /\ proc[t].at = "clean"
        /\ \/ /\ UNCHANGED faults
              /\ Go(t, At(t, "done"))
              /\ result' = [result EXCEPT ![m] = IF @ = "ok" THEN @ ELSE "cancelled"]
           \/ /\ faults < MaxFaults /\ faults' = faults + 1
              /\ result[m] # "ok"
              /\ Go(t, At(t, "failed"))
              /\ result' = [result EXCEPT ![m] = "unclean"]
        /\ pid' = Nobody
        /\ named' = Nobody
        /\ pulling' = FALSE
        /\ disturbed' = disturbed \cup Working
        /\ UNCHANGED <<installed, deployments, worker, last, logged, calls, crashes, noted,
                       misread>>

-----------------------------------------------------------------------------
\* OllamaClient.pull_progress and hpc-ollama pull-status for model m, which has
\* read before whose name was there.
Progress(m, seen) ==
    IF result[m] \in {"cancelled", "unclean"} /\ ~Alive THEN result[m]
    ELSE IF result[m] \notin {"none", "ok"} THEN "failed"
    ELSE IF m \in logged \/ result[m] = "ok" THEN "completed"
    ELSE IF ~Alive THEN "idle"
    ELSE IF seen = {m} THEN "pulling" ELSE "busy"

\* GetLlmModelPullStatusUseCase, to which the name says nothing.
PullStatus(t) ==
    /\ proc[t].at = "progress"
    /\ LET m == proc[t].model
       IN  Query(t, At(t, IF Progress(m, {named}) = "completed" THEN "lock" ELSE "done"),
                 At(t, "failed"))

\* WatchLlmModelPullUseCase: a poll reads the name, "rest", ...
PollName(m) ==
    /\ proc[m].at = "poll"
    /\ Step(m, [At(m, "files") EXCEPT !.rest = {named} \ {Nobody}])

\* ... and then the other files.  The watcher registers the model, polls again,
\* or ends; the poll may fail, or be the twentieth in a row that finds nothing,
\* which it logs.
Poll(m) ==
    LET state == Progress(m, proc[m].rest)
        Then(place) == Go(m, [At(m, place) EXCEPT !.rest = {}])
    IN  /\ proc[m].at = "files"
        /\ \/ state = "completed" /\ Then("lock") /\ UNCHANGED <<faults, misread>>
           \/ state \in {"idle", "pulling"} /\ Then("poll") /\ UNCHANGED <<faults, misread>>
           \/ /\ state \in {"failed", "busy", "cancelled", "unclean"}
              /\ Then("done") /\ UNCHANGED faults
              /\ misread' = IF state = "busy" /\ pid = m THEN misread \cup {m} ELSE misread
           \/ /\ \/ state = "idle" /\ UNCHANGED faults
                 \/ faults < MaxFaults /\ faults' = faults + 1
              /\ Then("failed") /\ UNCHANGED misread
        /\ UNCHANGED <<installed, deployments, script, calls, crashes, noted, disturbed>>

-----------------------------------------------------------------------------
\* A call is answered; a watcher ends.
Return(a) ==
    /\ proc[a].at \in {"done", "failed"}
    /\ Go(a, Idle)
    /\ noted' = IF a \in Model /\ proc[a].at = "failed" THEN noted \cup {a} ELSE noted
    /\ UNCHANGED <<installed, deployments, script, calls, faults, crashes, misread, disturbed>>

\* The portal is started again: calls, watchers, locks and workers are lost.
Crash ==
    /\ crashes < MaxCrashes
    /\ crashes' = crashes + 1
    /\ proc' = [a \in Actor |-> Idle]
    /\ lock' = [m \in Model |-> Nobody]
    /\ worker' = [m \in Model |-> "none"]
    /\ noted' = Model
    /\ UNCHANGED <<installed, deployments, pulling, pid, named, last, result, logged, calls,
                   faults, gone, misread, disturbed>>

RegisterLlmModel(a) ==
    LockModel(a) \/ HasModel(a) \/ Show(a) \/ ModelInfo(a) \/ NewModel(a) \/ VerifyNew(a)
    \/ DropLegacy(a)

UnregisterLlmModel(a) == Find(a) \/ Remove(a)

Next ==
    \/ \E a \in Actor : RegisterLlmModel(a) \/ UnregisterLlmModel(a) \/ Return(a)
    \/ \E t \in Task :
        \/ BeginModelRequest(t)
        \/ CheckInstalled(t) \/ ModelNames(t) \/ Tags(t) \/ Erase(t)
        \/ PullLooks(t) \/ PullSweeps(t) \/ Pull(t) \/ PullStarted(t)
        \/ Cancel(t) \/ CancelClean(t) \/ PullStatus(t)
    \/ \E m \in Model : Worker(m) \/ PollName(m) \/ Poll(m)
    \/ Crash

Spec == Init /\ [][Next]_vars

-----------------------------------------------------------------------------
\* Properties

\* DeleteInstalledModelUseCase: a model that was reported deleted, and was
\* not downloaded again, is not offered at LiteLLM, although a registration
\* may have found it at Ollama before it was deleted.
GoneIsUnregistered == \A m \in gone \ installed : Count(m) = 0

\* Somebody is about to register the model, or to start its watcher.
Awaited(m) ==
    \/ \E a \in Actor : proc[a].model = m /\ proc[a].at # "idle"
    \/ \E t \in Task : proc[t].op = "sync" /\ proc[t].at # "idle"

\* PullLlmModelUseCase, ModelPullScheduler and WatchLlmModelPullUseCase: a
\* model that was downloaded is registered, or will be, unless its watcher
\* logged a failure or was lost, saw the worker without the model's name,
\* another call took its worker's files away, the watcher of an earlier
\* download was just about to end, or an administrator deleted the model.
PulledIsWatched ==
    \A m \in Model \ (noted \cup misread \cup disturbed) :
        result[m] = "ok" /\ m \in installed => Count(m) > 0 \/ Awaited(m)
=============================================================================
