----------------------------- MODULE JobRoutes -----------------------------
(***************************************************************************)
(* The jobs users start from the portal and the routes by which the proxy  *)
(* (CHP) forwards to them.                                                 *)
(*                                                                         *)
(* A server (a spawner of JupyterHub) submits a Slurm job and registers    *)
(* two routes: the primary one, whose host name holds the job ID, and an   *)
(* alias below the portal's own host name.  Independently of that,         *)
(* check_routes compares the routes with the servers from time to time,    *)
(* with many waits in between, repairs what is missing and deletes what no *)
(* server needs.  JupyterHub, batchspawner, Slurm and CHP are modelled as  *)
(* far as the portal's code uses them.                                     *)
(*                                                                         *)
(* A definition whose name begins with M_ is never used: it is the next    *)
(* definition with a plausible error, which the properties must notice.    *)
(***************************************************************************)
EXTENDS Naturals, Sequences, FiniteSets

CONSTANTS
    Server,      \* named servers
    User,
    Port,        \* ports of Open WebUI, which the name of its server decides
    None,
    MaxJobs,     \* bound on Slurm jobs
    MaxCalls,    \* bound on starts and stops
    MaxFaults    \* bound on commands and requests to CHP that fail and on
                 \* restarts of the Hub and of CHP

ASSUME ConstantsAssumption ==
    /\ None \notin Server \cup User \cup Port
    /\ {MaxJobs, MaxCalls, MaxFaults} \subseteq Nat

App == {"lab", "openwebui"}
Job == 1..MaxJobs

\* Where CHP forwards to: the port the name decides, the port the job chose
\* for itself, or the port computed from the job ID, where nobody listens.
Target == ({"port"} \X Port) \cup ({"own", "guess"} \X Job)

\* Routespecs: job<ID>.<domain>/..., without a job the server's path at the
\* Hub's domain (job 0), and the alias.
Spec_ == ({"job"} \X Server \X (0..MaxJobs)) \cup ({"alias"} \X Server \X {0})

\* Places of a server.
Started == {"submit", "route", "tcp", "wait", "register", "sync", "up", "ready"}
Stopping == {"unroute", "halt"}
Place == {"idle", "restored", "begin", "key", "abort"} \cup Started \cup Stopping

VARIABLES
    names,     \* owner of each server and the port its name decides
    spawner,   \* each server
    known,     \* servers that are in the spawners of their user
    jobs,      \* Slurm's jobs, in the order of their IDs
    routes,    \* CHP: the target of each route
    check,     \* the run of check_routes
    stopper,   \* StopUserOpenWebuiJobsUseCase in progress or completed
    calls, faults,
    restored   \* history: servers taken over after a restart

vars == <<names, spawner, known, jobs, routes, check, stopper, calls, faults, restored>>
bounds == <<calls, faults>>

NoServer == [at |-> "idle", app |-> "lab", job |-> 0, spec |-> 0, alias |-> FALSE,
             port |-> None, host |-> None, second |-> FALSE, halted |-> FALSE]
NoCheck == [at |-> "idle", todo |-> {}, routes |-> <<>>, good |-> {}, server |-> None,
            key |-> None, target |-> None, mode |-> "none", changed |-> FALSE, adds |-> {}, dels |-> {}]
NoStopper == [at |-> "idle", user |-> None, todo |-> {}, ids |-> {}, before |-> {},
              failed |-> FALSE]

TypeOK ==
    /\ names \in [Server -> [user : User, port : Port]]
    /\ spawner \in [Server -> [at : Place, app : App, job : 0..MaxJobs, spec : 0..MaxJobs,
                               alias : BOOLEAN, port : Target \cup {None},
                               host : Target \cup {None}, second : BOOLEAN,
                               halted : BOOLEAN]]
    /\ known \subseteq Server
    /\ jobs \in Seq([server : Server, app : App, state : {"queued", "running", "ended"}])
    /\ Len(jobs) <= MaxJobs
    /\ DOMAIN routes \subseteq Spec_ /\ \A k \in DOMAIN routes : routes[k] \in Target
    /\ check.at \in {"idle", "poll", "add", "addalias", "gather", "default", "gatherdefault"}
    /\ check.todo \subseteq Server /\ check.good \cup check.dels \subseteq Spec_
    /\ check.server \in Server \cup {None} /\ check.key \in Spec_ \cup {None}
    /\ check.target \in Target \cup {None}
    /\ check.mode \in {"none", "missing", "wrong", "fixed"} /\ check.changed \in BOOLEAN
    /\ check.adds \subseteq Spec_ \X Target
    /\ stopper.at \in {"idle", "stop", "squeue", "scancel", "ok", "error"}
    /\ stopper.todo \subseteq Server /\ stopper.ids \cup stopper.before \subseteq Job
    /\ calls \in 0..MaxCalls /\ faults \in 0..MaxFaults
    /\ restored \subseteq Server
    \* apply_user_options fixed the port before anything else happened.
    /\ \A s \in Server : spawner[s].app = "openwebui" /\ spawner[s].at \in Started
          => spawner[s].port = <<"port", names[s].port>>

Init ==
    /\ names \in [Server -> [user : User, port : Port]]
    /\ spawner = [s \in Server |-> NoServer]
    /\ known = {}
    /\ jobs = <<>>
    /\ routes = <<>>
    /\ check = NoCheck
    /\ stopper = NoStopper
    /\ calls = 0
    /\ faults = 0
    /\ restored = {}

-----------------------------------------------------------------------------
\* Jobs and targets

User_(s) == names[s].user

\* Where the process of a job listens.
ListensAt(j) == IF jobs[j].app = "openwebui" THEN <<"port", names[jobs[j].server].port>>
                ELSE <<"own", j>>

Running == {j \in 1..Len(jobs) : jobs[j].state = "running"}
Live == {j \in 1..Len(jobs) : jobs[j].state # "ended"}
Listening(target) == \E j \in Running : ListensAt(j) = target

Ended(js) == [j \in 1..Len(jobs) |-> IF j \in js THEN [jobs[j] EXCEPT !.state = "ended"]
                                     ELSE jobs[j]]

\* Processes of Open WebUI a pkill of the user ends.
OpenWebuiAt(user, target) ==
    {j \in Running : /\ jobs[j].app = "openwebui" /\ ListensAt(j) = target
                     /\ User_(jobs[j].server) = user}

\* spawner_target_host
TargetOf(p) == CASE p.host # None -> p.host
                 [] p.host = None /\ p.port # None -> p.port
                 [] p.host = None /\ p.port = None /\ p.job # 0 -> <<"guess", p.job>>
                 [] OTHER -> None

Primary(s, p) == <<"job", s, p.spec>>
Alias(s) == <<"alias", s, 0>>

\* _sync_job_proxy_and_public
Synced(p) == IF p.job = 0 THEN p ELSE [p EXCEPT !.spec = p.job]

\* clear_state
Cleared(p) == [p EXCEPT !.job = 0, !.alias = FALSE]

With(table, key, target) ==
    [k \in DOMAIN table \cup {key} |-> IF k = key THEN target ELSE table[k]]
Without(table, key) == [k \in DOMAIN table \ {key} |-> table[k]]
Forwards(table, key, target) == key \in DOMAIN table /\ table[key] = target

Pending(p) == p.at \notin {"idle", "ready", "restored"}
Active(p) == p.at \notin {"idle", "restored"}

\* An Open WebUI that is running or being started counts.
AnotherActive(s) ==
    \E o \in known \ {s} : /\ User_(o) = User_(s) /\ spawner[o].app = "openwebui"
                           /\ Active(spawner[o])

-----------------------------------------------------------------------------
\* Starting a server

Go(s, p) == spawner' = [spawner EXCEPT ![s] = p]
At(s, place) == [spawner[s] EXCEPT !.at = place]
Others == UNCHANGED <<names, known, check, stopper, calls, restored>>

Step(s, p) == Go(s, p) /\ Others /\ UNCHANGED <<jobs, routes, faults>>

\* Requests to CHP that follow one another directly are one step: all the
\* changes are made, or an error ends them after some.
Requests(s, changes, done, failed) ==
    /\ \/ routes' = changes[Len(changes)] /\ Go(s, done) /\ UNCHANGED faults
       \/ /\ faults < MaxFaults /\ faults' = faults + 1
          /\ \E i \in DOMAIN changes : routes' \in {routes, changes[i]}
          /\ Go(s, failed)
    /\ Others
    /\ UNCHANGED jobs

M_StartServer(s) ==
    /\ spawner[s].at = "idle"
    /\ calls < MaxCalls
    /\ calls' = calls + 1
    /\ \E app \in App : Go(s, [Cleared(spawner[s]) EXCEPT !.at = "begin", !.app = app])
    /\ known' = known \cup {s}
    /\ UNCHANGED <<names, jobs, routes, check, stopper, faults, restored>>

\* The request is checked, and the options of Open WebUI fix its port.  A new
\* server is added to a dictionary that check_routes may be going through:
\* it may have passed that user already, be about to visit it, or fail.
StartServer(s) ==
    /\ spawner[s].at = "idle"
    /\ calls < MaxCalls
    /\ calls' = calls + 1
    /\ \E app \in App :
         Go(s, [Cleared(spawner[s]) EXCEPT
                   !.at = "begin", !.app = app,
                   !.port = IF app = "openwebui" THEN <<"port", names[s].port>> ELSE @])
    /\ known' = known \cup {s}
    /\ IF s \in known \/ check.at \notin {"poll", "add", "addalias"}
       THEN UNCHANGED check
       ELSE check' \in {check, [check EXCEPT !.todo = @ \cup {s}],
                        [check EXCEPT !.changed = TRUE]}
    /\ UNCHANGED <<names, jobs, routes, stopper, faults, restored>>

M_Begin(s) ==
    /\ spawner[s].at = "begin"
    /\ IF spawner[s].app = "lab" THEN Step(s, [At(s, "submit") EXCEPT !.port = None])
       ELSE Step(s, [At(s, "key") EXCEPT
                        !.second = \E o \in known \ {s} :
                            /\ User_(o) = User_(s) /\ spawner[o].app = "openwebui"
                            /\ spawner[o].at = "ready"])

\* start: batchspawner forgets the port; for Open WebUI, whether another one
\* is active is read before the wait for the key lock.
Begin(s) ==
    /\ spawner[s].at = "begin"
    /\ IF spawner[s].app = "lab" THEN Step(s, [At(s, "submit") EXCEPT !.port = None])
       ELSE Step(s, [At(s, "key") EXCEPT !.second = AnotherActive(s)])

\* The wait for the key lock and PrepareOpenwebuiLaunchUseCase; the key may
\* be refused.
PrepareOpenwebui(s) ==
    /\ spawner[s].at = "key"
    /\ \/ ~spawner[s].second /\ Step(s, At(s, "submit"))
       \/ Step(s, [At(s, "abort") EXCEPT !.second = FALSE])

\* submit_batch_script: the job ID is known from the answer of sbatch.
Submit(s) ==
    /\ spawner[s].at = "submit"
    /\ \/ /\ Len(jobs) < MaxJobs
          /\ jobs' = Append(jobs, [server |-> s, app |-> spawner[s].app, state |-> "queued"])
          /\ \/ /\ Go(s, Synced([At(s, "route") EXCEPT !.job = Len(jobs) + 1]))
                /\ UNCHANGED faults
             \/ /\ faults < MaxFaults /\ faults' = faults + 1
                /\ Go(s, At(s, "abort"))
       \/ UNCHANGED <<jobs, faults>> /\ Go(s, At(s, "abort"))
    /\ Others
    /\ UNCHANGED routes

Submitted(p) == [p EXCEPT !.at = IF p.app = "lab" THEN "wait" ELSE "tcp"]

\* Both routes, the primary one first.
BothRoutes(s, p, target) ==
    <<With(routes, Primary(s, p), target),
      With(With(routes, Primary(s, p), target), Alias(s), target)>>

\* The routes are registered in advance, for JupyterLab to the guessed port; a
\* failure is left to later steps.
RouteInAdvance(s) ==
    LET p == spawner[s]
        done == Submitted([p EXCEPT !.alias = TRUE])
    IN  /\ p.at = "route"
        /\ IF TargetOf(p) = None THEN Step(s, Submitted(p))
           ELSE \E failed \in {done, Submitted(p)} :
                   Requests(s, BothRoutes(s, p, TargetOf(p)), done, failed)

\* _wait_for_tcp_port: whoever listens there.
WaitTcp(s) ==
    LET p == spawner[s]
    IN  /\ p.at = "tcp"
        /\ Step(s, IF Listening(p.port) THEN [Synced(p) EXCEPT !.at = "register"]
                   ELSE At(s, "abort"))

\* batchspawner waits for the job and for its port; then wait_chp_target.
\* start_timeout ends a wait that lasts too long.
WaitJob(s) ==
    LET p == spawner[s]
    IN  /\ p.at = "wait"
        /\ Step(s, IF p.job \in Running
                   THEN [Synced(p) EXCEPT !.at = "register", !.port = <<"own", p.job>>]
                   ELSE At(s, "abort"))

\* start returns, and the Hub enters the address in its database.
Returned(p) == [p EXCEPT !.at = "up", !.host = p.port]

\* Both routes when the application answers.
RegisterRoutes(s) ==
    LET p == spawner[s]
        q == [p EXCEPT !.alias = TRUE]
        next == IF p.app = "lab" THEN [q EXCEPT !.at = "sync"] ELSE Returned(q)
    IN  /\ p.at = "register"
        /\ Requests(s, BothRoutes(s, p, p.port), next, next)

\* For JupyterLab, 0.5 seconds later, once more.
SyncRoutes(s) ==
    LET p == spawner[s]
        both == BothRoutes(s, p, p.port)
    IN  /\ p.at = "sync"
        /\ Requests(s, IF p.alias THEN both ELSE <<both[1]>>, Returned(p), Returned(p))

\* The Hub waits until the address answers, and adds the route.
WaitUp(s) ==
    LET p == spawner[s]
    IN  /\ p.at = "up"
        /\ IF Listening(p.host) /\ ~p.halted
           THEN Requests(s, <<With(routes, Primary(s, p), p.host)>>, At(s, "ready"),
                         At(s, "abort"))
           ELSE Step(s, At(s, "abort"))

-----------------------------------------------------------------------------
\* Stopping a server

Idle(p) == [Cleared(p) EXCEPT !.at = "idle", !.app = "lab", !.host = None, !.second = FALSE,
                              !.halted = FALSE]

StopServer(s) ==
    /\ spawner[s].at = "ready"
    /\ calls < MaxCalls
    /\ calls' = calls + 1
    /\ Go(s, At(s, "unroute"))
    /\ UNCHANGED <<names, known, jobs, routes, check, stopper, faults, restored>>

\* The Hub's poll finds that the job ended; batchspawner clears the state.
Died(s) ==
    /\ spawner[s].at = "ready"
    /\ spawner[s].job # 0 /\ spawner[s].job \notin Live
    /\ Step(s, Cleared(At(s, "unroute")))

\* proxy_delete_user: the alias, if one is recorded, and then the primary route.  A
\* failure to delete the alias is ignored, one to delete the primary route, whether
\* or not CHP deleted it, ends the stop.
DeleteUser(s) ==
    LET p == spawner[s]
        ended == IF p.host = None THEN Idle(p) ELSE At(s, "ready")
        aliases == IF p.alias THEN {routes, Without(routes, Alias(s))} ELSE {routes}
    IN  /\ p.at = "unroute"
        /\ \E kept \in aliases : \E deleted \in BOOLEAN :
              /\ IF deleted
                 THEN routes' = Without(kept, Primary(s, p)) /\ Go(s, At(s, "halt"))
                 ELSE routes' \in {kept, Without(kept, Primary(s, p))} /\ Go(s, ended)
              /\ IF deleted /\ ~(p.alias /\ Alias(s) \in DOMAIN kept) THEN UNCHANGED faults
                 ELSE faults < MaxFaults /\ faults' = faults + 1
        /\ Others
        /\ UNCHANGED jobs

\* stop: scancel, and in any case pkill of what Open WebUI left at the port.
Cancelled(p, user) ==
    IF p.job \notin Live THEN jobs
    ELSE Ended({p.job} \cup (IF p.app = "openwebui" THEN OpenWebuiAt(user, p.port) ELSE {}))
Swept(p, user) ==
    IF p.job \notin Live \/ p.app = "lab" THEN jobs ELSE Ended(OpenWebuiAt(user, p.port))

\* User.stop at the end of a stop; a server that failed to start is replaced
\* by a new object.
Halt(s) ==
    LET p == spawner[s]
    IN  \/ /\ p.at = "halt"
           /\ \/ jobs' = Cancelled(p, User_(s)) /\ Go(s, Idle(p)) /\ UNCHANGED faults
              \/ /\ p.job \in Live /\ p.host # None
                 /\ faults < MaxFaults /\ faults' = faults + 1
                 /\ jobs' = Swept(p, User_(s))
                 /\ Go(s, At(s, "ready"))
           /\ Others
           /\ UNCHANGED routes
        \/ /\ p.at = "abort"
           /\ jobs' = Cancelled(p, User_(s))
           /\ Go(s, NoServer)
           /\ Others
           /\ UNCHANGED <<routes, faults>>

-----------------------------------------------------------------------------
\* StopUserOpenWebuiJobsUseCase

OpenWebuiJobs(user) == {j \in Live : jobs[j].app = "openwebui" /\ User_(jobs[j].server) = user}

BeginStopJobs ==
    /\ stopper.at \in {"idle", "ok", "error"}
    /\ calls < MaxCalls
    /\ calls' = calls + 1
    /\ \E user \in User :
         stopper' = [NoStopper EXCEPT
            !.at = "stop", !.user = user, !.before = OpenWebuiJobs(user),
            !.todo = {s \in known : /\ User_(s) = user /\ spawner[s].app = "openwebui"
                                    /\ Active(spawner[s])}]
    /\ UNCHANGED <<names, spawner, known, jobs, routes, check, faults, restored>>

\* User.stop, whatever the server does: its routes stay, and a start or stop
\* in progress goes on.
StopJobServer(s) ==
    LET p == spawner[s]
    IN  /\ stopper.at = "stop" /\ s \in stopper.todo
        /\ \/ /\ stopper' = [stopper EXCEPT !.todo = @ \ {s}]
              /\ jobs' = Cancelled(p, User_(s))
              /\ Go(s, CASE p.at = "ready" -> Idle(p)
                         [] Pending(p) -> [Cleared(p) EXCEPT !.host = None, !.halted = TRUE]
                         [] OTHER -> p)
              /\ UNCHANGED faults
           \/ /\ p.job \in Live
              /\ faults < MaxFaults /\ faults' = faults + 1
              /\ stopper' = [stopper EXCEPT !.todo = @ \ {s}, !.failed = TRUE]
              /\ jobs' = Swept(p, User_(s))
              /\ UNCHANGED spawner
        /\ UNCHANGED <<names, known, routes, check, calls, restored>>

Reported(st) == [st EXCEPT !.at = IF st.failed THEN "error" ELSE "ok", !.ids = {}]

M_FindJobs ==
    /\ stopper.at = "stop" /\ stopper.todo = {}
    /\ LET ids == {j \in OpenWebuiJobs(stopper.user) : spawner[jobs[j].server].job = j}
       IN  stopper' = IF ids = {} THEN Reported(stopper)
                      ELSE [stopper EXCEPT !.at = "scancel", !.ids = ids]
    /\ UNCHANGED <<names, spawner, known, jobs, routes, check, calls, faults, restored>>

\* squeue -n jhub-openwebui finds the jobs no server knows.
FindJobs ==
    /\ stopper.at = "stop" /\ stopper.todo = {}
    /\ \/ /\ LET ids == OpenWebuiJobs(stopper.user)
             IN  stopper' = IF ids = {} THEN Reported(stopper)
                            ELSE [stopper EXCEPT !.at = "scancel", !.ids = ids]
          /\ UNCHANGED faults
       \/ /\ faults < MaxFaults /\ faults' = faults + 1
          /\ stopper' = Reported([stopper EXCEPT !.failed = TRUE])
    /\ UNCHANGED <<names, spawner, known, jobs, routes, check, calls, restored>>

CancelJobs ==
    /\ stopper.at = "scancel"
    /\ \/ /\ jobs' = Ended(stopper.ids)
          /\ stopper' = Reported(stopper)
          /\ UNCHANGED faults
       \/ /\ faults < MaxFaults /\ faults' = faults + 1
          /\ \E some \in SUBSET stopper.ids : jobs' = Ended(some)
          /\ stopper' = Reported([stopper EXCEPT !.failed = TRUE])
    /\ UNCHANGED <<names, spawner, known, routes, check, calls, restored>>

-----------------------------------------------------------------------------
\* Slurm

\* The script of Open WebUI ends what the user left at its port, and ends
\* itself when the port stays taken or the user's data directory is locked.
JobBegins(j) ==
    LET mine == jobs[j]
        user == User_(mine.server)
        killed == IF mine.app = "openwebui" THEN OpenWebuiAt(user, ListensAt(j)) ELSE {}
        rest == Running \ killed
        refused == /\ mine.app = "openwebui"
                   /\ \E i \in rest : \/ ListensAt(i) = ListensAt(j)
                                      \/ /\ jobs[i].app = "openwebui"
                                         /\ User_(jobs[i].server) = user
    IN  /\ mine.state = "queued"
        /\ jobs' = IF refused THEN Ended(killed \cup {j})
                   ELSE [Ended(killed) EXCEPT ![j].state = "running"]
        /\ UNCHANGED <<names, spawner, known, routes, check, stopper, bounds, restored>>

\* It ends by itself, at its time limit or with an error.
JobEnds(j) ==
    /\ jobs[j].state = "running"
    /\ jobs' = Ended({j})
    /\ UNCHANGED <<names, spawner, known, routes, check, stopper, bounds, restored>>

-----------------------------------------------------------------------------
\* Restarts

\* load_state
Loaded(p) == [Synced([NoServer EXCEPT !.at = "restored", !.app = p.app, !.job = p.job,
                                      !.port = p.port, !.host = p.host])
              EXCEPT !.alias = p.job # 0]

\* The jobs go on (cleanup_servers is off); of a server whose start had not
\* returned nothing was saved.  CHP may be restarted too.
RestartHub ==
    /\ faults < MaxFaults
    /\ faults' = faults + 1
    /\ spawner' = [s \in Server |->
                     IF spawner[s].host # None THEN Loaded(spawner[s])
                     ELSE [NoServer EXCEPT !.port = IF spawner[s].at = "idle"
                                                    THEN spawner[s].port ELSE None]]
    /\ restored' = restored \cup {s \in Server : spawner[s].host # None}
    /\ routes' \in {routes, <<>>}
    /\ check' = NoCheck
    /\ stopper' = NoStopper
    /\ UNCHANGED <<names, known, jobs, calls>>

\* The Hub looks at its servers after a restart, late perhaps.
TakeOver(s) ==
    LET p == spawner[s]
    IN  /\ p.at = "restored"
        /\ IF p.job \in Running /\ Listening(p.host)
           THEN Go(s, At(s, "ready")) /\ UNCHANGED jobs
           ELSE Go(s, Idle(p)) /\ jobs' = Cancelled(p, User_(s))
        /\ Others
        /\ UNCHANGED <<routes, faults>>

\* CHP starts without routes.
RestartProxy ==
    /\ faults < MaxFaults
    /\ faults' = faults + 1
    /\ routes' = <<>>
    /\ UNCHANGED <<names, spawner, known, jobs, check, stopper, calls, restored>>

-----------------------------------------------------------------------------
\* check_routes: every step goes on to its next wait.

\* After an error the implementation of JupyterHub is called.
Fallback == [NoCheck EXCEPT !.at = "default"]

\* A visit compares the primary route, then the alias, with the server.
ToAlias(c, s) ==
    LET stale == IF c.mode = "missing" THEN Alias(s) \notin DOMAIN c.routes
                 ELSE ~Forwards(c.routes, Alias(s), c.target)
    IN  IF c.target # None /\ stale
        THEN [c EXCEPT !.at = "addalias", !.server = s, !.key = None]
        ELSE [c EXCEPT !.at = "visit", !.server = None, !.key = None, !.target = None,
                       !.mode = "none"]

ToPrimary(c, s, p) ==
    LET needed == [c EXCEPT !.good = @ \cup {Primary(s, p), Alias(s)}]
    IN  IF c.target # None /\ ~Forwards(c.routes, Primary(s, p), c.target)
        THEN [needed EXCEPT !.at = "add", !.server = s, !.key = Primary(s, p)]
        ELSE ToAlias(needed, s)

\* A server that is ready, one that is being started or stopped, and another,
\* whose job may be running all the same.
Visit(c, s, p) ==
    CASE p.at = "ready" ->
           ToPrimary([c EXCEPT !.target = p.host,
                               !.mode = IF Primary(s, p) \in DOMAIN c.routes THEN "wrong"
                                        ELSE "missing"], s, p)
      [] Pending(p) -> ToPrimary([c EXCEPT !.target = TargetOf(p), !.mode = "fixed"], s, p)
      [] ~Active(p) /\ p.job # 0 ->
           [c EXCEPT !.at = "poll", !.server = s, !.target = TargetOf(p)]
      [] OTHER -> c

M_Deletions(c) == DOMAIN c.routes \ {k \in c.good : k[1] = "job"}

\* The routes of the last list read that no visited server needs.
Deletions(c) == DOMAIN c.routes \ c.good

Needed(servers, passed) ==
    UNION {{Primary(s, servers[s]), Alias(s)} : s \in {x \in passed : Active(servers[x])}}

\* From the visits to the next wait.  The order of the visits is that of
\* dictionaries: some servers that need nothing are passed before the first
\* one that does.
Advance(c, servers) ==
    LET sync == [s \in c.todo |-> [Synced(servers[s]) EXCEPT !.alias = TRUE]]
        waits == {s \in c.todo : Visit(c, s, sync[s]).at # "visit"}
        Synchronised(passed) == spawner' = [s \in Server |-> IF s \in passed THEN sync[s]
                                                             ELSE servers[s]]
        Past(passed) == [c EXCEPT !.todo = @ \ passed, !.good = @ \cup Needed(sync, passed)]
    IN  CASE c.at # "visit" -> check' = c /\ spawner' = servers
          [] c.at = "visit" /\ c.changed -> check' = Fallback /\ spawner' = servers
          [] c.at = "visit" /\ ~c.changed /\ waits = {} ->
               /\ check' = LET dels == Deletions(Past(c.todo))
                           IN  IF dels = {} THEN NoCheck
                               ELSE [NoCheck EXCEPT !.at = "gather", !.dels = dels]
               /\ Synchronised(c.todo)
          [] OTHER ->
               \E s \in waits : \E passed \in SUBSET (c.todo \ waits) :
                  /\ check' = Visit(Past(passed \cup {s}), s, sync[s])
                  /\ Synchronised(passed \cup {s})

Checking == UNCHANGED <<names, known, jobs, stopper, calls, restored>>

\* A request to CHP and the routes as they are read after it; the run goes on
\* as next.
CheckRequest(after, next, failed) ==
    /\ \/ /\ Advance(next, spawner)
          /\ routes' = after
          /\ UNCHANGED faults
       \/ /\ faults < MaxFaults /\ faults' = faults + 1
          /\ routes' \in {routes, after}
          /\ check' = failed
          /\ UNCHANGED spawner
    /\ Checking

CheckBegins ==
    /\ check.at = "idle"
    /\ CheckRequest(routes, [NoCheck EXCEPT !.at = "visit", !.todo = known,
                                            !.routes = routes], Fallback)

\* running_job_route_target: batchspawner's poll clears the state of a server
\* whose job ended.
PollJob ==
    LET s == check.server
        p == spawner[s]
        found == ToPrimary([check EXCEPT !.mode = "fixed"], s, p)
        passed == [check EXCEPT !.at = "visit", !.server = None, !.target = None]
        polled == IF p.job \in Live THEN spawner ELSE [spawner EXCEPT ![s] = Cleared(p)]
    IN  /\ check.at = "poll"
        /\ IF p.job \in Running THEN Advance(found, spawner) ELSE Advance(passed, polled)
        /\ Checking
        /\ UNCHANGED <<routes, faults>>

\* The target of the alias of a ready server is read again after the wait.
CheckAddsPrimary ==
    LET s == check.server
        target == IF check.mode = "fixed" THEN check.target ELSE spawner[s].host
        after == With(routes, check.key, check.target)
    IN  /\ check.at = "add"
        /\ CheckRequest(after, ToAlias([check EXCEPT !.routes = after, !.target = target], s),
                        Fallback)

CheckAddsAlias ==
    /\ check.at = "addalias"
    /\ LET after == With(routes, Alias(check.server), check.target)
       IN  CheckRequest(after, [check EXCEPT !.routes = after, !.at = "visit", !.server = None,
                                             !.target = None, !.mode = "none"],
                        Fallback)

\* No request is left to be waited for.
Gathered(c) == IF c.adds = {} /\ c.dels = {} THEN NoCheck ELSE c

\* JupyterHub's own check_routes, which knows no aliases.
DefaultCheck ==
    LET ready == {s \in known : spawner[s].at = "ready"}
        needed == {Primary(s, spawner[s]) : s \in {x \in known : Active(spawner[x])}}
    IN  /\ check.at = "default"
        /\ CheckRequest(routes,
              Gathered([NoCheck EXCEPT
                 !.at = "gatherdefault",
                 !.adds = {<<Primary(s, spawner[s]), spawner[s].host>> :
                             s \in {x \in ready : ~Forwards(routes, Primary(x, spawner[x]),
                                                            spawner[x].host)}},
                 !.dels = DOMAIN routes \ needed]),
              NoCheck)

\* asyncio.gather: the requests in any order.
Gather ==
    \/ \E add \in check.adds :
         CheckRequest(With(routes, add[1], add[2]),
                      Gathered([check EXCEPT !.adds = @ \ {add}]), NoCheck)
    \/ \E key \in check.dels :
         CheckRequest(Without(routes, key),
                      Gathered([check EXCEPT !.dels = @ \ {key}]),
                      IF check.at = "gather" THEN Fallback ELSE NoCheck)

-----------------------------------------------------------------------------
StartStep(s) ==
    \/ Begin(s) \/ PrepareOpenwebui(s) \/ Submit(s) \/ RouteInAdvance(s)
    \/ WaitTcp(s) \/ WaitJob(s) \/ RegisterRoutes(s) \/ SyncRoutes(s) \/ WaitUp(s)

StopStep(s) == Died(s) \/ DeleteUser(s) \/ Halt(s)

StopJobsStep == FindJobs \/ CancelJobs \/ \E s \in Server : StopJobServer(s)

CheckStep ==
    CheckBegins \/ PollJob \/ CheckAddsPrimary \/ CheckAddsAlias \/ DefaultCheck \/ Gather

Next ==
    \/ \E s \in Server : \/ StartServer(s) \/ StartStep(s) \/ StopServer(s) \/ StopStep(s)
                         \/ TakeOver(s)
    \/ BeginStopJobs \/ StopJobsStep
    \/ \E j \in 1..Len(jobs) : JobBegins(j) \/ JobEnds(j)
    \/ CheckStep
    \/ RestartHub \/ RestartProxy

Spec == Init /\ [][Next]_vars

\* JupyterHub runs the coroutines and checks the routes again and again; every
\* wait of a start has a timeout.  Slurm and the users owe nothing.
FairSpec ==
    /\ Spec
    /\ \A s \in Server : WF_vars(StartStep(s)) /\ WF_vars(StopStep(s)) /\ WF_vars(TakeOver(s))
    /\ WF_vars(CheckStep)

-----------------------------------------------------------------------------
\* A user has one Open WebUI at a time: whether another is active is read
\* before the wait for the key lock, and still no two get beyond it
\* (slurm_spawner.py:441-457, execution_request.py:43).  Servers taken over
\* after a restart are left out.
OneOpenWebui ==
    \A s, t \in Server \ restored :
        /\ s # t
        /\ User_(s) = User_(t)
        /\ spawner[s].app = "openwebui" /\ spawner[t].app = "openwebui"
        => ~({spawner[s].at, spawner[t].at} \subseteq Started \cup Stopping)

\* When StopUserOpenWebuiJobs reports no error, every Open WebUI job the user
\* had when it was called has ended, also one whose sbatch never answered or
\* that the Hub forgot in a restart (job_management_usecase.py:207-242).
StoppedAreEnded == stopper.at = "ok" => stopper.before \cap Live = {}

\* In the end CHP has the two routes of every server that is ready, to the
\* address the Hub has for it, and no other: whatever the checks and the
\* starts and stops did to each other's routes is repaired
\* (configurable_http_proxy.py:69-341).
WantedRoutes ==
    LET ready == {s \in Server : spawner[s].at = "ready"}
    IN  /\ DOMAIN routes = UNION {{Primary(s, spawner[s]), Alias(s)} : s \in ready}
        /\ \A s \in ready : \A k \in {Primary(s, spawner[s]), Alias(s)} :
              routes[k] = spawner[s].host

RoutesSettle == <>[]WantedRoutes
=============================================================================
