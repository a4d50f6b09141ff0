-------------------------- MODULE JobRoutesProofs --------------------------
(***************************************************************************)
(* Proofs about JobRoutes, for any number of servers, users, ports, jobs,  *)
(* calls and faults.                                                       *)
(*                                                                         *)
(* A server that reached a place beyond the question whether another Open  *)
(* WebUI of the user is active (Beyond) is known to the Hub and is not     *)
(* idle (Fits), so the next one that asks sees it: no two servers of a     *)
(* user are beyond, though the answer is used only after a wait (Solo).    *)
(* Only a restart brings a server there that did not ask.                  *)
(*                                                                         *)
(* The jobs a user had when StopUserOpenWebuiJobs began keep their owner   *)
(* and never begin again (Evolves), so squeue finds every one of them that *)
(* has not ended, and scancel ends it, or the use case fails (Stopped).    *)
(*                                                                         *)
(* check_routes only writes routes and the fields of a server the two      *)
(* invariants do not speak of (Same, Watched).                             *)
(***************************************************************************)
EXTENDS JobRoutes, SequenceTheorems, TLAPS

\* Route tables.
Table == UNION {[D -> Target] : D \in SUBSET Spec_}

\* Records of servers, of Slurm's jobs, of check_routes and of the use case.
Spawner == [at : Place, app : App, job : 0..MaxJobs, spec : 0..MaxJobs, alias : BOOLEAN,
            port : Target \cup {None}, host : Target \cup {None}, second : BOOLEAN,
            halted : BOOLEAN]

SlurmJob == [server : Server, app : App, state : {"queued", "running", "ended"}]

Check == [at : {"idle", "visit", "poll", "add", "addalias", "gather", "default",
                "gatherdefault"},
          todo : SUBSET Server, routes : Table, good : SUBSET Spec_,
          server : Server \cup {None}, key : Spec_ \cup {None}, target : Target \cup {None},
          mode : {"none", "missing", "wrong", "fixed"}, changed : BOOLEAN,
          adds : SUBSET (Spec_ \X Target), dels : SUBSET Spec_]

Stopper == [at : {"idle", "stop", "squeue", "scancel", "ok", "error"},
            user : User \cup {None}, todo : SUBSET Server, ids : SUBSET Job,
            before : SUBSET Job, failed : BOOLEAN]

\* A run that waits for the answer to a request knows what it is about.
Aimed(c) ==
    /\ c.at \in {"poll", "add", "addalias"} => c.server \in Server
    /\ c.at \in {"add", "addalias"} => c.target \in Target
    /\ c.at = "add" => c.key \in Spec_

\* The types, with those of the run of check_routes and of the use case.
Typed ==
    /\ names \in [Server -> [user : User, port : Port]]
    /\ spawner \in [Server -> Spawner]
    /\ known \subseteq Server /\ restored \subseteq Server
    /\ jobs \in Seq(SlurmJob) /\ Len(jobs) <= MaxJobs
    /\ routes \in Table
    /\ check \in Check /\ check.at # "visit" /\ Aimed(check)
    /\ stopper \in Stopper
    /\ calls \in 0..MaxCalls /\ faults \in 0..MaxFaults

\* An Open WebUI that got beyond the question whether another is active.
Beyond(p) ==
    /\ p.app = "openwebui"
    /\ p.at \in Started \cup Stopping \/ (p.at = "key" /\ ~p.second)

\* What the record p of server s says, with names N, known servers K and servers R
\* taken over.
Fits(s, p, N, K, R) ==
    /\ p.at # "idle" => s \in K
    /\ p.at = "idle" => p.host = None
    /\ p.at = "restored" => s \in R
    /\ p.app = "openwebui" => p.port = <<"port", N[s].port>>
    /\ p.at \in {"wait", "sync"} => p.app = "lab"
    /\ p.at = "tcp" => p.app = "openwebui"
    /\ p.at \in {"register", "sync"} => p.port \in Target
    /\ p.at = "ready" => p.host \in Target

Servers == \A s \in Server : Fits(s, spawner[s], names, known, restored)

\* No two Open WebUI of a user are beyond that question.
Solo ==
    \A s, t \in Server \ restored :
        s # t /\ names[s].user = names[t].user => ~(Beyond(spawner[s]) /\ Beyond(spawner[t]))

\* The jobs that are to end are the user's, and those that have not ended are found.
Stopped ==
    /\ \A j \in stopper.before :
          j \in 1..Len(jobs) /\ jobs[j].app = "openwebui"
          /\ names[jobs[j].server].user = stopper.user
    /\ stopper.at = "scancel" => stopper.before \cap Live \subseteq stopper.ids
    /\ stopper.at = "ok" => stopper.before \cap Live = {}

\* The inductive invariant.
Inv == Typed /\ Servers /\ Solo /\ Stopped

\* What the assumption says of each constant.
LEMMA Constants ==
    /\ None \notin Server /\ None \notin User /\ None \notin Port
    /\ MaxJobs \in Nat /\ MaxCalls \in Nat /\ MaxFaults \in Nat
BY ConstantsAssumption

\* CHP without routes.
LEMMA Empty == <<>> \in Table
<1>1. <<>> = [x \in {} |-> x]
  OBVIOUS
<1>2. <<>> \in [{} -> Target]
  BY <1>1
<1> QED BY <1>2 DEF Table

\* A route is added or changed.
LEMMA WithTable ==
    ASSUME NEW T \in Table, NEW k \in Spec_, NEW g \in Target
    PROVE  With(T, k, g) \in Table
<1>1. PICK D \in SUBSET Spec_ : T \in [D -> Target]
  BY DEF Table
<1>2. With(T, k, g) \in [D \cup {k} -> Target]
  BY <1>1 DEF With
<1> QED BY <1>2 DEF Table

\* A route is deleted.
LEMMA WithoutTable ==
    ASSUME NEW T \in Table, NEW k
    PROVE  Without(T, k) \in Table
<1>1. PICK D \in SUBSET Spec_ : T \in [D -> Target]
  BY DEF Table
<1>2. Without(T, k) \in [D \ {k} -> Target]
  BY <1>1 DEF Without
<1> QED BY <1>2 DEF Table

\* The routes of a server.
LEMMA Keys ==
    ASSUME NEW s \in Server, NEW p, p.spec \in 0..MaxJobs
    PROVE  Primary(s, p) \in Spec_ /\ Alias(s) \in Spec_
BY DEF Primary, Alias, Spec_

\* A record that only goes to another place.
LEMMA AtRecord ==
    ASSUME NEW s \in Server, spawner \in [Server -> Spawner], NEW a \in Place
    PROVE  LET p == At(s, a)
           IN  /\ p \in Spawner /\ p.at = a /\ p.app = spawner[s].app /\ p.job = spawner[s].job
               /\ p.spec = spawner[s].spec /\ p.alias = spawner[s].alias
               /\ p.port = spawner[s].port /\ p.host = spawner[s].host
               /\ p.second = spawner[s].second /\ p.halted = spawner[s].halted
BY DEF At, Spawner

\* Faults and calls are counted up to their bounds.
LEMMA FaultsCounted ==
    ASSUME Typed, UNCHANGED faults \/ (faults < MaxFaults /\ faults' = faults + 1)
    PROVE  faults' \in 0..MaxFaults
BY Constants DEF Typed

\* The same for calls.
LEMMA CallsCounted ==
    ASSUME Typed, calls < MaxCalls, calls' = calls + 1
    PROVE  calls' \in 0..MaxCalls
BY Constants DEF Typed

\* What becomes of jobs: none is lost, and none that ended begins again.
Evolves(J) ==
    /\ J \in Seq(SlurmJob) /\ Len(J) <= MaxJobs /\ Len(jobs) <= Len(J)
    /\ \A j \in 1..Len(jobs) :
          /\ J[j].server = jobs[j].server /\ J[j].app = jobs[j].app
          /\ jobs[j].state = "ended" => J[j].state = "ended"

\* Jobs that stay as they are.
LEMMA JobsStay == ASSUME Typed PROVE Evolves(jobs)
<1>1. Len(jobs) \in Nat
  BY LenProperties DEF Typed
<1> QED BY <1>1 DEF Typed, Evolves

\* Jobs that are ended.
LEMMA EndedEvolves ==
    ASSUME Typed, NEW E
    PROVE  /\ Evolves(Ended(E)) /\ Len(Ended(E)) = Len(jobs)
           /\ \A j \in 1..Len(jobs) : j \in E => Ended(E)[j].state = "ended"
<1> DEFINE J == Ended(E)
<1>1. /\ jobs \in [1..Len(jobs) -> SlurmJob] /\ Len(jobs) \in Nat
      /\ Len(jobs) <= MaxJobs
  BY LenProperties DEF Typed
<1>2. /\ J \in [1..Len(jobs) -> SlurmJob]
      /\ \A j \in 1..Len(jobs) : /\ J[j].server = jobs[j].server /\ J[j].app = jobs[j].app
                                 /\ jobs[j].state = "ended" => J[j].state = "ended"
                                 /\ j \in E => J[j].state = "ended"
  BY <1>1 DEF Ended, SlurmJob
<1> HIDE DEF J
<1>3. J \in Seq(SlurmJob) /\ Len(J) = Len(jobs)
  BY <1>1, <1>2, LenProperties
<1> QED BY <1>1, <1>2, <1>3 DEF Evolves, J

\* What a stop does to the jobs.
LEMMA CancelledEvolves ==
    ASSUME Typed, NEW p, NEW u
    PROVE  Evolves(Cancelled(p, u)) /\ Evolves(Swept(p, u))
BY JobsStay, EndedEvolves DEF Cancelled, Swept

\* What happens to jobs elsewhere does not disturb StopUserOpenWebuiJobs.
LEMMA StoppedKept ==
    ASSUME Inv, UNCHANGED <<names, stopper>>, Evolves(jobs')
    PROVE  Stopped'
<1>1. Live' \cap 1..Len(jobs) \subseteq Live
  BY DEF Evolves, Live
<1>2. Len(jobs) \in Nat /\ Len(jobs') \in Nat
  BY LenProperties DEF Evolves, Inv, Typed
<1> QED BY <1>1, <1>2 DEF Stopped, Inv, Evolves

\* What a server owes that goes on with p.
Alone(s, p) ==
    Beyond(p) => \/ Beyond(spawner[s]) \/ s \in restored
                 \/ \A t \in Server \ restored :
                       t # s /\ names[t].user = names[s].user => ~Beyond(spawner[t])

\* A server that goes on with a record that fits, and alone.
LEMMA ServersMove ==
    ASSUME Inv, NEW s \in Server, NEW p \in Spawner, Go(s, p),
           Fits(s, p, names, known', restored), Alone(s, p),
           known \subseteq known', UNCHANGED <<names, restored>>
    PROVE  spawner' \in [Server -> Spawner] /\ Servers' /\ Solo'
<1>1. /\ spawner' \in [Server -> Spawner] /\ spawner'[s] = p
      /\ \A t \in Server : t # s => spawner'[t] = spawner[t]
  BY DEF Go, Inv, Typed
<1>2. Servers'
  <2> SUFFICES ASSUME NEW t \in Server PROVE Fits(t, spawner'[t], names, known', restored)
    BY DEF Servers
  <2>1. Fits(t, spawner[t], names, known, restored)
    BY DEF Inv, Servers
  <2> QED BY <1>1, <2>1 DEF Fits
<1>3. Solo'
  <2> SUFFICES ASSUME NEW x \in Server \ restored, NEW y \in Server \ restored, x # y,
                      names[x].user = names[y].user, Beyond(spawner'[x]), Beyond(spawner'[y])
               PROVE  FALSE
    BY DEF Solo
  <2> QED BY <1>1 DEF Solo, Inv, Alone
<1> QED BY <1>1, <1>2, <1>3

\* A step of a server, with what it does to jobs and routes, keeps the invariant.
LEMMA ServerStep ==
    ASSUME Inv, NEW s \in Server, NEW p \in Spawner, Go(s, p), Others,
           Fits(s, p, names, known, restored), Alone(s, p), Evolves(jobs'),
           routes' \in Table, faults' \in 0..MaxFaults
    PROVE  Inv'
<1>1. UNCHANGED <<names, known, check, stopper, calls, restored>>
  BY DEF Others
<1>2. spawner' \in [Server -> Spawner] /\ Servers' /\ Solo'
  BY <1>1, ServersMove
<1>3. Stopped'
  BY <1>1, StoppedKept
<1>4. Typed'
  BY <1>1, <1>2 DEF Typed, Inv, Aimed, Evolves
<1> QED BY <1>2, <1>3, <1>4 DEF Inv

\* A step of a server that changes nothing else.
LEMMA StepInv ==
    ASSUME Inv, NEW s \in Server, NEW p \in Spawner, Step(s, p),
           Fits(s, p, names, known, restored), Alone(s, p)
    PROVE  Inv'
<1>1. Go(s, p) /\ Others /\ UNCHANGED <<jobs, routes, faults>>
  BY DEF Step
<1>2. Evolves(jobs')
  BY <1>1, JobsStay DEF Inv, Evolves
<1> QED BY <1>1, <1>2, ServerStep DEF Inv, Typed

\* Requests to CHP leave a table of routes.
LEMMA RequestsInv ==
    ASSUME Inv, NEW s \in Server, NEW T \in Seq(Table), T # <<>>, NEW done \in Spawner,
           NEW failed \in Spawner, Requests(s, T, done, failed),
           Fits(s, done, names, known, restored), Alone(s, done),
           Fits(s, failed, names, known, restored), Alone(s, failed)
    PROVE  Inv'
<1>1. Others /\ UNCHANGED jobs
  BY DEF Requests
<1>2. Evolves(jobs')
  BY <1>1, JobsStay DEF Inv, Evolves
<1>3. Len(T) \in DOMAIN T /\ \A i \in DOMAIN T : T[i] \in Table
  BY LenProperties, EmptySeq
<1>4. routes' \in Table
  BY <1>3 DEF Requests, Inv, Typed
<1>5. faults' \in 0..MaxFaults
  BY FaultsCounted DEF Requests, Inv
<1>6. Go(s, done) \/ Go(s, failed)
  BY DEF Requests
<1> QED BY <1>1, <1>2, <1>4, <1>5, <1>6, ServerStep

\* What is known of the record of a server.
LEMMA Standing ==
    ASSUME Inv, NEW s \in Server
    PROVE  /\ spawner[s] \in Spawner /\ Fits(s, spawner[s], names, known, restored)
           /\ spawner[s].app \in App /\ names[s].port \in Port
           /\ spawner \in [Server -> Spawner]
BY DEF Inv, Typed, Servers, Spawner

\* A server that only goes to another place.
LEMMA AtFits ==
    ASSUME Inv, NEW s \in Server, NEW a \in Place, spawner[s].at \notin {"idle", "restored"},
           a \in {"submit", "route", "up", "unroute", "halt", "abort"},
           Beyond(At(s, a)) => Beyond(spawner[s])
    PROVE  At(s, a) \in Spawner /\ Fits(s, At(s, a), names, known, restored) /\ Alone(s, At(s,
    a))
<1>1. spawner[s] \in Spawner /\ Fits(s, spawner[s], names, known, restored)
  BY Standing
<1> DEFINE p == At(s, a)
<1>2. /\ p \in Spawner /\ p.at = a /\ p.app = spawner[s].app
      /\ p.port = spawner[s].port
  BY Standing, AtRecord
<1>3. Beyond(p) => Beyond(spawner[s])
  OBVIOUS
<1> HIDE DEF p
<1>4. Fits(s, p, names, known, restored)
  BY <1>1, <1>2 DEF Fits
<1>5. Alone(s, p)
  BY <1>3 DEF Alone
<1> QED BY <1>2, <1>4, <1>5 DEF p

\* The record of a server whose job is forgotten.
LEMMA ClearedRecord ==
    ASSUME NEW p \in Spawner
    PROVE  LET q == Cleared(p)
           IN  /\ q \in Spawner /\ q.at = p.at /\ q.app = p.app /\ q.job = 0 /\ q.port = p.port
               /\ q.host = p.host /\ q.second = p.second
<1>1. 0 \in 0..MaxJobs
  BY Constants
<1> QED BY <1>1 DEF Cleared, Spawner

\* What ends a server.
LEMMA IdleFits ==
    ASSUME Inv, NEW s \in Server
    PROVE  LET q == Idle(spawner[s])
           IN  q \in Spawner /\ Fits(s, q, names, known, restored) /\ Alone(s, q)
<1> DEFINE c == Cleared(spawner[s])
           q == Idle(spawner[s])
<1>1. c \in Spawner
  BY Standing, ClearedRecord
<1>2. q = [c EXCEPT !.at = "idle", !.app = "lab", !.host = None, !.second = FALSE,
                    !.halted = FALSE]
  BY DEF Idle
<1> HIDE DEF c, q
<1>3. q \in Spawner /\ q.at = "idle" /\ q.app = "lab" /\ q.host = None
  BY <1>1, <1>2 DEF Spawner, Place, App
<1>4. Fits(s, q, names, known, restored) /\ Alone(s, q)
  BY <1>3 DEF Fits, Alone, Beyond
<1> QED BY <1>3, <1>4 DEF q

\* The new object in place of a server that failed to start.
LEMMA NoServerFits ==
    ASSUME NEW s \in Server
    PROVE  /\ NoServer \in Spawner /\ Fits(s, NoServer, names, known, restored)
           /\ Alone(s, NoServer)
<1>1. NoServer \in Spawner /\ NoServer.at = "idle" /\ NoServer.app = "lab" /\ NoServer.host = None
  BY Constants DEF NoServer, Spawner, Place, App
<1> QED BY <1>1 DEF Fits, Alone, Beyond

\* A start is asked for.
LEMMA StartServerInv == ASSUME Inv, NEW s \in Server, StartServer(s) PROVE Inv'
<1> DEFINE p(app) == [Cleared(spawner[s]) EXCEPT
                        !.at = "begin", !.app = app,
                        !.port = IF app = "openwebui" THEN <<"port", names[s].port>> ELSE @]
<1>1. /\ spawner[s] \in Spawner /\ names[s].port \in Port
      /\ spawner[s].at = "idle" /\ Fits(s, spawner[s], names, known, restored)
  BY Standing DEF StartServer
<1>2. PICK app \in App : Go(s, p(app))
  BY DEF StartServer
<1> DEFINE c == Cleared(spawner[s])
           port == IF app = "openwebui" THEN <<"port", names[s].port>> ELSE c.port
<1>a. c \in Spawner /\ port \in Target \cup {None}
  <2>1. c \in Spawner
    BY <1>1, ClearedRecord
  <2>2. <<"port", names[s].port>> \in Target
    BY <1>1 DEF Target
  <2> HIDE DEF c
  <2> QED BY <2>1, <2>2 DEF Spawner
<1>b. p(app) = [c EXCEPT !.at = "begin", !.app = app, !.port = port]
  OBVIOUS
<1>c. app = "openwebui" => port = <<"port", names[s].port>>
  OBVIOUS
<1> HIDE DEF p, c, port
<1>3. /\ p(app) \in Spawner /\ p(app).at = "begin" /\ p(app).app = app
      /\ app = "openwebui" => p(app).port = <<"port", names[s].port>>
  BY <1>a, <1>b, <1>c DEF Spawner, Place
<1>4. known' = known \cup {s} /\ UNCHANGED <<names, jobs, routes, stopper, faults, restored>>
  BY DEF StartServer
<1>5. Fits(s, p(app), names, known', restored) /\ Alone(s, p(app))
  BY <1>3, <1>4 DEF Fits, Alone, Beyond, Started, Stopping
<1>6. spawner' \in [Server -> Spawner] /\ Servers' /\ Solo'
  BY <1>2, <1>3, <1>4, <1>5, ServersMove
<1>7. Stopped'
  BY <1>4, JobsStay, StoppedKept DEF Inv, Evolves
<1>8. check' \in Check /\ check'.at # "visit" /\ Aimed(check')
  <2>1. check \in Check /\ check.at # "visit" /\ Aimed(check)
    BY DEF Inv, Typed
  <2>2. \/ check' = check \/ check' = [check EXCEPT !.todo = check.todo \cup {s}]
        \/ check' = [check EXCEPT !.changed = TRUE]
    BY DEF StartServer
  <2>3. CASE check' = [check EXCEPT !.todo = check.todo \cup {s}]
    BY <2>1, <2>3 DEF Check, Aimed
  <2>4. CASE check' = [check EXCEPT !.changed = TRUE]
    BY <2>1, <2>4 DEF Check, Aimed
  <2> QED BY <2>1, <2>2, <2>3, <2>4
<1>9. calls' \in 0..MaxCalls
  BY CallsCounted DEF StartServer, Inv
<1>10. Typed'
  BY <1>4, <1>6, <1>8, <1>9 DEF Typed, Inv
<1> QED BY <1>6, <1>7, <1>10 DEF Inv

\* The question whether another Open WebUI is active.
LEMMA BeginInv == ASSUME Inv, NEW s \in Server, Begin(s) PROVE Inv'
<1>1. /\ spawner[s] \in Spawner /\ Fits(s, spawner[s], names, known, restored)
      /\ spawner[s].at = "begin" /\ spawner[s].app \in App
  BY Standing DEF Begin
<1>2. CASE spawner[s].app = "lab"
  <2> DEFINE p == [At(s, "submit") EXCEPT !.port = None]
  <2>1. p \in Spawner /\ p.at = "submit" /\ p.app = "lab"
    BY <1>1, <1>2, Constants DEF At, Spawner, Place, Started
  <2>2. Step(s, p)
    BY <1>2 DEF Begin
  <2> HIDE DEF p
  <2>3. Fits(s, p, names, known, restored) /\ Alone(s, p)
    BY <1>1, <2>1 DEF Fits, Alone, Beyond
  <2> QED BY <2>1, <2>2, <2>3, StepInv
<1>3. CASE spawner[s].app # "lab"
  <2> DEFINE another == AnotherActive(s)
             p == [At(s, "key") EXCEPT !.second = another]
  <2>0. another \in BOOLEAN
    BY DEF AnotherActive
  <2>2. Step(s, p)
    BY <1>3 DEF Begin
  <2>4. ~another => \A t \in Server \ restored :
                       t # s /\ names[t].user = names[s].user => ~Beyond(spawner[t])
    <3> SUFFICES ASSUME ~another, NEW t \in Server \ restored, t # s,
                        names[t].user = names[s].user, Beyond(spawner[t])
                 PROVE  FALSE
      OBVIOUS
    <3>1. Fits(t, spawner[t], names, known, restored)
      BY Standing
    <3>2. spawner[t].at \notin {"idle", "restored"} /\ spawner[t].app = "openwebui"
      BY DEF Beyond, Started, Stopping
    <3>3. t \in known
      BY <3>1, <3>2 DEF Fits
    <3> QED BY <3>2, <3>3 DEF AnotherActive, User_, Active
  <2> HIDE DEF another
  <2>1. /\ p \in Spawner /\ p.at = "key" /\ p.app = spawner[s].app /\ p.second = another
        /\ p.port = spawner[s].port
    BY <1>1, <2>0 DEF At, Spawner, Place
  <2> HIDE DEF p
  <2>3. Fits(s, p, names, known, restored)
    BY <1>1, <2>1 DEF Fits
  <2>5. Alone(s, p)
    BY <2>1, <2>4 DEF Alone, Beyond, Started, Stopping
  <2> QED BY <2>1, <2>2, <2>3, <2>5, StepInv
<1> QED BY <1>2, <1>3

\* The wait for the key is over.
LEMMA PrepareOpenwebuiInv == ASSUME Inv, NEW s \in Server, PrepareOpenwebui(s) PROVE Inv'
<1>1. /\ spawner[s] \in Spawner /\ Fits(s, spawner[s], names, known, restored)
      /\ spawner[s].at = "key"
  BY Standing DEF PrepareOpenwebui
<1>2. CASE ~spawner[s].second /\ Step(s, At(s, "submit"))
  <2>1. "submit" \in Place
    BY DEF Place, Started
  <2>2. Beyond(At(s, "submit")) => Beyond(spawner[s])
    BY <1>1, <1>2, <2>1, AtRecord, Standing DEF Beyond
  <2> QED BY <1>1, <1>2, <2>1, <2>2, AtFits, StepInv
<1>3. CASE Step(s, [At(s, "abort") EXCEPT !.second = FALSE])
  <2> DEFINE p == [At(s, "abort") EXCEPT !.second = FALSE]
  <2>1. p \in Spawner /\ p.at = "abort" /\ p.app = spawner[s].app /\ p.port = spawner[s].port
    BY <1>1 DEF At, Spawner, Place
  <2>2. Step(s, p)
    BY <1>3
  <2> HIDE DEF p
  <2>3. Fits(s, p, names, known, restored) /\ Alone(s, p)
    BY <1>1, <2>1 DEF Fits, Alone, Beyond, Started, Stopping
  <2> QED BY <2>1, <2>2, <2>3, StepInv
<1> QED BY <1>2, <1>3 DEF PrepareOpenwebui

\* A job is submitted.
LEMMA AppendEvolves ==
    ASSUME Typed, Len(jobs) < MaxJobs, NEW j \in SlurmJob
    PROVE  Evolves(Append(jobs, j)) /\ Len(jobs) + 1 \in 0..MaxJobs
<1>1. Len(jobs) \in Nat /\ jobs \in Seq(SlurmJob)
  BY LenProperties DEF Typed
<1> DEFINE J == Append(jobs, j)
<1>2. J \in Seq(SlurmJob) /\ Len(J) = Len(jobs) + 1 /\ \A i \in 1..Len(jobs) : J[i] = jobs[i]
  BY <1>1, AppendProperties
<1> HIDE DEF J
<1>3. Evolves(J)
  BY <1>1, <1>2, Constants DEF Evolves
<1> QED BY <1>1, <1>3, Constants DEF J

\* sbatch, whether its answer arrives or not.
LEMMA SubmitInv == ASSUME Inv, NEW s \in Server, Submit(s) PROVE Inv'
<1>1. /\ spawner[s] \in Spawner /\ Fits(s, spawner[s], names, known, restored)
      /\ spawner[s].at = "submit" /\ spawner[s].app \in App
  BY Standing DEF Submit
<1>a. "abort" \in Place /\ At(s, "abort").at = "abort"
  BY AtRecord, Standing DEF Place
<1>b. /\ At(s, "abort") \in Spawner /\ Fits(s, At(s, "abort"), names, known, restored)
      /\ Alone(s, At(s, "abort"))
  BY <1>1, <1>a, AtFits DEF Beyond, Started, Stopping
<1>2. Others /\ UNCHANGED routes /\ faults' \in 0..MaxFaults
  BY FaultsCounted DEF Submit, Inv
<1>3. routes' \in Table
  BY <1>2 DEF Inv, Typed
<1>4. CASE UNCHANGED <<jobs, faults>> /\ Go(s, At(s, "abort"))
  BY <1>b, <1>2, <1>3, <1>4, JobsStay, ServerStep DEF Inv, Evolves
<1>5. CASE /\ Len(jobs) < MaxJobs
           /\ jobs' = Append(jobs, [server |-> s, app |-> spawner[s].app, state |-> "queued"])
  <2>1. [server |-> s, app |-> spawner[s].app, state |-> "queued"] \in SlurmJob
    BY <1>1 DEF SlurmJob
  <2>2. Evolves(jobs') /\ Len(jobs) + 1 \in 0..MaxJobs
    BY <1>5, <2>1, AppendEvolves DEF Inv
  <2> DEFINE n == Len(jobs) + 1
             p == Synced([At(s, "route") EXCEPT !.job = n])
  <2>3. n \in 0..MaxJobs
    BY <2>2
  <2>4. Go(s, p) \/ Go(s, At(s, "abort"))
    BY <1>1, <1>5 DEF Submit
  <2> HIDE DEF n
  <2>5. p \in Spawner /\ p.at = "route" /\ p.app = spawner[s].app /\ p.port = spawner[s].port
    BY <1>1, <2>3 DEF At, Synced, Spawner, Place, Started
  <2> HIDE DEF p
  <2>6. Fits(s, p, names, known, restored) /\ Alone(s, p)
    BY <1>1, <2>5 DEF Fits, Alone, Beyond, Started
  <2>7. CASE Go(s, p)
    BY <1>2, <1>3, <2>2, <2>5, <2>6, <2>7, ServerStep
  <2>8. CASE Go(s, At(s, "abort"))
    BY <1>b, <1>2, <1>3, <2>2, <2>8, ServerStep
  <2> QED BY <2>4, <2>7, <2>8
<1> QED BY <1>4, <1>5 DEF Submit

\* Where a job listens.
LEMMA ListensTarget ==
    ASSUME Inv, NEW j \in Running
    PROVE  ListensAt(j) \in Target /\ j \in 0..MaxJobs
<1>1. j \in 1..Len(jobs) /\ jobs[j] \in SlurmJob /\ j \in Job /\ j \in 0..MaxJobs
  BY LenProperties, Constants DEF Running, Inv, Typed, Job
<1>2. names[jobs[j].server].port \in Port
  BY <1>1 DEF SlurmJob, Inv, Typed
<1> QED BY <1>1, <1>2 DEF ListensAt, Target

\* Where anybody listens there is a target.
LEMMA ListeningTarget ==
    ASSUME Inv, NEW g, Listening(g) PROVE g \in Target
BY ListensTarget DEF Listening

\* What spawner_target_host returns.
LEMMA TargetOfTarget ==
    ASSUME NEW p \in Spawner, TargetOf(p) # None PROVE TargetOf(p) \in Target
<1>1. CASE p.host # None
  BY <1>1 DEF TargetOf, Spawner
<1>2. CASE p.host = None /\ p.port # None
  BY <1>2 DEF TargetOf, Spawner
<1>3. CASE p.host = None /\ p.port = None /\ p.job # 0
  <2>1. TargetOf(p) = <<"guess", p.job>>
    BY <1>3 DEF TargetOf
  <2>2. p.job \in Job
    BY <1>3, Constants DEF Spawner, Job
  <2> QED BY <2>1, <2>2 DEF Target
<1>4. CASE p.host = None /\ p.port = None /\ p.job = 0
  BY <1>4 DEF TargetOf
<1> QED BY <1>1, <1>2, <1>3, <1>4

\* The tables of the requests for both routes.
LEMMA BothTables ==
    ASSUME Inv, NEW s \in Server, NEW p, p.spec \in 0..MaxJobs, NEW g \in Target
    PROVE  LET both == BothRoutes(s, p, g)
           IN  both \in Seq(Table) /\ both # <<>> /\ both[1] \in Table
<1>1. /\ With(routes, Primary(s, p), g) \in Table
      /\ With(With(routes, Primary(s, p), g), Alias(s), g) \in Table
  BY Keys, WithTable DEF Inv, Typed
<1> QED BY <1>1 DEF BothRoutes

\* A start that goes on.
LEMMA StartFits ==
    ASSUME Inv, NEW s \in Server, NEW p \in Spawner,
           spawner[s].at \in Started,
           p.at \in {"wait", "tcp", "register", "sync", "up", "abort"},
           p.app = spawner[s].app, p.port = spawner[s].port \/ p.app = "lab",
           p.at \in {"wait", "sync"} => p.app = "lab",
           p.at = "tcp" => p.app = "openwebui",
           p.at \in {"register", "sync"} => p.port \in Target
    PROVE  Fits(s, p, names, known, restored) /\ Alone(s, p)
<1>1. Fits(s, spawner[s], names, known, restored)
  BY Standing
<1>2. Fits(s, p, names, known, restored)
  BY <1>1 DEF Fits, Started
<1>3. Alone(s, p)
  BY DEF Alone, Beyond
<1> QED BY <1>2, <1>3

\* The routes in advance.
LEMMA RouteInAdvanceInv == ASSUME Inv, NEW s \in Server, RouteInAdvance(s) PROVE Inv'
<1> DEFINE p == spawner[s]
           q == [p EXCEPT !.alias = TRUE]
           done == Submitted(q)
           failed == Submitted(p)
<1>1. p \in Spawner /\ p.at = "route" /\ p.app \in App
  BY Standing DEF RouteInAdvance
<1>2. q \in Spawner /\ q.app = p.app /\ q.port = p.port
  BY <1>1 DEF Spawner
<1>3. ASSUME NEW r \in Spawner, r.app = p.app, r.port = p.port
      PROVE  /\ Submitted(r) \in Spawner
             /\ Fits(s, Submitted(r), names, known, restored) /\ Alone(s, Submitted(r))
  <2> DEFINE place == IF r.app = "lab" THEN "wait" ELSE "tcp"
             n == Submitted(r)
  <2>1. place \in Place /\ place \in {"wait", "tcp"}
    BY DEF Place, Started
  <2>2. place = "wait" => r.app = "lab"
    OBVIOUS
  <2>3. place = "tcp" => r.app = "openwebui"
    BY <1>1, <1>3 DEF App
  <2>4. n = [r EXCEPT !.at = place]
    BY DEF Submitted
  <2> HIDE DEF place, n
  <2>5. n \in Spawner /\ n.at = place /\ n.app = r.app /\ n.port = r.port
    BY <2>1, <2>4 DEF Spawner
  <2>6. Fits(s, n, names, known, restored) /\ Alone(s, n)
    BY <1>1, <1>3, <2>1, <2>2, <2>3, <2>5, StartFits DEF Started
  <2> QED BY <2>5, <2>6 DEF n
<1>4. /\ done \in Spawner /\ Fits(s, done, names, known, restored) /\ Alone(s, done)
      /\ failed \in Spawner /\ Fits(s, failed, names, known, restored) /\ Alone(s, failed)
  BY <1>1, <1>2, <1>3
<1>5. CASE TargetOf(p) = None
  <2>1. Step(s, failed)
    BY <1>5 DEF RouteInAdvance
  <2> HIDE DEF failed
  <2> QED BY <1>4, <2>1, StepInv
<1>6. CASE TargetOf(p) # None
  <2> DEFINE both == BothRoutes(s, p, TargetOf(p))
  <2>1. PICK f \in {done, failed} : Requests(s, both, done, f)
    BY <1>6 DEF RouteInAdvance
  <2>2. p.spec \in 0..MaxJobs
    BY <1>1 DEF Spawner
  <2>3. both \in Seq(Table) /\ both # <<>>
    BY <1>1, <1>6, <2>2, TargetOfTarget, BothTables
  <2> HIDE DEF both, done, failed
  <2> QED BY <1>4, <2>1, <2>3, RequestsInv
<1> QED BY <1>5, <1>6

\* The record of a server with the route of its job.
LEMMA SyncedRecord ==
    ASSUME NEW p \in Spawner
    PROVE  LET q == Synced(p)
           IN  /\ q \in Spawner /\ q.at = p.at /\ q.app = p.app /\ q.job = p.job
               /\ q.port = p.port /\ q.host = p.host /\ q.second = p.second
               /\ q.halted = p.halted
BY DEF Synced, Spawner

\* A start that fails.
LEMMA AbortFits ==
    ASSUME Inv, NEW s \in Server, spawner[s].at \in Started
    PROVE  LET p == At(s, "abort")
           IN  p \in Spawner /\ Fits(s, p, names, known, restored) /\ Alone(s, p)
<1>1. "abort" \in Place /\ At(s, "abort").at = "abort"
  BY AtRecord, Standing DEF Place
<1> QED BY <1>1, AtFits DEF Beyond, Started, Stopping

\* The wait for the port of Open WebUI.
LEMMA WaitTcpInv == ASSUME Inv, NEW s \in Server, WaitTcp(s) PROVE Inv'
<1> DEFINE p == spawner[s]
           c == Synced(p)
           q == [c EXCEPT !.at = "register"]
<1>1. /\ p \in Spawner /\ p.at = "tcp" /\ p.at \in Started
      /\ Fits(s, p, names, known, restored)
  BY Standing DEF WaitTcp, Started
<1>2. CASE Listening(p.port)
  <2>1. p.port \in Target
    BY <1>2, ListeningTarget
  <2>2. c \in Spawner /\ c.app = p.app /\ c.port = p.port
    BY <1>1, SyncedRecord
  <2>3. Step(s, q)
    BY <1>2 DEF WaitTcp
  <2> HIDE DEF c
  <2>4. q \in Spawner /\ q.at = "register" /\ q.app = p.app /\ q.port = p.port
    BY <2>2 DEF Spawner, Place, Started
  <2> HIDE DEF q
  <2>5. Fits(s, q, names, known, restored) /\ Alone(s, q)
    BY <1>1, <2>1, <2>4, StartFits
  <2> QED BY <2>3, <2>4, <2>5, StepInv
<1>3. CASE ~Listening(p.port)
  <2>1. Step(s, At(s, "abort"))
    BY <1>3 DEF WaitTcp
  <2> QED BY <1>1, <2>1, AbortFits, StepInv
<1> QED BY <1>2, <1>3

\* The wait for the job of JupyterLab.
LEMMA WaitJobInv == ASSUME Inv, NEW s \in Server, WaitJob(s) PROVE Inv'
<1> DEFINE p == spawner[s]
           c == Synced(p)
           q == [c EXCEPT !.at = "register", !.port = <<"own", p.job>>]
<1>1. /\ p \in Spawner /\ p.at = "wait" /\ p.at \in Started
      /\ Fits(s, p, names, known, restored)
  BY Standing DEF WaitJob, Started
<1>2. CASE p.job \in Running
  <2>1. p.job \in Job
    BY <1>2, LenProperties, Constants DEF Running, Inv, Typed, Job
  <2>2. <<"own", p.job>> \in Target
    BY <2>1 DEF Target
  <2>3. c \in Spawner /\ c.app = p.app
    BY <1>1, SyncedRecord
  <2>4. Step(s, q)
    BY <1>2 DEF WaitJob
  <2> HIDE DEF c
  <2>5. q \in Spawner /\ q.at = "register" /\ q.app = p.app /\ q.port \in Target
    BY <2>2, <2>3 DEF Spawner, Place, Started
  <2> HIDE DEF q
  <2>6. p.app = "lab"
    BY <1>1 DEF Fits
  <2>7. Fits(s, q, names, known, restored) /\ Alone(s, q)
    BY <1>1, <2>5, <2>6, StartFits
  <2> QED BY <2>4, <2>5, <2>7, StepInv
<1>3. CASE p.job \notin Running
  <2>1. Step(s, At(s, "abort"))
    BY <1>3 DEF WaitJob
  <2> QED BY <1>1, <2>1, AbortFits, StepInv
<1> QED BY <1>2, <1>3

\* A start that returned.
LEMMA ReturnedFits ==
    ASSUME Inv, NEW s \in Server, NEW p \in Spawner, spawner[s].at \in Started,
           p.app = spawner[s].app, p.port = spawner[s].port
    PROVE  LET q == Returned(p)
           IN  q \in Spawner /\ Fits(s, q, names, known, restored) /\ Alone(s, q)
<1> DEFINE q == Returned(p)
<1>1. q \in Spawner /\ q.at = "up" /\ q.app = p.app /\ q.port = p.port
  BY DEF Returned, Spawner, Place, Started
<1> HIDE DEF q
<1>2. Fits(s, q, names, known, restored) /\ Alone(s, q)
  BY <1>1, StartFits
<1> QED BY <1>1, <1>2 DEF q

\* The routes of an application that answers.
LEMMA RegisterRoutesInv == ASSUME Inv, NEW s \in Server, RegisterRoutes(s) PROVE Inv'
<1> DEFINE p == spawner[s]
           q == [p EXCEPT !.alias = TRUE]
           next == IF p.app = "lab" THEN [q EXCEPT !.at = "sync"] ELSE Returned(q)
           both == BothRoutes(s, p, p.port)
<1>1. /\ p \in Spawner /\ p.at = "register" /\ p.at \in Started /\ p.spec \in 0..MaxJobs
      /\ p.port \in Target
  BY Standing DEF RegisterRoutes, Started, Fits, Spawner
<1>2. q \in Spawner /\ q.app = p.app /\ q.port = p.port
  BY <1>1 DEF Spawner
<1>3. both \in Seq(Table) /\ both # <<>>
  BY <1>1, BothTables
<1>4. Requests(s, both, next, next)
  BY DEF RegisterRoutes
<1> HIDE DEF q, both
<1>5. next \in Spawner /\ Fits(s, next, names, known, restored) /\ Alone(s, next)
  <2>1. CASE p.app = "lab"
    <3> DEFINE n == [q EXCEPT !.at = "sync"]
    <3>1. n \in Spawner /\ n.at = "sync" /\ n.app = p.app /\ n.port = p.port
      BY <1>2 DEF Spawner, Place, Started
    <3> HIDE DEF n
    <3>2. Fits(s, n, names, known, restored) /\ Alone(s, n)
      BY <1>1, <2>1, <3>1, StartFits
    <3> QED BY <2>1, <3>1, <3>2 DEF n
  <2>2. CASE p.app # "lab"
    BY <1>1, <1>2, <2>2, ReturnedFits
  <2> QED BY <2>1, <2>2
<1> HIDE DEF next
<1> QED BY <1>3, <1>4, <1>5, RequestsInv

\* The routes once more.
LEMMA SyncRoutesInv == ASSUME Inv, NEW s \in Server, SyncRoutes(s) PROVE Inv'
<1> DEFINE p == spawner[s]
           both == BothRoutes(s, p, p.port)
           tables == IF p.alias THEN both ELSE <<both[1]>>
           next == Returned(p)
<1>1. /\ p \in Spawner /\ p.at = "sync" /\ p.at \in Started /\ p.spec \in 0..MaxJobs
      /\ p.port \in Target
  BY Standing DEF SyncRoutes, Started, Fits, Spawner
<1>2. both \in Seq(Table) /\ both # <<>> /\ both[1] \in Table
  BY <1>1, BothTables
<1>3. Requests(s, tables, next, next)
  BY DEF SyncRoutes
<1>4. next \in Spawner /\ Fits(s, next, names, known, restored) /\ Alone(s, next)
  BY <1>1, ReturnedFits
<1> HIDE DEF both, next
<1>5. tables \in Seq(Table) /\ tables # <<>>
  BY <1>2
<1> HIDE DEF tables
<1> QED BY <1>3, <1>4, <1>5, RequestsInv

\* The Hub adds the route.
LEMMA WaitUpInv == ASSUME Inv, NEW s \in Server, WaitUp(s) PROVE Inv'
<1> DEFINE p == spawner[s]
           ready == At(s, "ready")
           tables == <<With(routes, Primary(s, p), p.host)>>
<1>1. /\ p \in Spawner /\ p.at = "up" /\ p.at \in Started /\ p.spec \in 0..MaxJobs
      /\ Fits(s, p, names, known, restored)
  BY Standing DEF WaitUp, Started, Spawner
<1>2. CASE Listening(p.host) /\ ~p.halted
  <2>1. p.host \in Target
    BY <1>2, ListeningTarget
  <2>2. ready \in Spawner /\ ready.at = "ready" /\ ready.app = p.app /\ ready.port = p.port
        /\ ready.host = p.host
    BY AtRecord, Standing DEF Place, Started
  <2>3. Requests(s, tables, ready, At(s, "abort"))
    BY <1>2 DEF WaitUp
  <2>4. With(routes, Primary(s, p), p.host) \in Table
    BY <1>1, <2>1, Keys, WithTable DEF Inv, Typed
  <2>5. tables \in Seq(Table) /\ tables # <<>>
    BY <2>4
  <2> HIDE DEF ready, tables
  <2>6. Fits(s, ready, names, known, restored)
    BY <1>1, <2>1, <2>2 DEF Fits
  <2>7. Alone(s, ready)
    BY <1>1, <2>2 DEF Alone, Beyond, Started
  <2> QED BY <1>1, <2>2, <2>3, <2>5, <2>6, <2>7, AbortFits, RequestsInv
<1>3. CASE ~(Listening(p.host) /\ ~p.halted)
  <2>1. Step(s, At(s, "abort"))
    BY <1>3 DEF WaitUp
  <2> QED BY <1>1, <2>1, AbortFits, StepInv
<1> QED BY <1>2, <1>3

\* A stop is asked for.
LEMMA StopServerInv == ASSUME Inv, NEW s \in Server, StopServer(s) PROVE Inv'
<1> DEFINE p == At(s, "unroute")
<1>1. "unroute" \in Place /\ spawner[s].at = "ready" /\ Go(s, p)
      /\ UNCHANGED <<names, known, jobs, routes, check, stopper, faults, restored>>
  BY DEF StopServer, Place, Stopping
<1>2. p \in Spawner /\ Fits(s, p, names, known, restored) /\ Alone(s, p)
  BY <1>1, AtFits, AtRecord, Standing DEF Beyond, Started, Stopping
<1>3. calls' \in 0..MaxCalls
  BY CallsCounted DEF StopServer, Inv
<1>4. Evolves(jobs')
  BY <1>1, JobsStay DEF Inv, Evolves
<1> HIDE DEF p
<1>5. spawner' \in [Server -> Spawner] /\ Servers' /\ Solo'
  BY <1>1, <1>2, ServersMove
<1>6. Stopped'
  BY <1>1, <1>4, StoppedKept
<1>7. Typed'
  BY <1>1, <1>3, <1>5 DEF Typed, Inv, Aimed
<1> QED BY <1>5, <1>6, <1>7 DEF Inv

\* The Hub finds that the job ended.
LEMMA DiedInv == ASSUME Inv, NEW s \in Server, Died(s) PROVE Inv'
<1> DEFINE a == At(s, "unroute")
           p == Cleared(a)
<1>1. "unroute" \in Place /\ spawner[s].at = "ready" /\ Step(s, p)
  BY DEF Died, Place, Stopping
<1>2. a \in Spawner /\ a.at = "unroute" /\ a.app = spawner[s].app /\ a.port = spawner[s].port
  BY <1>1, AtRecord, Standing
<1> HIDE DEF a
<1>3. p \in Spawner /\ p.at = "unroute" /\ p.app = spawner[s].app /\ p.port = spawner[s].port
  BY <1>2, ClearedRecord
<1> HIDE DEF p
<1>4. Fits(s, p, names, known, restored)
  BY <1>1, <1>3, Standing DEF Fits
<1>5. Alone(s, p)
  BY <1>1, <1>3 DEF Alone, Beyond, Started
<1> QED BY <1>1, <1>3, <1>4, <1>5, StepInv

\* A stop that could not be completed leaves the server ready.
LEMMA ReadyFits ==
    ASSUME Inv, NEW s \in Server, spawner[s].host # None, spawner[s].at \in Stopping
    PROVE  LET p == At(s, "ready")
           IN  p \in Spawner /\ Fits(s, p, names, known, restored) /\ Alone(s, p)
<1> DEFINE p == At(s, "ready")
<1>1. /\ spawner[s] \in Spawner /\ Fits(s, spawner[s], names, known, restored)
      /\ spawner[s].host \in Target
  BY Standing DEF Spawner
<1>2. /\ p \in Spawner /\ p.at = "ready" /\ p.app = spawner[s].app
      /\ p.port = spawner[s].port /\ p.host = spawner[s].host
  BY AtRecord, Standing DEF Place, Started
<1> HIDE DEF p
<1>3. Fits(s, p, names, known, restored)
  BY <1>1, <1>2 DEF Fits, Stopping
<1>4. Alone(s, p)
  BY <1>2 DEF Alone, Beyond
<1> QED BY <1>2, <1>3, <1>4 DEF p

\* The routes of a server are deleted, both or some of them.
LEMMA DeleteUserInv == ASSUME Inv, NEW s \in Server, DeleteUser(s) PROVE Inv'
<1> DEFINE p == spawner[s]
           ended == IF p.host = None THEN Idle(p) ELSE At(s, "ready")
           halt == At(s, "halt")
           aliases == IF p.alias THEN {routes, Without(routes, Alias(s))} ELSE {routes}
<1>1. p.at = "unroute" /\ p.at \in Stopping /\ "halt" \in Place
  BY DEF DeleteUser, Stopping, Place
<1>2. PICK kept \in aliases : \E deleted \in BOOLEAN :
              /\ IF deleted
                 THEN routes' = Without(kept, Primary(s, p)) /\ Go(s, halt)
                 ELSE routes' \in {kept, Without(kept, Primary(s, p))} /\ Go(s, ended)
              /\ IF deleted /\ ~(p.alias /\ Alias(s) \in DOMAIN kept) THEN UNCHANGED faults
                 ELSE faults < MaxFaults /\ faults' = faults + 1
  BY DEF DeleteUser
<1>3. kept \in Table
  BY <1>2, WithoutTable DEF Inv, Typed
<1>4. Without(kept, Primary(s, p)) \in Table
  BY <1>3, WithoutTable
<1>5. routes' \in Table
  BY <1>2, <1>3, <1>4
<1>6. faults' \in 0..MaxFaults
  BY <1>2, FaultsCounted DEF Inv
<1>7. halt \in Spawner /\ Fits(s, halt, names, known, restored) /\ Alone(s, halt)
  BY <1>1, AtFits, AtRecord, Standing DEF Beyond
<1>8. ended \in Spawner /\ Fits(s, ended, names, known, restored) /\ Alone(s, ended)
  BY <1>1, IdleFits, ReadyFits
<1>9. Others /\ UNCHANGED jobs
  BY DEF DeleteUser
<1>10. Evolves(jobs')
  BY <1>9, JobsStay DEF Inv, Evolves
<1>11. Go(s, halt) \/ Go(s, ended)
  BY <1>2
<1> HIDE DEF halt, ended
<1> QED BY <1>5, <1>6, <1>7, <1>8, <1>9, <1>10, <1>11, ServerStep

\* The end of a stop.
LEMMA HaltInv == ASSUME Inv, NEW s \in Server, Halt(s) PROVE Inv'
<1> DEFINE p == spawner[s]
<1>1. Others /\ UNCHANGED routes /\ faults' \in 0..MaxFaults
  BY FaultsCounted DEF Halt, Inv
<1>2. routes' \in Table
  BY <1>1 DEF Inv, Typed
<1>3. Evolves(Cancelled(p, User_(s))) /\ Evolves(Swept(p, User_(s)))
  BY CancelledEvolves DEF Inv
<1>4. CASE jobs' = Cancelled(p, User_(s)) /\ Go(s, Idle(p))
  <2>1. Evolves(jobs')
    BY <1>3, <1>4
  <2> QED BY <1>1, <1>2, <1>4, <2>1, IdleFits, ServerStep
<1>5. CASE p.at = "halt" /\ p.host # None /\ jobs' = Swept(p, User_(s)) /\ Go(s, At(s, "ready"))
  <2>1. Evolves(jobs')
    BY <1>3, <1>5
  <2>2. p.at \in Stopping
    BY <1>5 DEF Stopping
  <2> QED BY <1>1, <1>2, <1>5, <2>1, <2>2, ReadyFits, ServerStep
<1>6. CASE jobs' = Cancelled(p, User_(s)) /\ Go(s, NoServer)
  <2>1. Evolves(jobs')
    BY <1>3, <1>6
  <2> QED BY <1>1, <1>2, <1>6, <2>1, NoServerFits, ServerStep
<1> QED BY <1>4, <1>5, <1>6 DEF Halt

\* The Hub takes a server over, which restored then holds.
LEMMA TakeOverInv == ASSUME Inv, NEW s \in Server, TakeOver(s) PROVE Inv'
<1> DEFINE p == spawner[s]
           r == At(s, "ready")
<1>1. Others /\ UNCHANGED <<routes, faults>> /\ p.at = "restored"
      /\ Fits(s, p, names, known, restored)
  BY Standing DEF TakeOver
<1>2. routes' \in Table /\ faults' \in 0..MaxFaults
  BY <1>1 DEF Inv, Typed
<1>3. CASE Listening(p.host) /\ Go(s, r) /\ UNCHANGED jobs
  <2>1. p.host \in Target
    BY <1>3, ListeningTarget
  <2>2. /\ r \in Spawner /\ r.at = "ready" /\ r.app = p.app /\ r.port = p.port
        /\ r.host = p.host
    BY AtRecord, Standing DEF Place, Started
  <2> HIDE DEF r
  <2>3. Fits(s, r, names, known, restored)
    BY <1>1, <2>1, <2>2 DEF Fits
  <2>4. Alone(s, r)
    BY <1>1 DEF Alone, Fits
  <2>5. Evolves(jobs')
    BY <1>3, JobsStay DEF Inv, Evolves
  <2> QED BY <1>1, <1>2, <1>3, <2>2, <2>3, <2>4, <2>5, ServerStep
<1>4. CASE Go(s, Idle(p)) /\ jobs' = Cancelled(p, User_(s))
  <2>1. Evolves(jobs')
    BY <1>4, CancelledEvolves DEF Inv
  <2> QED BY <1>1, <1>2, <1>4, <2>1, IdleFits, ServerStep
<1> QED BY <1>3, <1>4 DEF TakeOver

-----------------------------------------------------------------------------
\* The steps of StopUserOpenWebuiJobsUseCase

\* The jobs of the user are noted.
LEMMA BeginStopJobsInv == ASSUME Inv, BeginStopJobs PROVE Inv'
<1>1. UNCHANGED <<names, spawner, known, jobs, routes, check, faults, restored>>
  BY DEF BeginStopJobs
<1>2. calls' \in 0..MaxCalls
  BY CallsCounted DEF BeginStopJobs, Inv
<1>3. PICK user \in User :
         stopper' = [NoStopper EXCEPT
            !.at = "stop", !.user = user, !.before = OpenWebuiJobs(user),
            !.todo = {s \in known : /\ User_(s) = user /\ spawner[s].app = "openwebui"
                                    /\ Active(spawner[s])}]
  BY DEF BeginStopJobs
<1> DEFINE todo == {s \in known : /\ User_(s) = user /\ spawner[s].app = "openwebui"
                                  /\ Active(spawner[s])}
<1>4. todo \subseteq Server /\ OpenWebuiJobs(user) \subseteq Job
      /\ \A j \in OpenWebuiJobs(user) : /\ j \in 1..Len(jobs) /\ jobs[j].app = "openwebui"
                                        /\ names[jobs[j].server].user = user
  BY LenProperties, Constants DEF OpenWebuiJobs, Live, Job, User_, Inv, Typed
<1>5. stopper' = [NoStopper EXCEPT !.at = "stop", !.user = user, !.before = OpenWebuiJobs(user),
                                   !.todo = todo]
  BY <1>3
<1> HIDE DEF todo
<1>6. /\ stopper' \in Stopper /\ stopper'.at = "stop" /\ stopper'.user = user
      /\ stopper'.before = OpenWebuiJobs(user)
  BY <1>4, <1>5 DEF NoStopper, Stopper
<1>7. Typed' /\ Servers' /\ Solo'
  BY <1>1, <1>2, <1>6 DEF Inv, Typed, Servers, Solo
<1>8. Stopped'
  BY <1>1, <1>4, <1>6 DEF Stopped
<1> QED BY <1>7, <1>8 DEF Inv

\* The use case goes on: what it is after stays the same.
LEMMA StopperMoves ==
    ASSUME Inv, UNCHANGED <<names, known, routes, check, calls, restored>>,
           spawner' \in [Server -> Spawner], Servers', Solo', Evolves(jobs'),
           faults' \in 0..MaxFaults, stopper' \in Stopper,
           stopper'.before = stopper.before, stopper'.user = stopper.user,
           stopper'.at = "scancel" => stopper.before \cap Live' \subseteq stopper'.ids,
           stopper'.at = "ok" => stopper.before \cap Live' = {}
    PROVE  Inv'
<1>1. Len(jobs) \in Nat /\ Len(jobs') \in Nat
  BY LenProperties DEF Evolves, Inv, Typed
<1>2. Stopped'
  BY <1>1 DEF Stopped, Inv, Evolves
<1>3. Typed'
  BY DEF Typed, Inv, Aimed, Evolves
<1> QED BY <1>2, <1>3 DEF Inv

\* What the use case returns.
LEMMA ReportedStopper ==
    ASSUME NEW st \in Stopper
    PROVE  LET q == Reported(st)
           IN  /\ q \in Stopper /\ q.at \in {"ok", "error"} /\ (q.at = "ok" => ~st.failed)
               /\ q.before = st.before /\ q.user = st.user
<1> DEFINE place == IF st.failed THEN "error" ELSE "ok"
           q == Reported(st)
<1>1. place \in {"ok", "error"} /\ (place = "ok" => ~st.failed)
  OBVIOUS
<1>2. q = [st EXCEPT !.at = place, !.ids = {}]
  BY DEF Reported
<1> HIDE DEF place, q
<1> QED BY <1>1, <1>2 DEF Stopper, q

\* The use case stops a server.
LEMMA StopJobServerInv == ASSUME Inv, NEW s \in Server, StopJobServer(s) PROVE Inv'
<1> DEFINE p == spawner[s]
           q == CASE p.at = "ready" -> Idle(p)
                  [] Pending(p) -> [Cleared(p) EXCEPT !.host = None, !.halted = TRUE]
                  [] OTHER -> p
<1>1. /\ UNCHANGED <<names, known, routes, check, calls, restored>>
      /\ stopper.at = "stop" /\ stopper \in Stopper
  BY DEF StopJobServer, Inv, Typed
<1>2. faults' \in 0..MaxFaults
  BY FaultsCounted DEF StopJobServer, Inv
<1>3. Evolves(Cancelled(p, User_(s))) /\ Evolves(Swept(p, User_(s)))
  BY CancelledEvolves DEF Inv
<1>4. p \in Spawner /\ Fits(s, p, names, known, restored)
  BY Standing
<1>5. q \in Spawner /\ Fits(s, q, names, known, restored) /\ Alone(s, q)
  <2>1. CASE p.at = "ready"
    <3>1. q = Idle(p)
      BY <2>1 DEF Pending
    <3> HIDE DEF q
    <3> QED BY <3>1, IdleFits
  <2>2. CASE p.at # "ready" /\ Pending(p)
    <3> DEFINE c == Cleared(p)
               n == [c EXCEPT !.host = None, !.halted = TRUE]
    <3>1. c \in Spawner /\ c.at = p.at /\ c.app = p.app /\ c.port = p.port /\ c.second = p.second
      BY <1>4, ClearedRecord
    <3>2. q = n
      BY <2>2
    <3> HIDE DEF c, q
    <3>3. n \in Spawner /\ n.at = p.at /\ n.app = p.app /\ n.port = p.port /\ n.second = p.second
          /\ n.host = None
      BY <3>1 DEF Spawner
    <3> HIDE DEF n
    <3>4. Fits(s, n, names, known, restored)
      BY <1>4, <2>2, <3>3 DEF Fits
    <3>5. Alone(s, n)
      BY <3>3 DEF Alone, Beyond
    <3> QED BY <3>2, <3>3, <3>4, <3>5
  <2>3. CASE p.at # "ready" /\ ~Pending(p)
    <3>1. q = p
      BY <2>3
    <3> QED BY <1>4, <3>1 DEF Alone
  <2> QED BY <2>1, <2>2, <2>3
<1>6. CASE /\ stopper' = [stopper EXCEPT !.todo = @ \ {s}]
           /\ jobs' = Cancelled(p, User_(s))
           /\ Go(s, q)
  <2>0. Go(s, q)
    BY <1>6
  <2> HIDE DEF q
  <2>1. spawner' \in [Server -> Spawner] /\ Servers' /\ Solo'
    BY <1>1, <1>5, <2>0, ServersMove
  <2>2. /\ stopper' \in Stopper /\ stopper'.at = "stop" /\ stopper'.before = stopper.before
        /\ stopper'.user = stopper.user
    BY <1>1, <1>6 DEF Stopper
  <2>3. Evolves(jobs')
    BY <1>3, <1>6
  <2> QED BY <1>1, <1>2, <2>1, <2>2, <2>3, StopperMoves
<1>7. CASE /\ stopper' = [stopper EXCEPT !.todo = @ \ {s}, !.failed = TRUE]
           /\ jobs' = Swept(p, User_(s))
           /\ UNCHANGED spawner
  <2>1. spawner' \in [Server -> Spawner] /\ Servers' /\ Solo'
    BY <1>1, <1>7 DEF Inv, Typed, Servers, Solo
  <2>2. /\ stopper' \in Stopper /\ stopper'.at = "stop" /\ stopper'.before = stopper.before
        /\ stopper'.user = stopper.user
    BY <1>1, <1>7 DEF Stopper
  <2>3. Evolves(jobs')
    BY <1>3, <1>7
  <2> QED BY <1>1, <1>2, <2>1, <2>2, <2>3, StopperMoves
<1> QED BY <1>6, <1>7 DEF StopJobServer

\* squeue finds every job of the user that has not ended.
LEMMA FindJobsInv == ASSUME Inv, FindJobs PROVE Inv'
<1>1. UNCHANGED <<names, spawner, known, jobs, routes, check, calls, restored>>
      /\ stopper \in Stopper
  BY DEF FindJobs, Inv, Typed
<1>2. faults' \in 0..MaxFaults
  BY FaultsCounted DEF FindJobs, Inv
<1>3. spawner' \in [Server -> Spawner] /\ Servers' /\ Solo'
  BY <1>1 DEF Inv, Typed, Servers, Solo
<1>4. Evolves(jobs') /\ Live' = Live
  BY <1>1, JobsStay DEF Inv, Evolves, Live
<1> DEFINE ids == OpenWebuiJobs(stopper.user)
<1>5. ids \subseteq Job /\ stopper.before \cap Live \subseteq ids
  BY LenProperties, Constants DEF OpenWebuiJobs, Live, Job, User_, Inv, Typed, Stopped
<1>6. CASE ids = {} /\ stopper' = Reported(stopper)
  BY <1>1, <1>2, <1>3, <1>4, <1>5, <1>6, ReportedStopper, StopperMoves
<1>7. CASE ids # {} /\ stopper' = [stopper EXCEPT !.at = "scancel", !.ids = ids]
  <2>0. stopper' = [stopper EXCEPT !.at = "scancel", !.ids = ids]
    BY <1>7
  <2> HIDE DEF ids
  <2>1. /\ stopper' \in Stopper /\ stopper'.at = "scancel" /\ stopper'.before = stopper.before
        /\ stopper'.user = stopper.user /\ stopper'.ids = ids
    BY <1>1, <1>5, <2>0 DEF Stopper
  <2> QED BY <1>1, <1>2, <1>3, <1>4, <1>5, <2>1, StopperMoves
<1>8. CASE stopper' = Reported([stopper EXCEPT !.failed = TRUE])
  <2> DEFINE st == [stopper EXCEPT !.failed = TRUE]
  <2>1. st \in Stopper /\ st.failed /\ st.before = stopper.before /\ st.user = stopper.user
    BY <1>1 DEF Stopper
  <2>2. stopper' = Reported(st)
    BY <1>8
  <2> HIDE DEF st
  <2> QED BY <1>1, <1>2, <1>3, <1>4, <2>1, <2>2, ReportedStopper, StopperMoves
<1> QED BY <1>6, <1>7, <1>8 DEF FindJobs

\* scancel ends the jobs found.
LEMMA CancelJobsInv == ASSUME Inv, CancelJobs PROVE Inv'
<1>1. UNCHANGED <<names, spawner, known, routes, check, calls, restored>>
      /\ stopper \in Stopper /\ stopper.at = "scancel"
  BY DEF CancelJobs, Inv, Typed
<1>2. faults' \in 0..MaxFaults
  BY FaultsCounted DEF CancelJobs, Inv
<1>3. spawner' \in [Server -> Spawner] /\ Servers' /\ Solo'
  BY <1>1 DEF Inv, Typed, Servers, Solo
<1>4. CASE jobs' = Ended(stopper.ids) /\ stopper' = Reported(stopper)
  <2>1. Evolves(jobs') /\ Len(jobs') = Len(jobs)
        /\ \A j \in 1..Len(jobs) : j \in stopper.ids => jobs'[j].state = "ended"
    BY <1>4, EndedEvolves DEF Inv
  <2>2. stopper.before \cap Live' = {}
    <3> SUFFICES ASSUME NEW j \in stopper.before, j \in Live' PROVE FALSE
      OBVIOUS
    <3>1. j \in 1..Len(jobs) /\ jobs'[j].state # "ended"
      BY <2>1 DEF Live
    <3>2. j \in Live
      BY <2>1, <3>1 DEF Live, Evolves
    <3> QED BY <1>1, <2>1, <3>1, <3>2 DEF Inv, Stopped
  <2> QED BY <1>1, <1>2, <1>3, <1>4, <2>1, <2>2, ReportedStopper, StopperMoves
<1>5. CASE /\ \E some \in SUBSET stopper.ids : jobs' = Ended(some)
           /\ stopper' = Reported([stopper EXCEPT !.failed = TRUE])
  <2> DEFINE st == [stopper EXCEPT !.failed = TRUE]
  <2>1. st \in Stopper /\ st.failed /\ st.before = stopper.before /\ st.user = stopper.user
    BY <1>1 DEF Stopper
  <2>2. stopper' = Reported(st)
    BY <1>5
  <2>3. Evolves(jobs')
    BY <1>5, EndedEvolves DEF Inv
  <2> HIDE DEF st
  <2> QED BY <1>1, <1>2, <1>3, <2>1, <2>2, <2>3, ReportedStopper, StopperMoves
<1> QED BY <1>4, <1>5 DEF CancelJobs

-----------------------------------------------------------------------------
\* Slurm and restarts

\* A step of Slurm.
LEMMA JobsMove ==
    ASSUME Inv, UNCHANGED <<names, spawner, known, routes, check, stopper, bounds, restored>>,
           Evolves(jobs')
    PROVE  Inv'
<1>1. Stopped'
  BY StoppedKept
<1>2. Typed' /\ Servers' /\ Solo'
  BY DEF Typed, Servers, Solo, Inv, Aimed, Evolves, bounds
<1> QED BY <1>1, <1>2 DEF Inv

\* A job begins, which may end others.
LEMMA JobBeginsInv == ASSUME Inv, NEW j \in 1..Len(jobs), JobBegins(j) PROVE Inv'
<1>1. /\ jobs[j].state = "queued"
      /\ UNCHANGED <<names, spawner, known, routes, check, stopper, bounds, restored>>
      /\ \E E : jobs' = Ended(E) \/ jobs' = [Ended(E) EXCEPT ![j].state = "running"]
  BY DEF JobBegins
<1>2. PICK E : jobs' = Ended(E) \/ jobs' = [Ended(E) EXCEPT ![j].state = "running"]
  BY <1>1
<1>3. CASE jobs' = Ended(E)
  <2>1. Evolves(jobs')
    BY <1>3, EndedEvolves DEF Inv
  <2> QED BY <1>1, <2>1, JobsMove
<1>4. CASE jobs' = [Ended(E) EXCEPT ![j].state = "running"]
  <2> DEFINE J == Ended(E)
             r == [J[j] EXCEPT !.state = "running"]
  <2>1. Evolves(J) /\ Len(J) = Len(jobs) /\ J \in Seq(SlurmJob)
    BY EndedEvolves DEF Inv, Evolves
  <2>2. jobs' = [J EXCEPT ![j] = r]
    BY <1>4
  <2> HIDE DEF J
  <2>3. J \in [1..Len(jobs) -> SlurmJob] /\ Len(jobs) \in Nat
    BY <2>1, LenProperties
  <2>4. r \in SlurmJob /\ r.server = J[j].server /\ r.app = J[j].app
    BY <2>3 DEF SlurmJob
  <2> HIDE DEF r
  <2>5. jobs' \in [1..Len(jobs) -> SlurmJob]
    BY <2>2, <2>3, <2>4
  <2>6. jobs' \in Seq(SlurmJob) /\ Len(jobs') = Len(jobs)
    BY <2>3, <2>5, LenProperties
  <2>7. ASSUME NEW i \in 1..Len(jobs)
        PROVE  /\ jobs'[i].server = jobs[i].server /\ jobs'[i].app = jobs[i].app
               /\ jobs[i].state = "ended" => jobs'[i].state = "ended"
    <3>1. CASE i = j
      BY <1>1, <2>1, <2>2, <2>3, <2>4, <3>1 DEF Evolves
    <3>2. CASE i # j
      BY <2>1, <2>2, <2>3, <3>2 DEF Evolves
    <3> QED BY <3>1, <3>2
  <2>8. Evolves(jobs')
    BY <2>3, <2>6, <2>7 DEF Evolves, Inv, Typed
  <2> QED BY <1>1, <2>8, JobsMove
<1> QED BY <1>2, <1>3, <1>4

\* A job ends by itself.
LEMMA JobEndsInv == ASSUME Inv, NEW j \in 1..Len(jobs), JobEnds(j) PROVE Inv'
<1>1. Evolves(jobs')
  BY EndedEvolves DEF JobEnds, Inv
<1> QED BY <1>1, JobsMove DEF JobEnds

\* No run of check_routes.
LEMMA NoCheckType == NoCheck \in Check /\ NoCheck.at = "idle" /\ NoCheck.todo = {}
BY Empty DEF NoCheck, Check

\* No use case in progress.
LEMMA NoStopperType == NoStopper \in Stopper /\ NoStopper.at = "idle" /\ NoStopper.before = {}
BY DEF NoStopper, Stopper

\* The record of a server after a restart.
LEMMA LoadedRecord ==
    ASSUME NEW p \in Spawner
    PROVE  LET q == Loaded(p)
           IN  q \in Spawner /\ q.at = "restored" /\ q.app = p.app /\ q.port = p.port
<1> DEFINE n == [NoServer EXCEPT !.at = "restored", !.app = p.app, !.job = p.job,
                                 !.port = p.port, !.host = p.host]
           c == Synced(n)
           had == p.job # 0
           q == Loaded(p)
<1>0. NoServer \in Spawner
  BY Constants DEF NoServer, Spawner, Place, App
<1>1. n \in Spawner /\ n.at = "restored" /\ n.app = p.app /\ n.port = p.port
  BY <1>0 DEF Spawner, Place
<1> HIDE DEF n
<1>2. c \in Spawner /\ c.at = "restored" /\ c.app = p.app /\ c.port = p.port
  BY <1>1, SyncedRecord
<1>3. q = [c EXCEPT !.alias = had] /\ had \in BOOLEAN
  BY DEF Loaded, n
<1> HIDE DEF c, had, q
<1>4. q \in Spawner /\ q.at = "restored" /\ q.app = p.app /\ q.port = p.port
  BY <1>2, <1>3 DEF Spawner
<1> QED BY <1>4 DEF q

\* Servers with an address are taken over, the others are idle.
LEMMA RestartHubInv == ASSUME Inv, RestartHub PROVE Inv'
<1> DEFINE port(s) == IF spawner[s].at = "idle" THEN spawner[s].port ELSE None
           new(s) == IF spawner[s].host # None THEN Loaded(spawner[s])
                     ELSE [NoServer EXCEPT !.port = port(s)]
<1>1. /\ spawner' = [s \in Server |-> new(s)]
      /\ restored' = restored \cup {s \in Server : spawner[s].host # None}
      /\ routes' \in {routes, <<>>} /\ check' = NoCheck /\ stopper' = NoStopper
      /\ UNCHANGED <<names, known, jobs, calls>>
  BY DEF RestartHub
<1>2. faults' \in 0..MaxFaults
  BY FaultsCounted DEF RestartHub, Inv
<1>3. ASSUME NEW s \in Server
      PROVE  /\ new(s) \in Spawner
             /\ Fits(s, new(s), names, known, restored')
             /\ spawner[s].host = None => ~Beyond(new(s))
  <2>1. spawner[s] \in Spawner /\ Fits(s, spawner[s], names, known, restored)
    BY Standing
  <2>2. CASE spawner[s].host # None
    <3> DEFINE q == Loaded(spawner[s])
    <3>1. q \in Spawner /\ q.at = "restored" /\ q.app = spawner[s].app
          /\ q.port = spawner[s].port
      BY <2>1, LoadedRecord
    <3>2. s \in known /\ s \in restored'
      BY <1>1, <2>1, <2>2 DEF Fits
    <3>3. new(s) = q
      BY <2>2
    <3> HIDE DEF q, new
    <3>4. Fits(s, q, names, known, restored')
      BY <2>1, <3>1, <3>2 DEF Fits
    <3> QED BY <2>2, <3>1, <3>3, <3>4
  <2>3. CASE spawner[s].host = None
    <3> DEFINE q == [NoServer EXCEPT !.port = port(s)]
    <3>1. port(s) \in Target \cup {None}
      BY <2>1 DEF Spawner
    <3>2. new(s) = q
      BY <2>3
    <3>a. NoServer \in Spawner /\ NoServer.at = "idle" /\ NoServer.app = "lab"
          /\ NoServer.host = None
      BY NoServerFits DEF NoServer
    <3> HIDE DEF port, new
    <3>3. q \in Spawner /\ q.at = "idle" /\ q.app = "lab" /\ q.host = None
      BY <3>1, <3>a DEF Spawner
    <3> HIDE DEF q
    <3>4. Fits(s, q, names, known, restored') /\ ~Beyond(q)
      BY <3>3 DEF Fits, Beyond
    <3> QED BY <3>2, <3>3, <3>4
  <2> QED BY <2>2, <2>3
<1> HIDE DEF new
<1>4. spawner' \in [Server -> Spawner] /\ Servers'
  BY <1>1, <1>3 DEF Servers
<1>5. Solo'
  BY <1>1, <1>3 DEF Solo
<1>6. Typed'
  BY <1>1, <1>2, <1>4, NoCheckType, NoStopperType, Empty DEF Typed, Inv, Aimed
<1>7. Stopped'
  BY <1>1, NoStopperType DEF Stopped
<1> QED BY <1>4, <1>5, <1>6, <1>7 DEF Inv

\* CHP loses its routes.
LEMMA RestartProxyInv == ASSUME Inv, RestartProxy PROVE Inv'
<1>1. routes' = <<>> /\ UNCHANGED <<names, spawner, known, jobs, check, stopper, calls, restored>>
  BY DEF RestartProxy
<1>2. faults' \in 0..MaxFaults
  BY FaultsCounted DEF RestartProxy, Inv
<1>3. Typed'
  BY <1>1, <1>2, Empty DEF Typed, Inv, Aimed
<1>4. Servers' /\ Solo' /\ Stopped'
  BY <1>1 DEF Servers, Solo, Stopped, Inv, Live
<1> QED BY <1>3, <1>4 DEF Inv

-----------------------------------------------------------------------------
\* The steps of check_routes

\* What a visit may do to a server.
Same(p, q) ==
    /\ q.at = p.at /\ q.app = p.app /\ q.port = p.port /\ q.host = p.host
    /\ q.second = p.second

\* The servers after a step of check_routes.
Watched(S) ==
    S \in [Server -> Spawner] /\ \A s \in Server : Same(spawner[s], S[s])

\* A step of check_routes keeps the invariant.
LEMMA CheckStepKeeps ==
    ASSUME Inv, Checking, Watched(spawner'), routes' \in Table, faults' \in 0..MaxFaults,
           check' \in Check, check'.at # "visit", Aimed(check')
    PROVE  Inv'
<1>1. UNCHANGED <<names, known, jobs, stopper, calls, restored>>
  BY DEF Checking
<1>2. Typed'
  BY <1>1 DEF Typed, Inv, Watched
<1>3. Servers'
  <2> SUFFICES ASSUME NEW s \in Server PROVE Fits(s, spawner'[s], names, known, restored)
    BY <1>1 DEF Servers
  <2>1. Fits(s, spawner[s], names, known, restored) /\ Same(spawner[s], spawner'[s])
    BY Standing DEF Watched
  <2> QED BY <2>1 DEF Fits, Same
<1>4. Solo'
  <2>1. \A s \in Server : Beyond(spawner'[s]) => Beyond(spawner[s])
    BY DEF Watched, Same, Beyond
  <2> QED BY <1>1, <2>1 DEF Solo, Inv
<1>5. Stopped'
  BY <1>1 DEF Stopped, Inv, Live
<1> QED BY <1>2, <1>3, <1>4, <1>5 DEF Inv

\* A run that a visit has reached.
LEMMA ToAliasType ==
    ASSUME NEW c \in Check, NEW s \in Server
    PROVE  ToAlias(c, s) \in Check /\ Aimed(ToAlias(c, s))
<1> DEFINE more == [c EXCEPT !.at = "addalias", !.server = s, !.key = None]
           on == [c EXCEPT !.at = "visit", !.server = None, !.key = None, !.target = None,
                           !.mode = "none"]
<1>1. (c.target # None /\ ToAlias(c, s) = more) \/ ToAlias(c, s) = on
  BY DEF ToAlias
<1>2. c.target # None => more \in Check /\ Aimed(more)
  BY DEF Check, Aimed
<1>3. on \in Check /\ Aimed(on)
  BY DEF Check, Aimed
<1> QED BY <1>1, <1>2, <1>3

\* The same from the primary route on.
LEMMA ToPrimaryType ==
    ASSUME NEW c \in Check, NEW s \in Server, NEW p \in Spawner
    PROVE  ToPrimary(c, s, p) \in Check /\ Aimed(ToPrimary(c, s, p))
<1> DEFINE good == c.good \cup {Primary(s, p), Alias(s)}
           k == Primary(s, p)
           needed == [c EXCEPT !.good = good]
           more == [needed EXCEPT !.at = "add", !.server = s, !.key = k]
<1>1. k \in Spec_ /\ good \subseteq Spec_
  BY Keys DEF Spawner, Check
<1>2. (c.target # None /\ ToPrimary(c, s, p) = more) \/ ToPrimary(c, s, p) = ToAlias(needed, s)
  BY DEF ToPrimary
<1> HIDE DEF good, k
<1>3. needed \in Check /\ needed.target = c.target
  BY <1>1 DEF Check
<1> HIDE DEF needed
<1>4. c.target # None => more \in Check /\ Aimed(more)
  BY <1>1, <1>3 DEF Check, Aimed
<1> HIDE DEF more
<1>5. ToAlias(needed, s) \in Check /\ Aimed(ToAlias(needed, s))
  BY <1>3, ToAliasType
<1> QED BY <1>2, <1>4, <1>5

\* A visit leaves a run of check_routes.
LEMMA VisitType ==
    ASSUME NEW c \in Check, Aimed(c), NEW s \in Server, NEW p \in Spawner
    PROVE  Visit(c, s, p) \in Check /\ Aimed(Visit(c, s, p))
<1> DEFINE mode == IF Primary(s, p) \in DOMAIN c.routes THEN "wrong" ELSE "missing"
           host == p.host
           target == TargetOf(p)
           ready == [c EXCEPT !.target = host, !.mode = mode]
           fixed == [c EXCEPT !.target = target, !.mode = "fixed"]
           poll == [c EXCEPT !.at = "poll", !.server = s, !.target = target]
<1>1. \/ Visit(c, s, p) = ToPrimary(ready, s, p) \/ Visit(c, s, p) = ToPrimary(fixed, s, p)
      \/ Visit(c, s, p) = poll \/ Visit(c, s, p) = c
  BY DEF Visit, Pending, Active
<1>2. mode \in {"wrong", "missing"}
  OBVIOUS
<1>3. host \in Target \cup {None} /\ target \in Target \cup {None}
  BY TargetOfTarget DEF Spawner
<1> HIDE DEF mode, host, target
<1>4. ready \in Check /\ fixed \in Check /\ poll \in Check /\ Aimed(poll)
  BY <1>2, <1>3 DEF Check, Aimed
<1> HIDE DEF ready, fixed, poll
<1> QED BY <1>1, <1>4, ToPrimaryType

\* Whether a visit waits does not depend on what was passed before it.
LEMMA VisitSame ==
    ASSUME NEW c \in Check, NEW s \in Server, NEW p \in Spawner, NEW d \in Check,
           d.at = c.at, d.routes = c.routes
    PROVE  Visit(d, s, p).at = Visit(c, s, p).at
<1>1. d \in Check /\ d.at = c.at /\ d.routes = c.routes
  OBVIOUS
<1>2. ASSUME NEW x \in Check, NEW y \in Check, x.target = y.target, x.mode = y.mode,
             x.routes = y.routes
      PROVE  ToAlias(x, s).at = ToAlias(y, s).at
  BY <1>2 DEF ToAlias, Check
<1>3. ASSUME NEW x \in Check, NEW y \in Check, x.target = y.target, x.mode = y.mode,
             x.routes = y.routes
      PROVE  ToPrimary(x, s, p).at = ToPrimary(y, s, p).at
  <2> DEFINE gx == x.good \cup {Primary(s, p), Alias(s)}
             gy == y.good \cup {Primary(s, p), Alias(s)}
             nx == [x EXCEPT !.good = gx]
             ny == [y EXCEPT !.good = gy]
  <2>1. gx \subseteq Spec_ /\ gy \subseteq Spec_
    BY Keys DEF Spawner, Check
  <2>2. ToPrimary(x, s, p) = IF x.target # None /\ ~Forwards(x.routes, Primary(s, p), x.target)
                             THEN [nx EXCEPT !.at = "add", !.server = s, !.key = Primary(s, p)]
                             ELSE ToAlias(nx, s)
    BY <2>1 DEF ToPrimary, Check
  <2>3. ToPrimary(y, s, p) = IF y.target # None /\ ~Forwards(y.routes, Primary(s, p), y.target)
                             THEN [ny EXCEPT !.at = "add", !.server = s, !.key = Primary(s, p)]
                             ELSE ToAlias(ny, s)
    BY <2>1 DEF ToPrimary, Check
  <2> HIDE DEF gx, gy
  <2>4. /\ nx \in Check /\ nx.target = x.target /\ nx.mode = x.mode /\ nx.routes = x.routes
        /\ ny \in Check /\ ny.target = y.target /\ ny.mode = y.mode /\ ny.routes = y.routes
    BY <2>1 DEF Check
  <2> HIDE DEF nx, ny
  <2>5. ToAlias(nx, s).at = ToAlias(ny, s).at
    BY <1>3, <2>4, <1>2
  <2>6. /\ [nx EXCEPT !.at = "add", !.server = s, !.key = Primary(s, p)].at = "add"
        /\ [ny EXCEPT !.at = "add", !.server = s, !.key = Primary(s, p)].at = "add"
    BY <2>4 DEF Check
  <2> QED BY <1>3, <2>2, <2>3, <2>5, <2>6
<1> DEFINE ready(x) == [x EXCEPT !.target = p.host,
                                 !.mode = IF Primary(s, p) \in DOMAIN x.routes THEN "wrong"
                                          ELSE "missing"]
           fixed(x) == [x EXCEPT !.target = TargetOf(p), !.mode = "fixed"]
           poll(x) == [x EXCEPT !.at = "poll", !.server = s, !.target = TargetOf(p)]
<1>4. /\ ready(c) \in Check /\ fixed(c) \in Check /\ poll(c).at = "poll"
      /\ ready(d) \in Check /\ fixed(d) \in Check /\ poll(d).at = "poll"
      /\ ready(c).target = ready(d).target /\ ready(c).mode = ready(d).mode
      /\ ready(c).routes = ready(d).routes
      /\ fixed(c).target = fixed(d).target /\ fixed(c).mode = fixed(d).mode
      /\ fixed(c).routes = fixed(d).routes
  <2> DEFINE mode == IF Primary(s, p) \in DOMAIN c.routes THEN "wrong" ELSE "missing"
             host == p.host
             target == TargetOf(p)
  <2>1. mode \in {"wrong", "missing"} /\ host \in Target \cup {None}
        /\ target \in Target \cup {None}
    BY TargetOfTarget DEF Spawner
  <2>2. /\ ready(c) = [c EXCEPT !.target = host, !.mode = mode]
        /\ ready(d) = [d EXCEPT !.target = host, !.mode = mode]
        /\ fixed(c) = [c EXCEPT !.target = target, !.mode = "fixed"]
        /\ fixed(d) = [d EXCEPT !.target = target, !.mode = "fixed"]
        /\ poll(c) = [c EXCEPT !.at = "poll", !.server = s, !.target = target]
        /\ poll(d) = [d EXCEPT !.at = "poll", !.server = s, !.target = target]
    BY <1>1
  <2> HIDE DEF ready, fixed, poll, mode, host, target
  <2>3. /\ ready(c) \in Check /\ ready(c).target = host /\ ready(c).mode = mode
        /\ ready(c).routes = c.routes
    BY <2>1, <2>2 DEF Check
  <2>4. /\ ready(d) \in Check /\ ready(d).target = host /\ ready(d).mode = mode
        /\ ready(d).routes = d.routes
    BY <1>1, <2>1, <2>2 DEF Check
  <2>5. /\ fixed(c) \in Check /\ fixed(c).target = target /\ fixed(c).mode = "fixed"
        /\ fixed(c).routes = c.routes
    BY <2>1, <2>2 DEF Check
  <2>6. /\ fixed(d) \in Check /\ fixed(d).target = target /\ fixed(d).mode = "fixed"
        /\ fixed(d).routes = d.routes
    BY <1>1, <2>1, <2>2 DEF Check
  <2>7. poll(c).at = "poll" /\ poll(d).at = "poll"
    BY <1>1, <2>2 DEF Check
  <2> QED BY <1>1, <2>3, <2>4, <2>5, <2>6, <2>7
<1>5. CASE p.at = "ready"
  <2>1. Visit(c, s, p) = ToPrimary(ready(c), s, p) /\ Visit(d, s, p) = ToPrimary(ready(d), s, p)
    BY <1>5 DEF Visit, Pending, Active
  <2> HIDE DEF ready
  <2> QED BY <1>3, <1>4, <2>1
<1>6. CASE Pending(p)
  <2>1. Visit(c, s, p) = ToPrimary(fixed(c), s, p) /\ Visit(d, s, p) = ToPrimary(fixed(d), s, p)
    BY <1>6 DEF Visit, Pending, Active
  <2> HIDE DEF fixed
  <2> QED BY <1>3, <1>4, <2>1
<1>7. CASE ~Active(p) /\ p.job # 0
  <2>1. Visit(c, s, p) = poll(c) /\ Visit(d, s, p) = poll(d)
    BY <1>7 DEF Visit, Pending, Active
  <2> HIDE DEF poll
  <2> QED BY <1>4, <2>1
<1>8. CASE ~(p.at = "ready") /\ ~Pending(p) /\ ~(~Active(p) /\ p.job # 0)
  <2>1. Visit(c, s, p) = c /\ Visit(d, s, p) = d
    BY <1>8 DEF Visit
  <2> QED BY <1>1, <2>1
<1> QED BY <1>5, <1>6, <1>7, <1>8

\* From the visits to the next wait.
LEMMA AdvanceType ==
    ASSUME Inv, NEW c \in Check, Aimed(c), NEW S, Watched(S), Advance(c, S)
    PROVE  check' \in Check /\ check'.at # "visit" /\ Aimed(check') /\ Watched(spawner')
<1> DEFINE sync == [s \in c.todo |-> [Synced(S[s]) EXCEPT !.alias = TRUE]]
           waits == {s \in c.todo : Visit(c, s, sync[s]).at # "visit"}
           past(passed) == [c EXCEPT !.todo = @ \ passed, !.good = @ \cup Needed(sync, passed)]
           moved(passed) == [s \in Server |-> IF s \in passed THEN sync[s] ELSE S[s]]
<1>1. c.todo \subseteq Server /\ c.good \subseteq Spec_ /\ DOMAIN c.routes \subseteq Spec_
  <2>1. c.routes \in Table /\ c.todo \subseteq Server /\ c.good \subseteq Spec_
    BY DEF Check
  <2> QED BY <2>1 DEF Table
<1>2. ASSUME NEW s \in c.todo
      PROVE  sync[s] \in Spawner /\ Same(spawner[s], sync[s])
  <2> DEFINE q == Synced(S[s])
  <2>1. S[s] \in Spawner /\ Same(spawner[s], S[s])
    BY <1>1 DEF Watched
  <2>2. /\ q \in Spawner /\ q.at = S[s].at /\ q.app = S[s].app /\ q.port = S[s].port
        /\ q.host = S[s].host /\ q.second = S[s].second
    BY <2>1, SyncedRecord
  <2>3. sync[s] = [q EXCEPT !.alias = TRUE]
    OBVIOUS
  <2> HIDE DEF q, sync
  <2> QED BY <2>1, <2>2, <2>3 DEF Spawner, Same
<1>3. ASSUME NEW passed \in SUBSET c.todo
      PROVE  /\ Watched(moved(passed))
             /\ \E T \in SUBSET Server, G \in SUBSET Spec_ :
                   past(passed) = [c EXCEPT !.todo = T, !.good = G]
  <2>1. Watched(moved(passed))
    <3> SUFFICES ASSUME NEW s \in Server
                 PROVE  moved(passed)[s] \in Spawner /\ Same(spawner[s], moved(passed)[s])
      BY DEF Watched
    <3>1. CASE s \in passed
      <4>1. moved(passed)[s] = sync[s]
        BY <3>1
      <4> HIDE DEF moved, sync
      <4> QED BY <1>2, <3>1, <4>1
    <3>2. CASE s \notin passed
      BY <3>2 DEF Watched
    <3> QED BY <3>1, <3>2
  <2>2. Needed(sync, passed) \subseteq Spec_
    <3> SUFFICES ASSUME NEW s \in passed PROVE {Primary(s, sync[s]), Alias(s)} \subseteq Spec_
      BY DEF Needed
    <3>1. sync[s].spec \in 0..MaxJobs
      BY <1>2 DEF Spawner
    <3> HIDE DEF sync
    <3> QED BY <1>1, <3>1, Keys
  <2> DEFINE T == c.todo \ passed
             G == c.good \cup Needed(sync, passed)
  <2>3. past(passed) = [c EXCEPT !.todo = T, !.good = G]
    OBVIOUS
  <2>4. T \in SUBSET Server /\ G \in SUBSET Spec_
    BY <1>1, <2>2
  <2> HIDE DEF T, G, past
  <2> QED BY <2>1, <2>3, <2>4
<1>4. CASE check' = c /\ spawner' = S /\ c.at # "visit"
  BY <1>4
<1>5. CASE check' = Fallback /\ spawner' = S
  <2>1. Fallback \in Check /\ Fallback.at = "default"
    BY NoCheckType DEF Fallback, Check
  <2> QED BY <1>5, <2>1 DEF Aimed
<1>6. CASE /\ check' = LET dels == Deletions(past(c.todo))
                       IN  IF dels = {} THEN NoCheck
                           ELSE [NoCheck EXCEPT !.at = "gather", !.dels = dels]
           /\ spawner' = moved(c.todo)
  <2> DEFINE dels == Deletions(past(c.todo))
             g == [NoCheck EXCEPT !.at = "gather", !.dels = dels]
  <2>1. dels \subseteq Spec_
    <3>1. PICK T \in SUBSET Server, G \in SUBSET Spec_ :
                  past(c.todo) = [c EXCEPT !.todo = T, !.good = G]
      BY <1>3
    <3> HIDE DEF past
    <3>2. past(c.todo).routes = c.routes
      BY <3>1 DEF Check
    <3> QED BY <1>1, <3>2 DEF Deletions
  <2>2. check' = NoCheck \/ check' = g
    BY <1>6
  <2>3. Watched(spawner')
    BY <1>3, <1>6
  <2> HIDE DEF dels
  <2>4. g \in Check /\ g.at = "gather"
    BY <2>1, NoCheckType DEF Check
  <2> QED BY <2>2, <2>3, <2>4, NoCheckType DEF Aimed
<1>7. CASE \E s \in waits : \E passed \in SUBSET (c.todo \ waits) :
             /\ check' = Visit(past(passed \cup {s}), s, sync[s])
             /\ spawner' = moved(passed \cup {s})
  <2>1. PICK s \in waits : \E passed \in SUBSET (c.todo \ waits) :
             /\ check' = Visit(past(passed \cup {s}), s, sync[s])
             /\ spawner' = moved(passed \cup {s})
    BY <1>7
  <2>2. PICK passed \in SUBSET (c.todo \ waits) :
             /\ check' = Visit(past(passed \cup {s}), s, sync[s])
             /\ spawner' = moved(passed \cup {s})
    BY <2>1
  <2> DEFINE all == passed \cup {s}
             d == past(all)
  <2>3. all \in SUBSET c.todo /\ s \in c.todo /\ Visit(c, s, sync[s]).at # "visit"
    OBVIOUS
  <2>4. check' = Visit(d, s, sync[s]) /\ spawner' = moved(all)
    BY <2>2
  <2>5. sync[s] \in Spawner
    BY <1>2, <2>3
  <2> HIDE DEF all, past, moved, sync, waits
  <2>6. PICK T \in SUBSET Server, G \in SUBSET Spec_ : d = [c EXCEPT !.todo = T, !.good = G]
    BY <1>3, <2>3
  <2>7. Watched(spawner')
    BY <1>3, <2>3, <2>4
  <2> HIDE DEF d
  <2>8. d \in Check /\ Aimed(d) /\ d.at = c.at /\ d.routes = c.routes
    BY <2>6 DEF Check, Aimed
  <2>9. s \in Server
    BY <1>1, <2>3
  <2>10. Visit(d, s, sync[s]).at = Visit(c, s, sync[s]).at
    BY <2>5, <2>8, <2>9, VisitSame
  <2>11. Visit(d, s, sync[s]) \in Check /\ Aimed(Visit(d, s, sync[s]))
    BY <2>5, <2>8, <2>9, VisitType
  <2> QED BY <2>3, <2>4, <2>7, <2>10, <2>11
<1>8. CASE c.at # "visit"
  BY <1>4, <1>8 DEF Advance
<1>9. CASE c.at = "visit" /\ c.changed
  BY <1>5, <1>9 DEF Advance
<1>10. CASE c.at = "visit" /\ ~c.changed /\ waits = {}
  BY <1>6, <1>10 DEF Advance
<1>11. CASE c.at = "visit" /\ ~c.changed /\ waits # {}
  BY <1>7, <1>11 DEF Advance
<1> QED BY <1>8, <1>9, <1>10, <1>11

\* The ends of a run.
LEMMA FallbackType ==
    /\ NoCheck \in Check /\ NoCheck.at # "visit" /\ Aimed(NoCheck)
    /\ Fallback \in Check /\ Fallback.at # "visit" /\ Aimed(Fallback)
BY NoCheckType DEF Fallback, Check, Aimed

\* A request to CHP and what follows it.
LEMMA CheckRequestInv ==
    ASSUME Inv, NEW after \in Table, NEW next \in Check, Aimed(next),
           NEW failed \in {NoCheck, Fallback}, CheckRequest(after, next, failed)
    PROVE  Inv'
<1>1. Checking
  BY DEF CheckRequest
<1>2. faults' \in 0..MaxFaults
  BY FaultsCounted DEF CheckRequest, Inv
<1>3. routes' \in Table
  BY DEF CheckRequest, Inv, Typed
<1>4. Watched(spawner)
  BY DEF Watched, Same, Inv, Typed
<1>5. CASE Advance(next, spawner)
  BY <1>1, <1>2, <1>3, <1>4, <1>5, AdvanceType, CheckStepKeeps
<1>6. CASE check' = failed /\ UNCHANGED spawner
  <2>1. Watched(spawner')
    BY <1>4, <1>6
  <2> QED BY <1>1, <1>2, <1>3, <1>6, <2>1, FallbackType, CheckStepKeeps
<1> QED BY <1>5, <1>6 DEF CheckRequest

\* A run begins.
LEMMA CheckBeginsInv == ASSUME Inv, CheckBegins PROVE Inv'
<1> DEFINE c == [NoCheck EXCEPT !.at = "visit", !.todo = known, !.routes = routes]
<1>1. CheckRequest(routes, c, Fallback)
  BY DEF CheckBegins
<1>2. c \in Check /\ Aimed(c)
  BY NoCheckType DEF Check, Aimed, Inv, Typed
<1>3. routes \in Table
  BY DEF Inv, Typed
<1> HIDE DEF c
<1> QED BY <1>1, <1>2, <1>3, CheckRequestInv

\* The answer of Slurm on the job of a server.
LEMMA PollJobInv == ASSUME Inv, PollJob PROVE Inv'
<1> DEFINE s == check.server
           p == spawner[s]
           fixed == [check EXCEPT !.mode = "fixed"]
           found == ToPrimary(fixed, s, p)
           passed == [check EXCEPT !.at = "visit", !.server = None, !.target = None]
           polled == IF p.job \in Live THEN spawner ELSE [spawner EXCEPT ![s] = Cleared(p)]
<1>1. /\ check \in Check /\ check.at = "poll" /\ s \in Server
      /\ Checking /\ UNCHANGED <<routes, faults>>
  BY DEF PollJob, Inv, Typed, Aimed
<1>2. routes' \in Table /\ faults' \in 0..MaxFaults
  BY <1>1 DEF Inv, Typed
<1>3. p \in Spawner /\ spawner \in [Server -> Spawner]
  BY <1>1, Standing
<1>4. Watched(spawner)
  BY DEF Watched, Same, Inv, Typed
<1>5. Watched(polled)
  <2> DEFINE q == Cleared(p)
  <2>1. q \in Spawner /\ Same(p, q)
    BY <1>3, ClearedRecord DEF Same
  <2> HIDE DEF q
  <2>2. [spawner EXCEPT ![s] = q] \in [Server -> Spawner]
    BY <1>3, <2>1
  <2>3. \A t \in Server : Same(spawner[t], [spawner EXCEPT ![s] = q][t])
    BY <1>1, <1>3, <2>1 DEF Same
  <2> QED BY <1>4, <2>2, <2>3 DEF Watched, q
<1>6. Advance(found, spawner) \/ Advance(passed, polled)
  BY DEF PollJob
<1>7. fixed \in Check
  BY <1>1 DEF Check
<1> HIDE DEF polled, fixed
<1>8. found \in Check /\ Aimed(found)
  BY <1>1, <1>3, <1>7, ToPrimaryType
<1> HIDE DEF found
<1>9. passed \in Check /\ Aimed(passed)
  BY <1>1 DEF Check, Aimed
<1> HIDE DEF passed
<1>10. check' \in Check /\ check'.at # "visit" /\ Aimed(check') /\ Watched(spawner')
  BY <1>4, <1>5, <1>6, <1>8, <1>9, AdvanceType
<1> QED BY <1>1, <1>2, <1>10, CheckStepKeeps

\* The primary route is repaired.
LEMMA CheckAddsPrimaryInv == ASSUME Inv, CheckAddsPrimary PROVE Inv'
<1> DEFINE s == check.server
           target == IF check.mode = "fixed" THEN check.target ELSE spawner[s].host
           after == With(routes, check.key, check.target)
           c == [check EXCEPT !.routes = after, !.target = target]
<1>1. /\ check \in Check /\ s \in Server /\ check.key \in Spec_ /\ check.target \in Target
      /\ routes \in Table /\ CheckRequest(after, ToAlias(c, s), Fallback)
  BY DEF CheckAddsPrimary, Inv, Typed, Aimed
<1>2. after \in Table
  BY <1>1, WithTable
<1>3. target \in Target \cup {None}
  BY <1>1, Standing DEF Spawner
<1> HIDE DEF after, target
<1>4. c \in Check
  BY <1>1, <1>2, <1>3 DEF Check
<1> HIDE DEF c
<1>5. ToAlias(c, s) \in Check /\ Aimed(ToAlias(c, s))
  BY <1>1, <1>4, ToAliasType
<1> QED BY <1>1, <1>2, <1>5, CheckRequestInv

\* The alias is repaired.
LEMMA CheckAddsAliasInv == ASSUME Inv, CheckAddsAlias PROVE Inv'
<1> DEFINE after == With(routes, Alias(check.server), check.target)
           c == [check EXCEPT !.routes = after, !.at = "visit", !.server = None,
                              !.target = None, !.mode = "none"]
<1>1. /\ check \in Check /\ check.server \in Server /\ check.target \in Target
      /\ routes \in Table /\ CheckRequest(after, c, Fallback)
  BY DEF CheckAddsAlias, Inv, Typed, Aimed
<1>2. Alias(check.server) \in Spec_
  BY <1>1, Constants DEF Alias, Spec_
<1>3. after \in Table
  BY <1>1, <1>2, WithTable
<1> HIDE DEF after
<1>4. c \in Check /\ Aimed(c)
  BY <1>1, <1>3 DEF Check, Aimed
<1> HIDE DEF c
<1> QED BY <1>1, <1>3, <1>4, CheckRequestInv

\* A list of requests is left, or the run is over.
LEMMA GatheredType ==
    ASSUME NEW c \in Check, Aimed(c) PROVE Gathered(c) \in Check /\ Aimed(Gathered(c))
BY FallbackType DEF Gathered

\* JupyterHub's own check.
LEMMA DefaultCheckInv == ASSUME Inv, DefaultCheck PROVE Inv'
<1> DEFINE ready == {s \in known : spawner[s].at = "ready"}
           needed == {Primary(s, spawner[s]) : s \in {x \in known : Active(spawner[x])}}
           adds == {<<Primary(s, spawner[s]), spawner[s].host>> :
                      s \in {x \in ready : ~Forwards(routes, Primary(x, spawner[x]),
                                                     spawner[x].host)}}
           dels == DOMAIN routes \ needed
           c == [NoCheck EXCEPT !.at = "gatherdefault", !.adds = adds, !.dels = dels]
<1>1. CheckRequest(routes, Gathered(c), NoCheck)
  BY DEF DefaultCheck
<1>2. routes \in Table /\ DOMAIN routes \subseteq Spec_ /\ known \subseteq Server
  BY DEF Inv, Typed, Table
<1>3. ASSUME NEW s \in ready
      PROVE  Primary(s, spawner[s]) \in Spec_ /\ spawner[s].host \in Target
  <2>1. s \in Server /\ spawner[s].at = "ready"
    BY <1>2
  <2>2. spawner[s].spec \in 0..MaxJobs /\ spawner[s].host \in Target
    BY <2>1, Standing DEF Spawner, Fits
  <2> QED BY <2>1, <2>2, Keys
<1>4. adds \subseteq Spec_ \X Target /\ dels \subseteq Spec_
  BY <1>2, <1>3
<1> HIDE DEF adds, dels
<1>5. c \in Check /\ Aimed(c)
  BY <1>4, NoCheckType DEF Check, Aimed
<1> HIDE DEF c
<1>6. Gathered(c) \in Check /\ Aimed(Gathered(c))
  BY <1>5, GatheredType
<1> QED BY <1>1, <1>2, <1>6, CheckRequestInv

\* One of the requests sent together.
LEMMA GatherInv == ASSUME Inv, Gather PROVE Inv'
<1>1. check \in Check /\ Aimed(check) /\ routes \in Table
  BY DEF Inv, Typed
<1>2. ASSUME NEW add \in check.adds,
             CheckRequest(With(routes, add[1], add[2]),
                          Gathered([check EXCEPT !.adds = @ \ {add}]), NoCheck)
      PROVE  Inv'
  <2> DEFINE after == With(routes, add[1], add[2])
             c == [check EXCEPT !.adds = @ \ {add}]
  <2>1. add[1] \in Spec_ /\ add[2] \in Target
    BY <1>1 DEF Check
  <2>2. after \in Table
    BY <1>1, <2>1, WithTable
  <2>3. c \in Check /\ Aimed(c)
    BY <1>1 DEF Check, Aimed
  <2>4. CheckRequest(after, Gathered(c), NoCheck)
    BY <1>2
  <2> HIDE DEF after, c
  <2>5. Gathered(c) \in Check /\ Aimed(Gathered(c))
    BY <2>3, GatheredType
  <2> QED BY <2>2, <2>4, <2>5, CheckRequestInv
<1>3. ASSUME NEW key \in check.dels,
             CheckRequest(Without(routes, key),
                          Gathered([check EXCEPT !.dels = @ \ {key}]),
                          IF check.at = "gather" THEN Fallback ELSE NoCheck)
      PROVE  Inv'
  <2> DEFINE after == Without(routes, key)
             c == [check EXCEPT !.dels = @ \ {key}]
             failed == IF check.at = "gather" THEN Fallback ELSE NoCheck
  <2>1. after \in Table
    BY <1>1, WithoutTable
  <2>2. c \in Check /\ Aimed(c)
    BY <1>1 DEF Check, Aimed
  <2>3. CheckRequest(after, Gathered(c), failed) /\ failed \in {NoCheck, Fallback}
    BY <1>3
  <2> HIDE DEF after, c, failed
  <2>4. Gathered(c) \in Check /\ Aimed(Gathered(c))
    BY <2>2, GatheredType
  <2> QED BY <2>1, <2>3, <2>4, CheckRequestInv
<1> QED BY <1>2, <1>3 DEF Gather

-----------------------------------------------------------------------------
\* The invariant holds at first.
LEMMA InitInv == Init => Inv
<1> SUFFICES ASSUME Init PROVE Inv
  OBVIOUS
<1> USE DEF Init
<1>1. \A s \in Server : /\ spawner[s] = NoServer /\ NoServer.at = "idle"
                        /\ NoServer.app = "lab" /\ NoServer.host = None
  BY DEF NoServer
<1>2. spawner \in [Server -> Spawner]
  <2>1. ASSUME NEW s \in Server PROVE NoServer \in Spawner
    BY NoServerFits
  <2> QED BY <2>1
<1>3. jobs \in Seq(SlurmJob) /\ Len(jobs) <= MaxJobs
  BY EmptySeq, Constants
<1>4. Typed
  BY <1>2, <1>3, Constants, Empty, FallbackType, NoStopperType DEF Typed
<1>5. Servers /\ Solo
  BY <1>1 DEF Servers, Solo, Fits, Beyond
<1>6. Stopped
  BY NoStopperType DEF Stopped
<1> QED BY <1>4, <1>5, <1>6 DEF Inv

\* It holds on when nothing happens.
LEMMA StutterInv == ASSUME Inv, UNCHANGED vars PROVE Inv'
<1>1. UNCHANGED <<names, spawner, known, jobs, routes, check, stopper, bounds, restored>>
  BY DEF vars, bounds
<1>2. Evolves(jobs')
  BY <1>1, JobsStay DEF Inv, Evolves
<1> QED BY <1>1, <1>2, JobsMove

\* Every step keeps the invariant.
LEMMA NextInv == ASSUME Inv, [Next]_vars PROVE Inv'
<1>1. ASSUME NEW s \in Server,
             StartServer(s) \/ StartStep(s) \/ StopServer(s) \/ StopStep(s) \/ TakeOver(s)
      PROVE  Inv'
  BY <1>1, StartServerInv, BeginInv, PrepareOpenwebuiInv, SubmitInv, RouteInAdvanceInv,
     WaitTcpInv, WaitJobInv, RegisterRoutesInv, SyncRoutesInv, WaitUpInv, StopServerInv,
     DiedInv, DeleteUserInv, HaltInv, TakeOverInv DEF StartStep, StopStep
<1>2. CASE BeginStopJobs \/ StopJobsStep
  BY <1>2, BeginStopJobsInv, FindJobsInv, CancelJobsInv, StopJobServerInv DEF StopJobsStep
<1>3. ASSUME NEW j \in 1..Len(jobs), JobBegins(j) \/ JobEnds(j) PROVE Inv'
  BY <1>3, JobBeginsInv, JobEndsInv
<1>4. CASE CheckStep
  BY <1>4, CheckBeginsInv, PollJobInv, CheckAddsPrimaryInv, CheckAddsAliasInv,
     DefaultCheckInv, GatherInv DEF CheckStep
<1>5. CASE RestartHub \/ RestartProxy
  BY <1>5, RestartHubInv, RestartProxyInv
<1>6. CASE UNCHANGED vars
  BY <1>6, StutterInv
<1> QED BY <1>1, <1>2, <1>3, <1>4, <1>5, <1>6 DEF Next

\* The invariant holds in every behaviour.
THEOREM Invariance == Spec => []Inv
BY InitInv, NextInv, PTL DEF Spec

\* Every server, job, route, run of check_routes and counter has its type, and the port
\* of an Open WebUI that is started is the one its name decides (slurm_spawner.py).
THEOREM TypeCorrect == Spec => []TypeOK
<1>1. Inv => TypeOK
  <2> SUFFICES ASSUME Inv PROVE TypeOK
    OBVIOUS
  <2>1. /\ check \in Check /\ stopper \in Stopper /\ check.at # "visit"
        /\ names \in [Server -> [user : User, port : Port]]
        /\ known \subseteq Server /\ restored \subseteq Server
        /\ Len(jobs) <= MaxJobs /\ calls \in 0..MaxCalls /\ faults \in 0..MaxFaults
    BY DEF Inv, Typed
  <2>2. DOMAIN routes \subseteq Spec_ /\ \A k \in DOMAIN routes : routes[k] \in Target
    BY DEF Inv, Typed, Table
  <2>3. jobs \in Seq([server : Server, app : App, state : {"queued", "running", "ended"}])
    BY DEF Inv, Typed, SlurmJob
  <2>4. spawner \in [Server -> [at : Place, app : App, job : 0..MaxJobs, spec : 0..MaxJobs,
                                alias : BOOLEAN, port : Target \cup {None},
                                host : Target \cup {None}, second : BOOLEAN,
                                halted : BOOLEAN]]
    BY DEF Inv, Typed, Spawner
  <2>5. \A s \in Server : spawner[s].app = "openwebui"
                            => spawner[s].port = <<"port", names[s].port>>
    BY Standing DEF Fits
  <2>6. /\ check.at \in {"idle", "poll", "add", "addalias", "gather", "default", "gatherdefault"}
        /\ check.todo \subseteq Server /\ check.good \cup check.dels \subseteq Spec_
        /\ check.server \in Server \cup {None} /\ check.key \in Spec_ \cup {None}
        /\ check.target \in Target \cup {None}
        /\ check.mode \in {"none", "missing", "wrong", "fixed"} /\ check.changed \in BOOLEAN
        /\ check.adds \subseteq Spec_ \X Target
    BY <2>1 DEF Check
  <2>7. /\ stopper.at \in {"idle", "stop", "squeue", "scancel", "ok", "error"}
        /\ stopper.todo \subseteq Server /\ stopper.ids \cup stopper.before \subseteq Job
    BY <2>1 DEF Stopper
  <2> QED BY <2>1, <2>2, <2>3, <2>4, <2>5, <2>6, <2>7 DEF TypeOK
<1> QED BY <1>1, Invariance, PTL

\* A user has one Open WebUI at a time, servers taken over after a restart left out:
\* the answer read before the wait for the key lock is still good after it
\* (slurm_spawner.py:441-457).
THEOREM OneAtATime == Spec => []OneOpenWebui
<1>1. Inv => OneOpenWebui
  BY DEF Inv, Solo, Beyond, OneOpenWebui, User_
<1> QED BY <1>1, Invariance, PTL

\* When StopUserOpenWebuiJobs reports no error, every Open WebUI job the user had at its
\* beginning has ended (job_management_usecase.py:207-242).
THEOREM StopEndsJobs == Spec => []StoppedAreEnded
<1>1. Inv => StoppedAreEnded
  BY DEF Inv, Stopped, StoppedAreEnded
<1> QED BY <1>1, Invariance, PTL

==============================================================================
