-------------------------- MODULE ApiPublications --------------------------
(***************************************************************************)
(* The HTTP APIs one user name publishes: the registration kept for each,  *)
(* the Cloudflare Access application in front of it, and the use cases     *)
(* that bring the two together.                                            *)
(*                                                                         *)
(* The use cases hold the user's publication lock while they work on local *)
(* copies of the registrations; the deletion of a user's records does not. *)
(* The credentials, which have a lock of their own, appear here as what a  *)
(* publication sees of them.                                               *)
(*                                                                         *)
(* A definition whose name begins with M_ is never used: it is the next    *)
(* definition with a plausible error, which the properties must notice.    *)
(***************************************************************************)
EXTENDS Naturals, Sequences, FiniteSets

CONSTANTS
    Request,     \* coroutines serving user and administrator requests
    Sync,        \* the coroutine of the periodic synchronisation
    Owner,       \* identities (Linux UID, Hub user ID) the name can stand for
    Api,         \* names of APIs
    AppId,       \* IDs of Access applications
    Token,       \* IDs of Service Tokens
    NoAccount, NoRecord, NoApp, NoToken, NoApi,
    MaxApps,     \* registrations a user may have
    MaxLost,     \* bound on answers lost after the call had its effect
    MaxCrashes   \* bound on the restarts of the portal

Proc == Request \cup {Sync}

\* What a publication sees of the credentials.  "busy": enabled and not ready,
\* "denied": the revocation is under way.
Credential ==
    [owner : Owner, is : {"busy", "ready", "denied", "disabled"},
     token : Token \cup {NoToken}]

PublicationState ==
    {"checking", "configuring", "published", "unpublished", "disabled",
     "disconnected", "error"}

Publication ==
    [owner   : Owner,
     state   : PublicationState,
     desired : {"published", "unpublished", "deleted"},
     clean   : BOOLEAN,                 \* remote_clean
     app     : AppId \cup {NoApp}]      \* cf_app_id

\* An Access application, by ID and managed name, and whom it admits.
AccessApp == [id : AppId, name : Api, owner : Owner, token : Token]

ASSUME ConstantsAssumption ==
    /\ Sync \notin Request
    /\ NoAccount \notin Owner
    /\ NoRecord \notin Credential \cup Publication
    /\ NoApp \notin AppId
    /\ NoToken \notin Token
    /\ NoApi \notin Api
    /\ MaxApps \in Nat /\ MaxLost \in Nat /\ MaxCrashes \in Nat

\* "remove" deletes one API; "leave" is the deletion of the account.
Job == {"register", "publish", "unpublish", "remove", "disable", "leave"}

\* At an await: of the listeners in a thread, of Cloudflare, or of the API.
Awaiting == {"choose", "check", "app", "validate", "remote",
             "f_validate", "f_restart", "f_health"}

\* Anywhere else.  "stop", "drop" and "next" have the event loop.
Elsewhere == {"idle", "deny", "wait", "stop", "drop", "next", "rows",
              "revoke", "userdel", "gone"}

VARIABLES
    account,   \* identity the name has now, or NoAccount
    cred,      \* the stored credentials, or NoRecord
    pub,       \* the stored registration of each API, or NoRecord
    recent,    \* APIs configured at Cloudflare less than 300 seconds ago
    apps,      \* Access applications that exist at Cloudflare
    lock,      \* the publication lock: its holder and, behind it, its waiters
    running,   \* the coroutine that has not given up the event loop, if any
    job,       \* what each coroutine was asked for
    pc,        \* where each coroutine stands
    api,       \* the API it works on
    mine,      \* its local copies of registrations
    grant,     \* the credentials it read
    todo,      \* the APIs it has still to work on
    lost,      \* answers lost so far
    crashes    \* restarts so far

control == <<lock, running, job, pc, api, mine, grant, todo>>

vars == <<account, cred, pub, recent, apps, control, lost, crashes>>

TypeOK ==
    /\ account \in Owner \cup {NoAccount}
    /\ cred \in Credential \cup {NoRecord}
    /\ pub \in [Api -> Publication \cup {NoRecord}]
    /\ recent \in [Api -> BOOLEAN]
    /\ apps \subseteq AccessApp
    /\ lock \in Seq(Proc)
    /\ running \in SUBSET Proc
    /\ job \in [Proc -> Job \cup {"sync", "none"}]
    /\ pc \in [Proc -> Awaiting \cup Elsewhere]
    /\ api \in [Proc -> Api \cup {NoApi}]
    /\ mine \in [Proc -> [Api -> Publication \cup {NoRecord}]]
    /\ grant \in [Proc -> Credential \cup {NoRecord}]
    /\ todo \in [Proc -> SUBSET Api]
    /\ lost \in 0 .. MaxLost
    /\ crashes \in 0 .. MaxCrashes
-----------------------------------------------------------------------------
(***************************************************************************)
(* Registrations, credentials and applications.                            *)
(***************************************************************************)

Registered == {a \in Api : pub[a] # NoRecord}

\* queries.get_publication: the registration is there and is the caller's.
Mine(a) == pub[a] # NoRecord /\ account # NoAccount /\ pub[a].owner = account

\* Mutant: whether the credentials are ready is not asked.
M_Granted == cred # NoRecord /\ cred.owner = account

\* The caller's credentials are ready.
Granted == cred # NoRecord /\ cred.owner = account /\ cred.is = "ready"

\* ApiPublication.stop
Stopped(r, desired) == [r EXCEPT !.state = "unpublished", !.desired = desired]

\* Mutant: no ID on record is taken for no application.
M_Clean(r) == r.app = NoApp

\* Nothing is left of the API at Cloudflare, as far as the record knows.
Clean(r) == r.clean /\ r.app = NoApp

NeedsConfiguration(r) == r.state \in {"checking", "configuring", "error", "disabled"}

Named(a) == {x \in apps : x.name = a}
Known(r) == {x \in apps : x.id = r.app}

\* IDs are never used twice; which unused one is drawn makes no difference.
NewAppIds ==
    LET used(i) ==
            \/ \E x \in apps : x.id = i
            \/ \E t \in Proc, a \in Api : \E r \in {pub[a], mine[t][a]} \ {NoRecord} : r.app = i
        unused == {i \in AppId : ~used(i)} IN
    {i \in unused : i = CHOOSE j \in unused : TRUE}

-----------------------------------------------------------------------------
(***************************************************************************)
(* Coroutines and the publication lock.                                    *)
(***************************************************************************)

\* t may take its next step: nobody else is between two awaits.
Turn(t) == running \subseteq {t}

Held(t) == lock # <<>> /\ Head(lock) = t

\* Mutant: the lock is not waited for.
M_Enter(t, J) == pc[t] = "wait" /\ job[t] \in J

\* t reaches the head of the lock's queue, with a job in J.
Enter(t, J) == pc[t] = "wait" /\ Held(t) /\ job[t] \in J

\* The deletion of the user's records, which has the credential lock only.
Deleting(t) == job[t] = "leave" /\ ~Held(t) /\ pc[t] \in {"next", "remote", "drop"}

CredentialsFree == \A t \in Proc : ~Deleting(t)

\* t goes on at p with the local copy r of the API it works on.
Goto(t, p, r) ==
    /\ pc' = [pc EXCEPT ![t] = p]
    /\ mine' = [mine EXCEPT ![t] = [@ EXCEPT ![api[t]] = r]]
    /\ running' = IF p \in Awaiting THEN {} ELSE {t}
    /\ UNCHANGED <<lock, job, api>>

\* t, behind whom the lock's queue is q, goes on at p with job j.
Outward(t, j, p, q) ==
    /\ lock' = IF p = "wait" THEN Append(q, t) ELSE q
    /\ running' = IF lock' = <<t>> THEN {t} ELSE {}
    /\ pc' = [pc EXCEPT ![t] = p]
    /\ job' = [job EXCEPT ![t] = IF p = "idle" THEN "none" ELSE j]

\* The unpublishing of all APIs is followed by the revocation, a refresh by
\* the next one, and any other use case by nothing.
After(t) ==
    CASE job[t] = "sync" -> "rows"
      [] job[t] \in {"disable", "leave"} /\ Held(t) -> "revoke"
      [] OTHER -> "idle"

\* t's use case is over, and with it the hold on the lock; j is left to do.
Leave(t, j) ==
    /\ Outward(t, j, After(t), IF Held(t) THEN Tail(lock) ELSE lock)
    /\ api' = [api EXCEPT ![t] = NoApi]
    /\ mine' = [mine EXCEPT ![t] = [a \in Api |-> NoRecord]]
    /\ grant' = [grant EXCEPT ![t] = NoRecord]
    /\ todo' = [todo EXCEPT ![t] = IF job[t] = "sync" THEN @ ELSE {}]

Return(t) == Leave(t, job[t])

\* An exception; the deletion of an account goes no further than a Disable.
Fail(t) == Leave(t, IF job[t] = "leave" THEN "disable" ELSE job[t])

\* An answer is lost after the call had its effect.
Lose == lost < MaxLost /\ lost' = lost + 1

Put(a, r) == pub' = [pub EXCEPT ![a] = r]

\* save_publication: the stored registration gets the states of r and keeps the
\* rest.  One that is gone, or of another owner, is refused.
Savable(a, r) == pub[a] # NoRecord /\ pub[a].owner = r.owner

SavePublication(a, r) == Put(a, [pub[a] EXCEPT !.state = r.state, !.desired = r.desired])

\* A handler is called for an existing account.
Submit(t, j, a) ==
    /\ pc[t] = "idle"
    /\ account # NoAccount
    /\ (a = NoApi) <=> (j \in {"disable", "leave"})
    /\ Outward(t, j, IF a = NoApi THEN "deny" ELSE "wait", lock)
    /\ api' = [api EXCEPT ![t] = a]
    /\ UNCHANGED <<account, cred, pub, recent, apps, mine, grant, todo, lost, crashes>>

-----------------------------------------------------------------------------
(***************************************************************************)
(* ConfigureApiPublicationUseCase                                          *)
(***************************************************************************)

\* Mutant: the record still says that nothing is left at Cloudflare.
M_StillClean(r) == [r EXCEPT !.state = "checking", !.desired = "published"]

\* begin_publication
Begun(r) == [r EXCEPT !.state = "checking", !.desired = "published", !.clean = FALSE]

Begin(t, r) == Put(api[t], Begun(r)) /\ Goto(t, "check", Begun(r))

\* The state in which the configuration failed is saved, whatever is stored.
Broken(t, r) == Put(api[t], [r EXCEPT !.state = "error"]) /\ Fail(t)

\* The port is guarded and the API answers, or not.
ConfigureChecked(t, ok) ==
    /\ pc[t] = "check"
    /\ LET a == api[t]
           r == [mine[t][a] EXCEPT !.state = "configuring"] IN
       \/ /\ ok /\ Savable(a, r) /\ SavePublication(a, r)
          /\ Goto(t, "app", r)
          /\ UNCHANGED <<grant, todo>>
       \/ /\ ~ok \/ ~Savable(a, r)
          /\ Broken(t, mine[t][a])
    /\ UNCHANGED <<account, cred, recent, apps, lost, crashes>>

\* The application on record or, when none is, that of the API's name.
Existing(r, a) == IF r.app = NoApp THEN Named(a) ELSE Known(r)

\* CloudflareAccessClient.app: the existing application is changed to admit the
\* Service Token, or a new one is created where there is none.
Configured(t) ==
    LET old == Existing(mine[t][api[t]], api[t]) IN
    IF Cardinality(old) > 1 THEN {}
    ELSE {[id |-> i, name |-> api[t], owner |-> grant[t].owner, token |-> grant[t].token] :
             i \in IF old = {} THEN NewAppIds ELSE {x.id : x \in old}}

ConfigureApp(t, told) ==
    /\ pc[t] = "app"
    /\ \E x \in Configured(t) :
       LET r == mine[t][api[t]] IN
       /\ apps' = {y \in apps : y.id # x.id} \cup {x}
       /\ \/ /\ told
             /\ Goto(t, "validate", [r EXCEPT !.app = x.id])
             /\ UNCHANGED <<pub, grant, todo, lost>>
          \/ ~told /\ Lose /\ Broken(t, r)
    /\ UNCHANGED <<account, cred, recent, crashes>>

\* The listening process is still the registered one, or not.
ConfigureDone(t, ok) ==
    /\ pc[t] = "validate"
    /\ Put(api[t], [mine[t][api[t]] EXCEPT !.state = IF ok THEN "published" ELSE "error"])
    /\ recent' = [recent EXCEPT ![api[t]] = TRUE]
    /\ IF ok THEN Return(t) ELSE Fail(t)
    /\ UNCHANGED <<account, cred, apps, lost, crashes>>

-----------------------------------------------------------------------------
(***************************************************************************)
(* RegisterApiUseCase and ChangeApiPublicationUseCase.                     *)
(***************************************************************************)

Room == Cardinality({b \in Api : Mine(b)}) < MaxApps

RegisterEnter(t) ==
    /\ Enter(t, {"register"})
    /\ LET a == api[t]
           allowed == /\ account # NoAccount /\ Granted
                      /\ Mine(a) \/ (pub[a] = NoRecord /\ Room) IN
       \/ /\ allowed
          /\ Goto(t, "choose", pub[a])
          /\ grant' = [grant EXCEPT ![t] = cred]
          /\ UNCHANGED todo
       \/ ~allowed /\ Fail(t)
    /\ UNCHANGED <<account, cred, pub, recent, apps, lost, crashes>>

\* The candidate is found among the listening processes, or not.  A new record
\* takes the application of the old one along.
RegisterChosen(t, ok) ==
    /\ pc[t] = "choose"
    /\ LET old == mine[t][api[t]]
           r == [owner |-> grant[t].owner, state |-> "checking",
                 desired |-> "published", clean |-> FALSE,
                 app |-> IF old = NoRecord THEN NoApp ELSE old.app] IN
       \/ /\ ok
          /\ Begin(t, r)
          /\ recent' = [recent EXCEPT ![api[t]] = FALSE]
          /\ UNCHANGED <<grant, todo>>
       \/ ~ok /\ Fail(t) /\ UNCHANGED <<pub, recent>>
    /\ UNCHANGED <<account, cred, apps, lost, crashes>>

PublishEnter(t) ==
    /\ Enter(t, {"publish"})
    /\ \/ /\ Mine(api[t]) /\ Granted
          /\ Begin(t, pub[api[t]])
          /\ grant' = [grant EXCEPT ![t] = cred]
          /\ UNCHANGED todo
       \/ /\ ~(Mine(api[t]) /\ Granted)
          /\ Fail(t)
          /\ UNCHANGED pub
    /\ UNCHANGED <<account, cred, recent, apps, lost, crashes>>

\* What follows when nothing is left at Cloudflare.
AfterRemoval(t) ==
    IF Held(t) /\ job[t] \in {"disable", "leave"} THEN "stop"
    ELSE IF \/ job[t] \in {"remove", "leave"}
            \/ job[t] = "sync" /\ mine[t][api[t]].desired = "deleted"
         THEN "drop" ELSE "over"

\* RemoveRemoteApiPublicationUseCase, up to its first await, with record r.
Removal(t, r) ==
    \/ ~Clean(r) /\ Goto(t, "remote", r) /\ UNCHANGED <<grant, todo>>
    \/ /\ Clean(r)
       /\ IF job[t] = "remove" \/ (job[t] = "sync" /\ r.desired = "deleted")
          THEN Goto(t, "drop", r) /\ UNCHANGED <<grant, todo>>
          ELSE Return(t)

\* The portal refuses calls before anything is removed at Cloudflare.
StopEnter(t) ==
    /\ Enter(t, {"unpublish", "remove"})
    /\ LET a == api[t]
           r == Stopped(pub[a], IF job[t] = "remove" THEN "deleted" ELSE "unpublished") IN
       \/ Mine(a) /\ Put(a, r) /\ Removal(t, r)
       \/ ~Mine(a) /\ Fail(t) /\ UNCHANGED pub
    /\ UNCHANGED <<account, cred, recent, apps, lost, crashes>>

\* CloudflareAccessClient.remove_app: the application on record or, when it is
\* not there, the one of the API's name.
Doomed(t) ==
    LET r == mine[t][api[t]] IN IF Known(r) # {} THEN Known(r) ELSE Named(api[t])

\* The record forgets the application when its removal is confirmed.
RemoveRemote(t, told) ==
    /\ pc[t] = "remote"
    /\ LET a == api[t]
           r == [mine[t][a] EXCEPT !.app = NoApp, !.clean = TRUE]
           p == AfterRemoval(t) IN
       /\ Cardinality(Doomed(t)) <= 1
       /\ apps' = apps \ Doomed(t)
       /\ \/ /\ told
             /\ Put(a, r)
             /\ \/ p # "over" /\ Goto(t, p, r) /\ UNCHANGED <<grant, todo>>
                \/ p = "over" /\ Return(t)
             /\ UNCHANGED lost
          \/ ~told /\ Lose /\ Fail(t) /\ UNCHANGED pub
    /\ UNCHANGED <<account, cred, recent, crashes>>

\* A call to Cloudflare fails without effect.
CloudflareFails(t) ==
    /\ \/ pc[t] = "app" /\ Broken(t, mine[t][api[t]])
       \/ pc[t] = "remote" /\ Fail(t) /\ UNCHANGED pub
    /\ UNCHANGED <<account, cred, recent, apps, lost, crashes>>

\* The registration itself is deleted.
Drop(t) ==
    /\ pc[t] = "drop"
    /\ Put(api[t], NoRecord)
    /\ IF Deleting(t)
       THEN Goto(t, "next", NoRecord) /\ UNCHANGED <<grant, todo>>
       ELSE Return(t)
    /\ UNCHANGED <<account, cred, recent, apps, lost, crashes>>

-----------------------------------------------------------------------------
(***************************************************************************)
(* RefreshApiPublicationUseCase and its loop in SynchronizeUserApis.       *)
(***************************************************************************)

SyncStart ==
    /\ pc[Sync] = "idle"
    /\ todo' = [todo EXCEPT ![Sync] = Registered]
    /\ Outward(Sync, "sync", "rows", lock)
    /\ UNCHANGED <<account, cred, pub, recent, apps, api, mine, grant, lost, crashes>>

\* First come the names without an account and the revocations left undone.
SyncSweep ==
    /\ pc[Sync] = "idle"
    /\ cred # NoRecord
    /\ account = NoAccount \/ cred.is = "denied"
    /\ Outward(Sync, "disable", "deny", lock)
    /\ UNCHANGED <<account, cred, pub, recent, apps, api, mine, grant, todo, lost, crashes>>

\* A registration that has gone since is skipped with a warning.
SyncNext ==
    /\ pc[Sync] = "rows"
    /\ \/ /\ todo[Sync] = {}
          /\ Outward(Sync, "sync", "idle", lock)
          /\ UNCHANGED <<api, mine, todo>>
       \/ \E a \in todo[Sync] :
          /\ todo' = [todo EXCEPT ![Sync] = @ \ {a}]
          /\ \/ pub[a] = NoRecord /\ UNCHANGED <<api, mine, lock, running, job, pc>>
             \/ /\ pub[a] # NoRecord
                /\ Outward(Sync, "sync", "wait", lock)
                /\ api' = [api EXCEPT ![Sync] = a]
                /\ mine' = [mine EXCEPT ![Sync] = [@ EXCEPT ![a] = pub[a]]]
    /\ UNCHANGED <<account, cred, pub, recent, apps, grant, lost, crashes>>

\* Mutant: the registration is the one read before the wait for the lock.
M_Current(t) == mine[t][api[t]]

\* Inside the lock the registration is read again.
Current(t) == pub[api[t]]

\* Mutant: the owners are not compared.
M_SameOwner(r) == TRUE

SameOwner(r) == cred.owner = r.owner

RefreshEnter(t) ==
    /\ Enter(t, {"sync"})
    /\ LET a == api[t]
           r == Current(t) IN
       \/ /\ r = NoRecord
          /\ Return(t)
          /\ UNCHANGED pub
       \/ /\ r # NoRecord /\ r.desired # "published"
          /\ Removal(t, r)
          /\ UNCHANGED pub
       \/ /\ r # NoRecord /\ r.desired = "published"
          /\ \/ /\ cred # NoRecord => cred.is # "ready"
                /\ Put(a, [r EXCEPT !.state = "disabled"])
                /\ Return(t)
             \/ /\ cred # NoRecord /\ cred.is = "ready" /\ ~SameOwner(r)
                /\ Put(a, Stopped(r, "deleted"))
                /\ Return(t)
             \/ /\ cred # NoRecord /\ cred.is = "ready" /\ SameOwner(r)
                /\ Goto(t, "f_validate", r)
                /\ grant' = [grant EXCEPT ![t] = cred]
                /\ UNCHANGED <<pub, todo>>
    /\ UNCHANGED <<account, cred, recent, apps, lost, crashes>>

\* Mutant: what is published is never configured again.
M_Due(t, r) == NeedsConfiguration(r)

\* The application is configured, again after 300 seconds.
Due(t, r) == NeedsConfiguration(r) \/ ~recent[api[t]]

\* The registered process still listens, or cannot be confirmed to.
RefreshValidated(t, ok) ==
    /\ pc[t] = "f_validate"
    /\ LET r == mine[t][api[t]] IN
       \/ /\ ~ok
          /\ Goto(t, "f_restart", r)
          /\ UNCHANGED pub
       \/ /\ ok /\ Due(t, r)
          /\ Begin(t, r)
       \/ /\ ok /\ ~Due(t, r)
          /\ Goto(t, "f_health", r)
          /\ UNCHANGED pub
    /\ UNCHANGED <<account, cred, recent, apps, grant, todo, lost, crashes>>

\* The owner has started the same API anew, or it is gone.
RefreshRestarted(t, found) ==
    /\ pc[t] = "f_restart"
    /\ LET r == mine[t][api[t]] IN
       \/ found /\ Begin(t, r) /\ UNCHANGED <<grant, todo>>
       \/ ~found /\ Put(api[t], [r EXCEPT !.state = "disconnected"]) /\ Return(t)
    /\ UNCHANGED <<account, cred, recent, apps, lost, crashes>>

RefreshHealth(t, ok) ==
    /\ pc[t] = "f_health"
    /\ Put(api[t], [mine[t][api[t]] EXCEPT
                        !.state = IF ok THEN "published" ELSE "disconnected"])
    /\ Return(t)
    /\ UNCHANGED <<account, cred, recent, apps, lost, crashes>>

-----------------------------------------------------------------------------
(***************************************************************************)
(* DisableUserApis with UnpublishUserApis, and the deletion of an account. *)
(***************************************************************************)

\* The credentials are denied, under their own lock.
DisableDeny(t) ==
    /\ pc[t] = "deny"
    /\ CredentialsFree
    /\ \/ /\ cred # NoRecord
          /\ cred' = [cred EXCEPT !.is = "denied"]
          /\ Outward(t, job[t], "wait", lock)
       \/ /\ cred = NoRecord /\ account # NoAccount
          /\ cred' = [owner |-> account, is |-> "denied", token |-> NoToken]
          /\ Outward(t, job[t], "wait", lock)
       \/ /\ cred = NoRecord /\ account = NoAccount
          /\ Outward(t, job[t], "idle", lock)
          /\ UNCHANGED cred
    /\ UNCHANGED <<account, pub, recent, apps, api, mine, grant, todo, lost, crashes>>

\* All registrations are read before the first is changed.
UnpublishEnter(t) ==
    /\ Enter(t, {"disable", "leave"})
    /\ mine' = [mine EXCEPT ![t] = pub]
    /\ todo' = [todo EXCEPT ![t] = Registered]
    /\ pc' = [pc EXCEPT ![t] = "stop"]
    /\ running' = {t}
    /\ UNCHANGED <<account, cred, pub, recent, apps, lock, job, api, grant, lost, crashes>>

Running(t) ==
    {a \in todo[t] : mine[t][a] # Stopped(mine[t][a], "unpublished")}

\* Those that calls may still reach.
Unstopped(t) == Running(t)

\* Every one of them is stopped before the first is removed.
Unpublish(t) ==
    /\ pc[t] = "stop"
    /\ LET dirty == {a \in todo[t] : ~Clean(mine[t][a])} IN
       \/ \E a \in Unstopped(t) :
          LET r == Stopped(mine[t][a], "unpublished") IN
          /\ Put(a, r)
          /\ mine' = [mine EXCEPT ![t] = [@ EXCEPT ![a] = r]]
          /\ UNCHANGED <<lock, running, job, pc, api, grant, todo>>
       \/ /\ Unstopped(t) = {} /\ dirty = {}
          /\ Return(t)
          /\ UNCHANGED pub
       \/ /\ Unstopped(t) = {}
          /\ \E a \in dirty : api' = [api EXCEPT ![t] = a]
          /\ pc' = [pc EXCEPT ![t] = "remote"]
          /\ running' = {}
          /\ UNCHANGED <<pub, lock, job, mine, grant, todo>>
    /\ UNCHANGED <<account, cred, recent, apps, lost, crashes>>

\* RevokeApiCredentials, whether or not everything was unpublished: "denied"
\* is saved first, "disabled" when the tokens are gone.
Revoke(t, ok) ==
    /\ pc[t] = "revoke"
    /\ CredentialsFree
    /\ \/ /\ cred # NoRecord /\ cred.is # "denied"
          /\ cred' = [cred EXCEPT !.is = "denied"]
          /\ UNCHANGED <<lock, running, job, pc>>
       \/ /\ cred # NoRecord /\ cred.is = "denied"
          /\ cred' = IF ok THEN [cred EXCEPT !.is = "disabled", !.token = NoToken] ELSE cred
          /\ Outward(t, job[t], IF ok /\ job[t] = "leave" THEN "userdel" ELSE "idle", lock)
       \/ /\ cred = NoRecord
          /\ Outward(t, job[t], IF job[t] = "leave" THEN "userdel" ELSE "idle", lock)
          /\ UNCHANGED cred
    /\ UNCHANGED <<account, pub, recent, apps, api, mine, grant, todo, lost, crashes>>

\* userdel, in a worker thread.
DeleteLinuxUser(t) ==
    /\ pc[t] = "userdel"
    /\ account # NoAccount
    /\ account' = NoAccount
    /\ pc' = [pc EXCEPT ![t] = "gone"]
    /\ UNCHANGED <<cred, pub, recent, apps, lock, running, job, api, mine, grant,
                   todo, lost, crashes>>

\* DeleteUserApiRecords: the credentials must be revoked completely.
DeleteEnter(t) ==
    /\ \/ pc[t] = "userdel"
       \/ pc[t] = "gone" /\ CredentialsFree
    /\ \/ /\ pc[t] = "gone" /\ (cred # NoRecord => cred.is = "disabled")
          /\ Outward(t, job[t], "next", lock)
          /\ todo' = [todo EXCEPT ![t] = Registered]
       \/ /\ pc[t] = "userdel" \/ (cred # NoRecord /\ cred.is # "disabled")
          /\ Outward(t, job[t], "idle", lock)
          /\ UNCHANGED todo
    /\ UNCHANGED <<account, cred, pub, recent, apps, api, mine, grant, lost, crashes>>

\* One registration after the other is read, removed and deleted, without the
\* publication lock; one that has gone since ends it.
DeleteNext(t) ==
    /\ pc[t] = "next"
    /\ \/ /\ todo[t] = {}
          /\ cred' = NoRecord
          /\ Return(t)
       \/ \E a \in todo[t] :
          /\ pub[a] # NoRecord
          /\ api' = [api EXCEPT ![t] = a]
          /\ mine' = [mine EXCEPT ![t] = [@ EXCEPT ![a] = pub[a]]]
          /\ todo' = [todo EXCEPT ![t] = @ \ {a}]
          /\ pc' = [pc EXCEPT ![t] = IF Clean(pub[a]) THEN "drop" ELSE "remote"]
          /\ running' = IF Clean(pub[a]) THEN {t} ELSE {}
          /\ UNCHANGED <<cred, lock, job, grant>>
       \/ /\ \E a \in todo[t] : pub[a] = NoRecord
          /\ Fail(t)
          /\ UNCHANGED cred
    /\ UNCHANGED <<account, pub, recent, apps, lost, crashes>>

-----------------------------------------------------------------------------
(***************************************************************************)
(* What happens around the publications.                                   *)
(***************************************************************************)

\* The use cases of the credentials: a record is made for the present owner of
\* the name, for the first time, in place of a former owner's, or by Enable.
CredentialsPrepared ==
    /\ account # NoAccount
    /\ cred # NoRecord => cred.owner # account \/ cred.is = "disabled"
    /\ cred' = [owner |-> account, is |-> "busy", token |-> NoToken]

\* An issue or a rotation is complete, with the old Service Token or a new one.
CredentialsIssued ==
    /\ cred # NoRecord /\ cred.is = "busy" /\ cred.owner = account
    /\ \E k \in Token : cred' = [cred EXCEPT !.is = "ready", !.token = k]

\* A rotation or the owner's revocation of the Service Token begins.
CredentialsSuspended ==
    /\ cred # NoRecord /\ cred.is = "ready" /\ cred.owner = account
    /\ cred' = [cred EXCEPT !.is = "busy"]

Credentials ==
    /\ running = {} /\ CredentialsFree
    /\ CredentialsPrepared \/ CredentialsIssued \/ CredentialsSuspended
    /\ UNCHANGED <<account, pub, recent, apps, control, lost, crashes>>

\* The account is removed, or the name given to another, beside the portal.
AccountChanges ==
    /\ \E o \in Owner \cup {NoAccount} :
          /\ o # account
          /\ account = NoAccount \/ o = NoAccount
          /\ account' = o
    /\ UNCHANGED <<cred, pub, recent, apps, control, lost, crashes>>

\* 300 seconds go by.
Expire(a) ==
    /\ recent[a]
    /\ recent' = [recent EXCEPT ![a] = FALSE]
    /\ UNCHANGED <<account, cred, pub, apps, control, lost, crashes>>

\* The portal restarts: coroutines and locks are gone, stores stay.  A call to
\* Cloudflare that was on its way may still have its effect.
Crash ==
    /\ crashes < MaxCrashes
    /\ \/ UNCHANGED apps
       \/ \E t \in Proc :
          \/ /\ pc[t] = "app"
             /\ \E x \in Configured(t) : apps' = {y \in apps : y.id # x.id} \cup {x}
          \/ /\ pc[t] = "remote"
             /\ Cardinality(Doomed(t)) <= 1
             /\ apps' = apps \ Doomed(t)
    /\ crashes' = crashes + 1
    /\ lock' = <<>>
    /\ running' = {}
    /\ job' = [t \in Proc |-> "none"]
    /\ pc' = [t \in Proc |-> "idle"]
    /\ api' = [t \in Proc |-> NoApi]
    /\ mine' = [t \in Proc |-> [a \in Api |-> NoRecord]]
    /\ grant' = [t \in Proc |-> NoRecord]
    /\ todo' = [t \in Proc |-> {}]
    /\ UNCHANGED <<account, cred, pub, recent, lost>>

-----------------------------------------------------------------------------

Init ==
    /\ account \in Owner
    /\ cred = NoRecord
    /\ pub = [a \in Api |-> NoRecord]
    /\ recent = [a \in Api |-> FALSE]
    /\ apps = {}
    /\ lock = <<>>
    /\ running = {}
    /\ job = [t \in Proc |-> "none"]
    /\ pc = [t \in Proc |-> "idle"]
    /\ api = [t \in Proc |-> NoApi]
    /\ mine = [t \in Proc |-> [a \in Api |-> NoRecord]]
    /\ grant = [t \in Proc |-> NoRecord]
    /\ todo = [t \in Proc |-> {}]
    /\ lost = 0
    /\ crashes = 0

Configure(t) ==
    \E ok \in BOOLEAN :
        ConfigureChecked(t, ok) \/ ConfigureApp(t, ok) \/ ConfigureDone(t, ok)

Change(t) ==
    \/ RegisterEnter(t) \/ PublishEnter(t) \/ StopEnter(t) \/ Drop(t)
    \/ \E ok \in BOOLEAN : RegisterChosen(t, ok) \/ RemoveRemote(t, ok)

Refresh(t) ==
    \/ RefreshEnter(t)
    \/ \E ok \in BOOLEAN :
        RefreshValidated(t, ok) \/ RefreshRestarted(t, ok) \/ RefreshHealth(t, ok)

Disable(t) ==
    \/ DisableDeny(t) \/ UnpublishEnter(t) \/ Unpublish(t)
    \/ DeleteEnter(t) \/ DeleteNext(t)
    \/ \E ok \in BOOLEAN : Revoke(t, ok)

Coroutine(t) ==
    /\ Turn(t)
    /\ Configure(t) \/ Change(t) \/ Refresh(t) \/ Disable(t) \/ CloudflareFails(t)

Synchronise == Turn(Sync) /\ (SyncSweep \/ SyncStart \/ SyncNext)

Handle(t) ==
    /\ Turn(t)
    /\ \E j \in Job, a \in Api \cup {NoApi} : Submit(t, j, a)

Surroundings == Credentials \/ AccountChanges \/ \E a \in Api : Expire(a)

Next ==
    \/ \E t \in Request : Handle(t)
    \/ \E t \in Proc : Coroutine(t) \/ DeleteLinuxUser(t)
    \/ Synchronise
    \/ Surroundings
    \/ Crash

Spec == Init /\ [][Next]_vars
-----------------------------------------------------------------------------
(***************************************************************************)
(* What must never happen.                                                 *)
(***************************************************************************)

\* A record that says nothing is left at Cloudflare is right: later removals
\* skip the call because of it (RemoveRemoteApiPublicationUseCase).
CleanIsClean ==
    \A a \in Api : pub[a] # NoRecord /\ Clean(pub[a]) => Named(a) = {}

\* One managed name has one application, and this admits the Service Token of
\* the registration's owner and of nobody who has the user name after or before
\* (CloudflareAccessClient.app, RefreshApiPublicationUseCase).
AppAdmitsOwner ==
    \A a \in Api :
        /\ Cardinality(Named(a)) <= 1
        /\ pub[a] # NoRecord => \A x \in Named(a) : x.owner = pub[a].owner

\* The deletion of an account, from the revocation on.
Departing(t) ==
    job[t] = "leave" /\ (pc[t] \in {"revoke", "userdel", "gone"} \/ Deleting(t))

\* Nobody asks for a publication while an account is deleted.
Undisturbed == \A t, u \in Proc : Departing(t) => job[u] \notin {"register", "publish"}

\* The pass does not undo what a request did while the pass waited for the lock
\* or had its copy (RefreshApiPublicationUseCase, ConfigureApiPublicationUseCase):
\* what the user has stopped is wanted again only by a request to publish, and
\* for the moment in which a deletion of all records drops it; and what was
\* deleted comes back only when an API is registered anew.  This is promised for
\* requests one after the other, or Undisturbed: one that is under way beside
\* the deletion of the account does write its copy back.
StopStands ==
    [][\A a \in Api :
          /\ pub[a] # NoRecord /\ pub[a].desired # "published"
                /\ pub'[a] # NoRecord /\ pub'[a].desired = "published"
             => \E t \in Request :
                   /\ api[t] = a
                   /\ (Held(t) /\ job[t] \in {"register", "publish"}) \/ Deleting(t)
          /\ pub[a] = NoRecord /\ pub'[a] # NoRecord
             => \E t \in Request : pc[t] = "choose" /\ api[t] = a]_vars

-----------------------------------------------------------------------------
(***************************************************************************)
(* What must happen.  The event loop keeps no coroutine waiting for ever,  *)
(* and the pass is repeated for ever.                                      *)
(***************************************************************************)

Fairness ==
    /\ \A t \in Proc : SF_vars(Coroutine(t))
    /\ SF_vars(Synchronise)
    /\ SF_vars(Turn(Sync) /\ SyncStart)
    /\ \A a \in Api : WF_vars(Expire(a))

FairSpec == Spec /\ Fairness

Failure(t) ==
    \/ CloudflareFails(t)
    \/ RemoveRemote(t, FALSE) \/ ConfigureApp(t, FALSE)
    \/ ConfigureChecked(t, FALSE) \/ ConfigureDone(t, FALSE)
    \/ RefreshValidated(t, FALSE)

\* In the end Cloudflare answers, and the API is found listening and answers.
Calm == <>[][\A t \in Proc : ~Failure(t)]_vars

\* What the user has stopped is gone from Cloudflare in the end, whatever
\* calls failed, unless it is published again: the pass sees to what the
\* request left undone.
StopCompletes ==
    Calm => \A a \in Api :
        (pub[a] # NoRecord /\ pub[a].desired # "published")
            ~> (Named(a) = {} \/ (pub[a] # NoRecord /\ pub[a].desired = "published"))

\* An API that is wanted, with its user content and the credentials ready.
Settled(a) ==
    /\ Granted /\ Mine(a) /\ pub[a].desired = "published"
    /\ \A t \in Request : pc[t] = "idle"

\* Once nothing changes any more, the pass publishes the API, with an
\* application that admits the present Service Token.
PublicationSettles ==
    Calm /\ <>[][UNCHANGED cred]_cred => \A a \in Api :
        <>[]Settled(a) =>
            []<>(/\ pub[a] # NoRecord /\ pub[a].state = "published"
                 /\ cred # NoRecord /\ \E x \in Known(pub[a]) : x.token = cred.token)

=============================================================================
