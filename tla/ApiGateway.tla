----------------------------- MODULE ApiGateway -----------------------------
(***************************************************************************)
(* The way of a call from the gateway to a user's process, and the guard   *)
(* on the port that process listens on.                                    *)
(*                                                                         *)
(* Processes of all users come and go on shared ports.  The portal, which  *)
(* runs as root, relays calls to a registered process; nftables keeps the  *)
(* other users of the machine from that port.  Every change of nftables is *)
(* made under the guard's lock.                                            *)
(*                                                                         *)
(* A definition whose name begins with M_ is never used: it is the next    *)
(* definition with a plausible error, which the properties must notice.    *)
(***************************************************************************)
EXTENDS Naturals, Sequences, FiniteSets

CONSTANTS
    User,        \* Linux users that run processes
    Owner,       \* those among them that have registered an API
    Call,        \* coroutines that serve calls from outside
    Sync,        \* the coroutine that reconciles the guard
    Port,        \* ports an API may listen on
    Listener,    \* listening sockets of processes: "candidates" in the sources
    None,
    MaxCrashes   \* bound on restarts of the portal and of the machine

\* An owner has one API; the coroutine that has the owner's publication lock,
\* whoever that is, goes by the owner's name.
Task == Owner \cup Call \cup {Sync}

PublicationState ==
    {"checking", "published", "unpublished", "disconnected", "error"}

Publication == [target : Listener, state : PublicationState]

ASSUME ConstantsAssumption ==
    /\ Listener \subseteq [uid : User, port : Port, id : Nat]
    /\ Owner \subseteq User
    /\ Owner \cap Call = {}
    /\ Sync \notin Owner \cup Call
    /\ None \notin Listener \cup Publication \cup User
    /\ MaxCrashes \in Nat

\* The guard's lock is wanted or held.
Guarding == {"protect", "previous", "install", "check", "confirm",
             "scan", "scanning", "look", "forget", "restore"}

\* A connection to the process is being made, or is open.
Relaying == {"validate", "connect", "verify", "open"}

Place == {"idle", "token", "register", "restart", "configure", "recheck"}
             \cup Guarding \cup Relaying

VARIABLES
    listening,   \* listening sockets of the machine
    nft,         \* the user each port is reserved for by nftables, or None
    guards,      \* the stored guard of each port, or None
    pub,         \* the stored registration of each owner's API, or None
    lock,        \* NftablesPortGuard.lock: its holder and, behind it, its waiters
    pc,          \* where each coroutine stands
    api,         \* whose API it works on
    tgt,         \* the listener it works on, from the registration it has read
    conn,        \* the listener that accepted its connection
    job,         \* what a health check is for
    todo,        \* ports the reconciliation has still to look at
    crashes

stores == <<guards, pub>>
control == <<lock, pc, api, tgt, conn, job, todo>>
vars == <<listening, nft, stores, control, crashes>>

TypeOK ==
    /\ listening \subseteq Listener
    /\ nft \in [Port -> User \cup {None}]
    /\ guards \in [Port -> Listener \cup {None}]
    /\ pub \in [Owner -> Publication \cup {None}]
    /\ lock \in Seq(Task)
    /\ pc \in [Task -> Place]
    /\ api \in [Task -> Owner \cup {None}]
    /\ tgt \in [Task -> Listener \cup {None}]
    /\ conn \in [Task -> Listener \cup {None}]
    /\ job \in [Owner -> {"configure", "refresh"}]
    /\ todo \subseteq Port
    /\ crashes \in 0 .. MaxCrashes
-----------------------------------------------------------------------------
(***************************************************************************)
(* Processes.                                                              *)
(***************************************************************************)

On(p) == {l \in listening : l.port = p}

Registered == {u \in Owner : pub[u] # None}

\* Whatever names a listener.  Process start times and socket numbers are never
\* used twice, so that a new listener is none of these.
References ==
    listening \cup {guards[p] : p \in Port} \cup {pub[u].target : u \in Registered}
              \cup {tgt[t] : t \in Task} \cup {conn[t] : t \in Task}

New(u, p) ==
    LET unused == {l \in Listener \ References : l.uid = u /\ l.port = p} IN
    {l \in unused : l = CHOOSE k \in unused : TRUE}

\* The kernel lets several sockets of one user share a port (workers of one
\* server), never those of two users.
Listen(u, p) ==
    /\ \A l \in On(p) : l.uid = u
    /\ \E l \in New(u, p) : listening' = listening \cup {l}
    /\ UNCHANGED <<nft, stores, control, crashes>>

End(l) ==
    /\ listening' = listening \ {l}
    /\ UNCHANGED <<nft, stores, control, crashes>>

-----------------------------------------------------------------------------
(***************************************************************************)
(* Coroutines and the guard's lock.                                        *)
(***************************************************************************)

Held(t) == lock # <<>> /\ Head(lock) = t

At(t, p) == pc[t] = p /\ (p \in Guarding => Held(t))

Goto(t, p) == pc' = [pc EXCEPT ![t] = p]

\* t goes on at p with listener l and, at the entry of the lock, waits for it.
Start(t, p, l) ==
    /\ Goto(t, p)
    /\ tgt' = [tgt EXCEPT ![t] = l]
    /\ lock' = IF p \in Guarding THEN Append(lock, t) ELSE lock

\* t gives up what it has and is ready for something else.
Rest(t) ==
    /\ Goto(t, "idle")
    /\ api' = [api EXCEPT ![t] = None]
    /\ tgt' = [tgt EXCEPT ![t] = None]
    /\ conn' = [conn EXCEPT ![t] = None]
    /\ lock' = IF Held(t) THEN Tail(lock) ELSE lock
    /\ UNCHANGED <<job, todo>>

Save(u, l, s) == pub' = [pub EXCEPT ![u] = [target |-> l, state |-> s]]

\* An exception: a call is refused, a publication is saved as failed, a check
\* of a publication as disconnected, and the reconciliation ends.
Abort(t) ==
    /\ IF t \in Owner
       THEN Save(t, tgt[t], IF job[t] = "configure" THEN "error" ELSE "disconnected")
       ELSE UNCHANGED pub
    /\ Rest(t)

-----------------------------------------------------------------------------
(***************************************************************************)
(* NftablesPortGuard                                                       *)
(***************************************************************************)

\* Mutant: the process takes the place of its user.
M_Ruleset == guards

\* Who may connect to each port, from the stored guards.
Ruleset == [p \in Port |-> IF guards[p] = None THEN None ELSE guards[p].uid]

\* Mutant: an nft that fails goes unnoticed.
M_Outcome == {<<nft, TRUE>>, <<Ruleset, TRUE>>}

\* nft answers, fails, or is killed after ten seconds, with or without effect.
Outcome == {<<Ruleset, TRUE>>, <<nft, FALSE>>, <<Ruleset, FALSE>>}

\* _apply, and what follows when t has the table as it should be.
Apply(t) ==
    /\ \E p \in {"install", "confirm", "restore"} : At(t, p)
    /\ \E o \in Outcome :
       /\ nft' = o[1]
       /\ IF ~o[2] THEN Abort(t)
          ELSE IF pc[t] = "restore" THEN Rest(t) /\ UNCHANGED pub
          ELSE /\ Goto(t, IF pc[t] = "install" THEN "check" ELSE "validate")
               /\ lock' = IF pc[t] = "install" THEN Append(Tail(lock), t) ELSE Tail(lock)
               /\ UNCHANGED <<pub, api, tgt, conn, job, todo>>
    /\ UNCHANGED <<listening, guards, crashes>>

\* protect: the target is still the process that was registered.
ProtectValidate(t) ==
    /\ At(t, "protect")
    /\ IF tgt[t] \in listening
       THEN /\ Goto(t, "previous")
            /\ UNCHANGED <<pub, lock, api, tgt, conn, job, todo>>
       ELSE Abort(t)
    /\ UNCHANGED <<listening, nft, guards, crashes>>

\* A guard of another user gives way if its process has gone.
Conflict(g, l) == g # None /\ g.uid # l.uid /\ g \in listening

ProtectSave(t) ==
    /\ At(t, "previous")
    /\ LET p == tgt[t].port IN
       IF Conflict(guards[p], tgt[t])
       THEN Abort(t) /\ UNCHANGED guards
       ELSE /\ guards' = [guards EXCEPT ![p] = tgt[t]]
            /\ Goto(t, "install")
            /\ UNCHANGED <<pub, lock, api, tgt, conn, job, todo>>
    /\ UNCHANGED <<listening, nft, crashes>>

\* check: the stored guard is for this very process.
Entry(t) == guards[tgt[t].port] = tgt[t]

Check(t) ==
    /\ At(t, "check")
    /\ IF Entry(t)
       THEN Goto(t, "confirm") /\ UNCHANGED <<pub, lock, api, tgt, conn, job, todo>>
       ELSE Abort(t)
    /\ UNCHANGED <<listening, nft, guards, crashes>>

\* reconcile, which waits for the lock and then looks at one guard after another.
ReconcileStart ==
    /\ pc[Sync] = "idle"
    /\ Start(Sync, "scan", None)
    /\ UNCHANGED <<listening, nft, stores, api, conn, job, todo, crashes>>

ReconcileEntries ==
    /\ At(Sync, "scan")
    /\ todo' = {p \in Port : guards[p] # None}
    /\ Goto(Sync, "scanning")
    /\ UNCHANGED <<listening, nft, stores, lock, api, tgt, conn, job, crashes>>

ReconcileNext ==
    /\ At(Sync, "scanning")
    /\ IF todo = {}
       THEN Goto(Sync, "restore") /\ UNCHANGED <<tgt, todo>>
       ELSE \E p \in todo :
            /\ todo' = todo \ {p}
            /\ IF guards[p] \in listening
               THEN UNCHANGED <<pc, tgt>>
               ELSE Goto(Sync, "look") /\ tgt' = [tgt EXCEPT ![Sync] = guards[p]]
    /\ UNCHANGED <<listening, nft, stores, lock, api, conn, job, crashes>>

\* Mutant: a guard ends with the process it was made for.
M_Siblings(g) == {}

\* Mutant: so do anybody's listeners on that port.
M_Anybody(g) == On(g.port)

\* The owner's other listeners on the port keep it guarded.
Siblings(g) == {l \in On(g.port) : l.uid = g.uid}

ReconcileLook ==
    /\ At(Sync, "look")
    /\ Goto(Sync, IF Siblings(tgt[Sync]) # {} THEN "scanning" ELSE "forget")
    /\ UNCHANGED <<listening, nft, stores, lock, api, tgt, conn, job, todo, crashes>>

ReconcileForget ==
    /\ At(Sync, "forget")
    /\ guards' = [guards EXCEPT ![tgt[Sync].port] = None]
    /\ Goto(Sync, "scanning")
    /\ UNCHANGED <<listening, nft, pub, lock, api, tgt, conn, job, todo, crashes>>

-----------------------------------------------------------------------------
(***************************************************************************)
(* AuthorizeApiInvocationUseCase and the relay, which serves calls from    *)
(* outside and the health checks of a publication.                         *)
(***************************************************************************)

\* The caller's tokens and the state of the API are in order.
Arrive(c, u) ==
    /\ pc[c] = "idle"
    /\ pub[u] # None /\ pub[u].state = "published"
    /\ Start(c, "token", pub[u].target)
    /\ api' = [api EXCEPT ![c] = u]
    /\ UNCHANGED <<listening, nft, stores, conn, job, todo, crashes>>

\* The signing keys have arrived and the assertion is verified, or is not.
Authorize(c) ==
    /\ pc[c] = "token"
    /\ \/ Start(c, "check", tgt[c]) /\ UNCHANGED <<pub, api, conn, job, todo>>
       \/ Abort(c)
    /\ UNCHANGED <<listening, nft, guards, crashes>>

\* The process is as registered, immediately before the connection is made.
Validate(t) ==
    /\ pc[t] = "validate"
    /\ IF tgt[t] \in listening
       THEN Goto(t, "connect") /\ UNCHANGED <<pub, lock, api, tgt, conn, job, todo>>
       ELSE Abort(t)
    /\ UNCHANGED <<listening, nft, guards, crashes>>

\* Whoever listens on the port accepts the connection.
Connect(t) ==
    /\ pc[t] = "connect"
    /\ \/ /\ On(tgt[t].port) = {}
          /\ Abort(t)
       \/ \E l \in On(tgt[t].port) :
          /\ conn' = [conn EXCEPT ![t] = l]
          /\ Goto(t, "verify")
          /\ UNCHANGED <<pub, lock, api, tgt, job, todo>>
    /\ UNCHANGED <<listening, nft, guards, crashes>>

\* Mutant: the process is not looked at again.
M_Unchanged(t) == TRUE

\* The process is as registered, still.
Unchanged(t) == tgt[t] \in listening

\* Only now is anything sent.
Send(t) ==
    /\ pc[t] = "verify"
    /\ IF Unchanged(t)
       THEN Goto(t, "open") /\ UNCHANGED <<pub, lock, api, tgt, conn, job, todo>>
       ELSE Abort(t)
    /\ UNCHANGED <<listening, nft, guards, crashes>>

\* No slot, a timeout, a caller that went away, an answer that is not.
Break(t) ==
    /\ pc[t] \in Relaying
    /\ Abort(t)
    /\ UNCHANGED <<listening, nft, guards, crashes>>

\* The answer is complete: a checked publication goes on or is published.
Answer(t) ==
    /\ pc[t] = "open"
    /\ IF t \in Owner /\ job[t] = "configure"
       THEN /\ Goto(t, "configure")
            /\ conn' = [conn EXCEPT ![t] = None]
            /\ UNCHANGED <<pub, lock, api, tgt, job, todo>>
       ELSE /\ IF t \in Owner THEN Save(t, tgt[t], "published") ELSE UNCHANGED pub
            /\ Rest(t)
    /\ UNCHANGED <<listening, nft, guards, crashes>>

-----------------------------------------------------------------------------
(***************************************************************************)
(* Publications: what of them decides on targets and guards.  One coroutine *)
(* at a time has the owner's publication lock.                             *)
(***************************************************************************)

\* u begins a use case at p with listener l, for job j.
Begin(u, p, l, j) ==
    /\ Start(u, p, l)
    /\ api' = [api EXCEPT ![u] = u]
    /\ job' = [job EXCEPT ![u] = j]
    /\ UNCHANGED <<listening, nft, guards, conn, todo, crashes>>

\* RegisterApiUseCase chooses one of the owner's listeners, in a thread, ...
Register(u) ==
    /\ pc[u] = "idle"
    /\ \E l \in listening : l.uid = u /\ Begin(u, "register", l, "configure")
    /\ UNCHANGED pub

\* ... and refuses calls to what was registered before.
RegisterSave(u) ==
    /\ pc[u] = "register"
    /\ Save(u, tgt[u], "checking")
    /\ Begin(u, "protect", tgt[u], "configure")

\* What is registered is configured from the beginning.
Republish(u) ==
    /\ Save(u, pub[u].target, "checking")
    /\ Begin(u, "protect", pub[u].target, "configure")

\* ChangeApiPublicationUseCase
Publish(u) ==
    /\ pc[u] = "idle" /\ pub[u] # None
    /\ Republish(u)

\* It is stopped or deleted.
Stop(u) ==
    /\ pc[u] = "idle" /\ pub[u] # None
    /\ \/ Save(u, pub[u].target, "unpublished")
       \/ pub' = [pub EXCEPT ![u] = None]
    /\ UNCHANGED <<listening, nft, guards, control, crashes>>

Wanted(u) == pub[u] # None /\ pub[u].state # "unpublished"

\* RefreshApiPublicationUseCase: the process is there, and is to be checked or,
\* after a failure or after 300 seconds, configured again; or it has gone.
Refresh(u) ==
    /\ pc[u] = "idle" /\ Wanted(u)
    /\ LET l == pub[u].target IN
       \/ /\ l \in listening
          /\ pub[u].state \in {"published", "disconnected"}
          /\ Begin(u, "check", l, "refresh")
          /\ UNCHANGED pub
       \/ /\ l \in listening
          /\ Republish(u)
       \/ /\ l \notin listening
          /\ Begin(u, "restart", l, "refresh")
          /\ UNCHANGED pub

\* Mutant: nobody looks for the process that was started again.
M_Restarted(l) == {}

\* The one listener the owner has on that port now.
Restarted(l) == {m \in Siblings(l) : Siblings(l) = {m}}

\* restarted_target: it is the same application if the work directory is.
RefreshRestarted(u) ==
    /\ pc[u] = "restart"
    /\ \/ /\ Abort(u)
          /\ UNCHANGED <<listening, nft, guards, crashes>>
       \/ \E l \in Restarted(tgt[u]) :
          /\ Save(u, l, "checking")
          /\ Begin(u, "protect", l, "configure")

\* Cloudflare is configured, or fails; the process is looked at again.
Configure(u, ok) ==
    /\ pc[u] = "configure"
    /\ IF ok
       THEN Goto(u, "recheck") /\ UNCHANGED <<pub, lock, api, tgt, conn, job, todo>>
       ELSE Abort(u)
    /\ UNCHANGED <<listening, nft, guards, crashes>>

Complete(u) ==
    /\ pc[u] = "recheck"
    /\ IF tgt[u] \in listening
       THEN Save(u, tgt[u], "published") /\ Rest(u)
       ELSE Abort(u)
    /\ UNCHANGED <<listening, nft, guards, crashes>>

-----------------------------------------------------------------------------
(***************************************************************************)
(* Restarts of the portal, and of the machine, which clears nftables.      *)
(***************************************************************************)

Crash ==
    /\ crashes < MaxCrashes
    /\ crashes' = crashes + 1
    /\ \/ UNCHANGED <<listening, nft>>
       \/ listening' = {} /\ nft' = [p \in Port |-> None]
    /\ lock' = <<>>
    /\ pc' = [t \in Task |-> "idle"]
    /\ api' = [t \in Task |-> None]
    /\ tgt' = [t \in Task |-> None]
    /\ conn' = [t \in Task |-> None]
    /\ todo' = {}
    /\ UNCHANGED <<stores, job>>

Init ==
    /\ listening = {}
    /\ nft = [p \in Port |-> None]
    /\ guards = [p \in Port |-> None]
    /\ pub = [u \in Owner |-> None]
    /\ lock = <<>>
    /\ pc = [t \in Task |-> "idle"]
    /\ api = [t \in Task |-> None]
    /\ tgt = [t \in Task |-> None]
    /\ conn = [t \in Task |-> None]
    /\ job = [u \in Owner |-> "refresh"]
    /\ todo = {}
    /\ crashes = 0

Processes == \/ \E u \in User, p \in Port : Listen(u, p)
             \/ \E l \in listening : End(l)

Guard(t) == Apply(t) \/ ProtectValidate(t) \/ ProtectSave(t) \/ Check(t)

Reconcile == ReconcileEntries \/ ReconcileNext \/ ReconcileLook \/ ReconcileForget

Relay(t) == Validate(t) \/ Connect(t) \/ Send(t) \/ Break(t) \/ Answer(t)

Publishing(u) ==
    \/ RegisterSave(u) \/ RefreshRestarted(u) \/ Complete(u)
    \/ \E ok \in BOOLEAN : Configure(u, ok)

Request(u) == Register(u) \/ Publish(u) \/ Stop(u)

Next ==
    \/ Processes
    \/ \E t \in Task : Guard(t) \/ Relay(t)
    \/ \E u \in Owner : Request(u) \/ Refresh(u) \/ Publishing(u)
    \/ \E c \in Call : Authorize(c) \/ \E u \in Owner : Arrive(c, u)
    \/ ReconcileStart \/ Reconcile
    \/ Crash

Spec == Init /\ [][Next]_vars
-----------------------------------------------------------------------------
(***************************************************************************)
(* What must never happen.                                                 *)
(***************************************************************************)

\* Whatever processes come and go while a connection is made, a call or a
\* health check is sent to a process of the API's owner and to nobody else's
\* (VerifiedConnector).
ReachesOwner ==
    \A t \in Call \cup Owner :
        pc[t] = "open" => conn[t].uid = api[t] /\ conn[t].port = tgt[t].port

\* As long as a process serves a call, no other user can connect to its port:
\* its guard outlives the process it was made for, as long as workers of the
\* same server go on (NftablesPortGuard.reconcile).
ServedIsGuarded ==
    \A t \in Call \cup Owner :
        pc[t] = "open" /\ conn[t] \in listening => nft[conn[t].port] = conn[t].uid

\* No other user can connect to the port of a published API while its process
\* is there, whatever guards were made, overwritten or dropped on the way.
PublishedIsGuarded ==
    \A u \in Registered :
        pub[u].state = "published" /\ pub[u].target \in listening
            => nft[pub[u].target.port] = u

-----------------------------------------------------------------------------
(***************************************************************************)
(* What must happen.                                                       *)
(***************************************************************************)

Step(t) ==
    \/ Guard(t) \/ Relay(t)
    \/ t \in Owner /\ Publishing(t)
    \/ t \in Call /\ Authorize(t)
    \/ t = Sync /\ Reconcile

\* A coroutine goes on as soon as it can, the synchronisation is repeated, and
\* it gets the publication lock however often requests come before it.
Fairness ==
    /\ \A t \in Task : WF_vars(Step(t))
    /\ \A u \in Owner : SF_vars(Refresh(u))
    /\ WF_vars(ReconcileStart)

FairSpec == Spec /\ Fairness

Failure(t) ==
    \/ Break(t)
    \/ Apply(t) /\ (nft' # Ruleset \/ (pc[t] # "restore" /\ pc'[t] = "idle"))
    \/ t \in Owner /\ Configure(t, FALSE)
    \/ pc[t] = "restart" /\ pc'[t] = "idle" /\ Restarted(tgt[t]) # {}

\* In the end nft, Cloudflare and the API answer, and an application that is
\* started again is the same.
Calm == <>[][\A t \in Task : ~Failure(t)]_vars

\* A port is reserved for a user who has no process there only for some time:
\* others who use it next are let through (NftablesPortGuard.reconcile).
PortFreed ==
    Calm => \A u \in User, p \in Port :
        <>[](\A l \in On(p) : l.uid # u) => <>[](nft[p] # u)

\* An API that is wanted, whose owner has one process on its port.
Lasting(u) ==
    /\ Wanted(u) /\ pc[u] # "register"
    /\ Cardinality(Siblings(pub[u].target)) = 1

\* It is published again in the end, although its process was started again, or the
\* portal or the machine with its guards (RefreshApiPublicationUseCase).
Republished ==
    Calm => \A u \in Owner :
        <>[]Lasting(u) /\ <>[][~Request(u)]_vars =>
            []<>(pub[u] # None /\ pub[u].state = "published" /\ pub[u].target \in listening)
=============================================================================
