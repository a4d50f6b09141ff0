------------------------ MODULE ApiPublicationsProofs ------------------------
(***************************************************************************)
(* Theorems about ApiPublications, for any requests and APIs.              *)
(*                                                                         *)
(* Whoever works on a copy of a registration is at the head of the queue   *)
(* for the publication lock, but for the one deletion of an account, which *)
(* goes without that lock (OneDeletion, Inv).  What the records say        *)
(* of Cloudflare's applications stays true with any number of requests as  *)
(* long as every answer arrives and nobody restarts (Data).  A lost answer *)
(* leaves an application that no record cites; that it stays known to the  *)
(* next removal, and that nobody revives a stopped publication, needs the  *)
(* copies to be those of the store (Single), which an account's deletion   *)
(* beside a publication breaks (Undisturbed).                              *)
(***************************************************************************)
EXTENDS ApiPublications, FiniteSetTheorems, TLAPS

\* Places at which the publication lock is held, whatever the job.
Inner == {"choose", "check", "app", "validate", "f_validate", "f_restart", "f_health", "stop"}

\* Places at which a copy of a registration is worked on.
Working == Inner \cup {"remote", "drop"}

\* From the registration to its configuration at Cloudflare.
Configuring == {"check", "app", "validate"}
\* From the row of a published registration to its new state.
Refreshing == {"f_validate", "f_restart", "f_health"}

\* Jobs that stop all publications of an account.
Withdrawing == {"disable", "leave"}

\* What is stored here and at Cloudflare.
StoresOK ==
    /\ account \in Owner \cup {NoAccount}
    /\ cred \in Credential \cup {NoRecord}
    /\ cred # NoRecord /\ cred.is = "ready" => cred.token \in Token
    /\ pub \in [Api -> Publication \cup {NoRecord}]
    /\ recent \in [Api -> BOOLEAN]
    /\ apps \subseteq AccessApp
    /\ lost \in 0 .. MaxLost
    /\ crashes \in 0 .. MaxCrashes

\* Who does what.
ControlOK ==
    /\ lock \in Seq(Proc)
    /\ running \in SUBSET Proc
    /\ job \in [Proc -> Job \cup {"sync", "none"}]
    /\ pc \in [Proc -> Awaiting \cup Elsewhere]
    /\ api \in [Proc -> Api \cup {NoApi}]
    /\ mine \in [Proc -> [Api -> Publication \cup {NoRecord}]]
    /\ grant \in [Proc -> Credential \cup {NoRecord}]
    /\ todo \in [Proc -> SUBSET Api]

\* Who is in the lock's queue waits there, but for the first, and is there once.
QueueOK ==
    /\ \A i, j \in 1 .. Len(lock) : lock[i] = lock[j] => i = j
    /\ \A i \in 1 .. Len(lock) :
          LET t == lock[i] IN
          \/ pc[t] = "wait"
          \/ i = 1 /\ pc[t] \in Working /\ (pc[t] = "drop" => job[t] # "leave")

\* Which jobs j lead to which places p.
JobAt(j, p) ==
    /\ p = "choose" => j = "register"
    /\ p \in Configuring => j \in {"register", "publish", "sync"}
    /\ p \in Refreshing \cup {"rows"} => j = "sync"
    /\ p \in {"stop", "deny", "revoke"} => j \in Withdrawing
    /\ p = "remote" => j \in {"unpublish", "remove", "sync", "disable", "leave"}
    /\ p = "drop" => j \in {"remove", "sync", "leave"}
    /\ p \in {"userdel", "gone", "next"} => j = "leave"

JobOK(t) ==
    /\ job[t] = "sync" => t = Sync
    /\ t = Sync => job[t] \in {"sync", "disable", "none"}
    /\ JobAt(job[t], pc[t])

\* What a coroutine has at its place.
LocalOK(t) ==
    /\ JobOK(t)
    /\ pc[t] \in Inner => Held(t)
    /\ pc[t] \in {"remote", "drop"} /\ job[t] # "leave" => Held(t)
    /\ pc[t] \in {"stop", "drop"} => running = {t}
    /\ pc[t] \in Working \ {"stop"} => api[t] \in Api
    /\ pc[t] = "wait" /\ job[t] \notin Withdrawing => api[t] \in Api
    /\ pc[t] \in Working \ {"stop", "choose", "drop"} => mine[t][api[t]] \in Publication
    /\ pc[t] \in {"choose"} \cup Configuring \cup Refreshing =>
          grant[t] \in Credential /\ grant[t].token \in Token
    /\ pc[t] = "stop" \/ (pc[t] = "remote" /\ job[t] \in Withdrawing /\ Held(t)) =>
          \A a \in todo[t] : mine[t][a] \in Publication

\* There is one deletion at a time.
OneDeletion == \A t, u \in Proc : Deleting(t) /\ Deleting(u) => t = u

Inv ==
    /\ StoresOK /\ ControlOK /\ QueueOK
    /\ \A t \in Proc : LocalOK(t)
    /\ OneDeletion

-----------------------------------------------------------------------------
\* The record m of API a tells the truth about the applications A.
Sound(a, m, A) ==
    /\ \A x \in A : x.name = a => x.owner = m.owner
    /\ Clean(m) => \A x \in A : x.name # a
    /\ m.app # NoApp /\ (\A x \in A : x.id # m.app) => \A x \in A : x.name # a

\* So does the stored record of API a, or there is none and no application.
StoreSound(a) ==
    IF pub[a] = NoRecord THEN Named(a) = {} ELSE Sound(a, pub[a], apps)

\* APIs whose application t has just configured, which is not on record yet.
Unrecorded(a) == \E t \in Proc : pc[t] = "validate" /\ api[t] = a

\* APIs of which t has copies.
Copied(t) == IF job[t] \in Withdrawing THEN Api ELSE {api[t]}

CopySound(t) ==
    /\ pc[t] \in Working /\ Held(t) =>
          \A a \in Copied(t) : mine[t][a] # NoRecord => Sound(a, mine[t][a], apps)
    /\ pc[t] = "choose" =>
          IF mine[t][api[t]] = NoRecord THEN Named(api[t]) = {}
          ELSE mine[t][api[t]].owner = grant[t].owner
    /\ pc[t] \in Configuring \cup Refreshing => mine[t][api[t]].owner = grant[t].owner
    /\ pc[t] \in Configuring =>
          /\ ~mine[t][api[t]].clean
          /\ \/ pub[api[t]] = NoRecord
             \/ pub[api[t]].owner = mine[t][api[t]].owner /\ ~pub[api[t]].clean
             \/ \E d \in Proc : pc[d] = "drop" /\ api[d] = api[t]
    /\ pc[t] = "drop" => Named(api[t]) = {}

\* An ID that the record m of API a cites is of an application of that name.
Cited(a, m) == m # NoRecord => \A x \in apps : x.id = m.app => x.name = a

\* IDs and names of applications are unique.
Unique == \A x, y \in apps : x.id = y.id \/ x.name = y.name => x = y

NamesOK ==
    /\ Unique
    /\ \A a \in Api : Cited(a, pub[a])
    /\ \A t \in Proc, a \in Api : Cited(a, mine[t][a])

\* The records tell the truth, but of an application just configured.
Data ==
    /\ NamesOK
    /\ \A a \in Api : ~Unrecorded(a) => StoreSound(a)
    /\ \A t \in Proc : CopySound(t)

-----------------------------------------------------------------------------
\* All is stopped and removed.
Withdrawn == \A a \in Api : pub[a] # NoRecord => Clean(pub[a]) /\ pub[a].desired # "published"

\* The copies agree with the stored registrations.
Agrees(t) ==
    /\ pc[t] \in Working \ {"validate"} /\ Held(t) =>
          \A a \in Copied(t) \cap Api : mine[t][a] = pub[a]
    /\ pc[t] = "validate" =>
          /\ pub[api[t]] # NoRecord
          /\ \E x \in apps : mine[t][api[t]] = [pub[api[t]] EXCEPT !.app = x.id]
    /\ pc[t] \in Configuring \cup Refreshing => mine[t][api[t]].desired = "published"
    /\ pc[t] \in Working /\ Held(t) /\ job[t] \in Withdrawing =>
          /\ \A a \in Api \ todo[t] : pub[a] = NoRecord
          /\ pc[t] = "remote" =>
                api[t] \in todo[t] /\ \A a \in todo[t] : mine[t][a].desired # "published"
    /\ Departing(t) =>
          /\ Withdrawn
          /\ pc[t] # "remote"
          /\ \A u \in Proc \ {t} : pc[u] \notin Working \ {"stop", "drop"}

Single == \A t \in Proc : Agrees(t)

\* The application on record is there.
Exact == \A a \in Api : pub[a] # NoRecord /\ pub[a].app # NoApp => Known(pub[a]) # {}

\* What a first lost answer or restart leaves, and what it needs.
OneLost ==
    /\ lost + crashes = 0 => Exact
    /\ lost + crashes <= 1 => Data
-----------------------------------------------------------------------------
(***************************************************************************)
(* Records and places.                                                     *)
(***************************************************************************)

\* The types, one half for the stores and one for the coroutines.
LEMMA TypeSplit == StoresOK /\ ControlOK => TypeOK
  BY DEF TypeOK, StoresOK, ControlOK

\* What becomes of a registration.
LEMMA Edits ==
  ASSUME NEW r \in Publication
  PROVE  /\ r # NoRecord
         /\ \A s \in PublicationState : [r EXCEPT !.state = s] \in Publication
         /\ \A i \in AppId : [r EXCEPT !.app = i] \in Publication
         /\ [r EXCEPT !.app = NoApp, !.clean = TRUE] \in Publication
         /\ Begun(r) \in Publication
         /\ \A d \in {"published", "unpublished", "deleted"} : Stopped(r, d) \in Publication
  BY ConstantsAssumption DEF Publication, PublicationState, Begun, Stopped

\* A registration takes the states of another.
LEMMA Merged ==
  ASSUME NEW r \in Publication, NEW q \in Publication
  PROVE  [q EXCEPT !.state = r.state, !.desired = r.desired] \in Publication
  BY DEF Publication

\* Places are what they are.
LEMMA Places ==
  /\ Working \subseteq Awaiting \cup Elsewhere
  /\ Inner \subseteq Working /\ Configuring \subseteq Inner /\ Refreshing \subseteq Inner
  /\ Working = {"choose", "check", "app", "validate", "f_validate", "f_restart", "f_health",
                "stop", "remote", "drop"}
  BY DEF Working, Inner, Configuring, Refreshing, Awaiting, Elsewhere

-----------------------------------------------------------------------------
(***************************************************************************)
(* What the steps of a coroutine do to the control state.                  *)
(***************************************************************************)

\* Coroutine u does not move.
Same(u) ==
    /\ pc'[u] = pc[u] /\ job'[u] = job[u] /\ api'[u] = api[u]
    /\ mine'[u] = mine[u] /\ grant'[u] = grant[u] /\ todo'[u] = todo[u]

Others(t) == \A u \in Proc \ {t} : Same(u)

Queued(t) == \E i \in 1 .. Len(lock) : lock[i] = t

\* Who holds the lock is the first in its queue, and only one is.
LEMMA First ==
  ASSUME Inv
  PROVE  /\ \A t, u \in Proc : Held(t) /\ Held(u) => t = u
         /\ \A t \in Proc : Held(t) => Len(lock) \in Nat /\ 1 \in 1 .. Len(lock) /\ lock[1] = t
         /\ \A t \in Proc : Held(t) => Queued(t)
         /\ Len(lock) \in Nat
  <1>1. lock \in Seq(Proc) /\ Len(lock) \in Nat
    BY DEF Inv, ControlOK
  <1>2. \A t \in Proc : Held(t) => 1 \in 1 .. Len(lock) /\ lock[1] = t
    BY <1>1 DEF Held
  <1> QED
    BY <1>1, <1>2 DEF Queued

\* Who waits behind another does not hold the lock, nor is it at work.
LEMMA Behind ==
  ASSUME Inv, NEW t \in Proc
  PROVE  /\ Queued(t) => pc[t] \in Working \cup {"wait"}
         /\ Queued(t) /\ ~Held(t) => pc[t] = "wait"
         /\ pc[t] = "drop" /\ job[t] = "leave" => ~Queued(t)
         /\ pc[t] \in Inner => Held(t)
         /\ pc[t] \in Working /\ job[t] # "leave" => Held(t)
         /\ Deleting(t) => ~Queued(t)
         /\ pc[t] = "next" => Deleting(t)
  <1>1. lock \in Seq(Proc) /\ Len(lock) \in Nat
    BY DEF Inv, ControlOK
  <1>2. ASSUME Queued(t) PROVE pc[t] = "wait" \/ (Held(t) /\ pc[t] \in Working
                                 /\ (pc[t] = "drop" => job[t] # "leave"))
    <2>1. PICK i \in 1 .. Len(lock) : lock[i] = t
      BY <1>2 DEF Queued
    <2>2. i = 1 => Held(t)
      BY <1>1, <2>1 DEF Held
    <2> QED
      BY <2>1, <2>2 DEF Inv, QueueOK
  <1>3. pc[t] \in Inner => Held(t)
    BY DEF Inv, LocalOK
  <1>4. pc[t] \in Working /\ job[t] # "leave" => Held(t)
    BY <1>3 DEF Inv, LocalOK, Working
  <1>5. pc[t] = "drop" /\ job[t] = "leave" => ~Queued(t)
    BY <1>2
  <1>6. ASSUME Deleting(t) PROVE ~Queued(t)
    BY <1>2, <1>6 DEF Deleting, Working, Inner
  <1>7. ASSUME pc[t] = "next" PROVE Deleting(t)
    <2>1. job[t] = "leave"
      BY <1>7 DEF Inv, LocalOK, JobOK, JobAt
    <2>2. ~Held(t)
      BY <1>2, <1>7, First DEF Working, Inner
    <2> QED
      BY <1>7, <2>1, <2>2 DEF Deleting
  <1> QED
    BY <1>2, <1>3, <1>4, <1>5, <1>6, <1>7 DEF Working

\* When it is t's turn, nobody else is stopping or dropping.
LEMMA TurnOK ==
  ASSUME Inv, NEW t \in Proc, Turn(t)
  PROVE  \A u \in Proc \ {t} : pc[u] \notin {"stop", "drop"}
  BY DEF Inv, LocalOK, Turn

\* Who does not move is where it may be, if the lock stays with it.
LEMMA SameOK ==
  ASSUME Inv, NEW u \in Proc, Same(u),
         Held(u) => Held(u)', Held(u)' => Held(u) \/ pc[u] # "remote",
         pc[u] \in {"stop", "drop"} => running' = {u}
  PROVE  LocalOK(u)'
  <1>1. LocalOK(u)
    BY DEF Inv
  <1>2. JobOK(u)'
    BY <1>1 DEF LocalOK, JobOK, JobAt, Same
  <1>3. pc'[u] = pc[u] /\ job'[u] = job[u] /\ api'[u] = api[u]
        /\ mine'[u] = mine[u] /\ grant'[u] = grant[u] /\ todo'[u] = todo[u]
    BY DEF Same
  <1>4. /\ pc'[u] \in Inner => Held(u)'
        /\ pc'[u] \in {"remote", "drop"} /\ job'[u] # "leave" => Held(u)'
    BY <1>1, <1>3 DEF LocalOK
  <1>5. pc'[u] = "stop" \/ (pc'[u] = "remote" /\ job'[u] \in Withdrawing /\ Held(u)') =>
          \A a \in todo'[u] : mine'[u][a] \in Publication
    BY <1>1, <1>3 DEF LocalOK
  <1> QED
    BY <1>1, <1>2, <1>3, <1>4, <1>5 DEF LocalOK

\* One deletion at a time, when one coroutine moves.
LEMMA DeletionOK ==
  ASSUME Inv, NEW t \in Proc, Others(t),
         \A u \in Proc \ {t} : Held(u) => Held(u)',
         Deleting(t)' => Deleting(t) \/ CredentialsFree
  PROVE  OneDeletion'
  <1>1. \A u \in Proc \ {t} : Deleting(u)' => Deleting(u)
    BY DEF Others, Same, Deleting
  <1> QED
    BY <1>1 DEF Inv, OneDeletion, CredentialsFree

\* t moves and the queue stays as it is.
LEMMA GoOK ==
  ASSUME Inv, NEW t \in Proc, Others(t), lock' = lock,
         \A u \in Proc \ {t} : pc[u] \in {"stop", "drop"} => running' = {u},
         StoresOK', ControlOK', LocalOK(t)',
         Queued(t) => pc'[t] = "wait" \/ (pc'[t] \in Working /\ Held(t)
                                           /\ (pc'[t] = "drop" => job'[t] # "leave")),
         Deleting(t)' => Deleting(t) \/ CredentialsFree
  PROVE  Inv'
  <1>1. \A u \in Proc : Held(u)' <=> Held(u)
    BY DEF Held
  <1>2. ASSUME NEW u \in Proc PROVE LocalOK(u)'
    <2>1. CASE u = t
      BY <2>1
    <2>2. CASE u # t
      BY <1>1, <2>2, SameOK DEF Others
    <2> QED
      BY <2>1, <2>2
  <1>3. QueueOK'
    <2>1. lock \in Seq(Proc) /\ Len(lock) \in Nat
      BY DEF Inv, ControlOK
    <2>2. ASSUME NEW i \in 1 .. Len(lock)
          PROVE  \/ pc'[lock[i]] = "wait"
                 \/ i = 1 /\ pc'[lock[i]] \in Working
                    /\ (pc'[lock[i]] = "drop" => job'[lock[i]] # "leave")
      <3>1. lock[i] \in Proc
        BY <2>1
      <3>2. CASE lock[i] # t
        BY <3>1, <3>2 DEF Others, Same, Inv, QueueOK
      <3>3. CASE lock[i] = t
        <4>1. Queued(t)
          BY <3>3 DEF Queued
        <4>2. Held(t) => i = 1
          BY <2>1, <3>3, First DEF Inv, QueueOK
        <4> QED
          BY <3>3, <4>1, <4>2
      <3> QED
        BY <3>2, <3>3
    <2> QED
      BY <2>2 DEF Inv, QueueOK
  <1>4. OneDeletion'
    BY <1>1, DeletionOK
  <1> QED
    BY <1>2, <1>3, <1>4 DEF Inv

\* t stands in line for the lock.
LEMMA QueuesOK ==
  ASSUME Inv, NEW t \in Proc, Others(t), lock' = Append(lock, t), ~Queued(t),
         Turn(t), pc'[t] = "wait",
         StoresOK', ControlOK', LocalOK(t)'
  PROVE  Inv'
  <1>1. lock \in Seq(Proc) /\ Len(lock) \in Nat
    BY DEF Inv, ControlOK
  <1>2. /\ Len(lock') = Len(lock) + 1
        /\ \A i \in 1 .. Len(lock) : lock'[i] = lock[i]
        /\ lock'[Len(lock) + 1] = t
    BY <1>1
  <1>3. \A u \in Proc \ {t} : Held(u)' <=> Held(u)
    BY <1>1, <1>2 DEF Held
  <1>4. \A u \in Proc \ {t} : LocalOK(u)'
    BY <1>3, SameOK, TurnOK DEF Others
  <1>5. \A i \in 1 .. Len(lock) : lock[i] # t /\ lock[i] \in Proc
    BY <1>1 DEF Queued
  <1>6. QueueOK'
    <2>1. ASSUME NEW i \in 1 .. Len(lock'), NEW j \in 1 .. Len(lock'), lock'[i] = lock'[j]
          PROVE  i = j
      <3>1. i \in 1 .. Len(lock) \/ i = Len(lock) + 1
        BY <1>1, <1>2
      <3>2. j \in 1 .. Len(lock) \/ j = Len(lock) + 1
        BY <1>1, <1>2
      <3> QED
        BY <1>1, <1>2, <1>5, <2>1, <3>1, <3>2 DEF Inv, QueueOK
    <2>2. ASSUME NEW i \in 1 .. Len(lock')
          PROVE  \/ pc'[lock'[i]] = "wait"
                 \/ i = 1 /\ pc'[lock'[i]] \in Working
                    /\ (pc'[lock'[i]] = "drop" => job'[lock'[i]] # "leave")
      <3>1. i \in 1 .. Len(lock) \/ i = Len(lock) + 1
        BY <1>1, <1>2
      <3>2. CASE i = Len(lock) + 1
        BY <1>2, <3>2
      <3>3. CASE i \in 1 .. Len(lock)
        <4>1. lock'[i] = lock[i] /\ Same(lock[i])
          BY <1>2, <1>5, <3>3 DEF Others
        <4> QED
          BY <3>3, <4>1 DEF Same, Inv, QueueOK
      <3> QED
        BY <3>1, <3>2, <3>3
    <2> QED
      BY <2>1, <2>2 DEF QueueOK
  <1>7. OneDeletion'
    <2>1. ~Deleting(t)'
      BY DEF Deleting
    <2> QED
      BY <1>3, <2>1, DeletionOK
  <1> QED
    BY <1>4, <1>6, <1>7 DEF Inv

\* t leaves the lock to the next in line.
LEMMA PassesOK ==
  ASSUME Inv, NEW t \in Proc, Others(t), Held(t), lock' = Tail(lock),
         Turn(t), pc'[t] \notin Working \cup {"next"},
         StoresOK', ControlOK', LocalOK(t)'
  PROVE  Inv'
  <1>1. /\ lock \in Seq(Proc) /\ Len(lock) \in Nat /\ lock # <<>> /\ lock[1] = t
        /\ 1 \in 1 .. Len(lock)
    BY First DEF Inv, ControlOK, Held
  <1>2. /\ Len(lock') = Len(lock) - 1
        /\ \A i \in 1 .. Len(lock') : lock'[i] = lock[i + 1] /\ i + 1 \in 1 .. Len(lock)
    BY <1>1
  <1>3. \A i \in 1 .. Len(lock') : lock'[i] \in Proc \ {t} /\ pc[lock'[i]] = "wait"
    <2>1. ASSUME NEW i \in 1 .. Len(lock') PROVE lock'[i] \in Proc \ {t} /\ pc[lock'[i]] = "wait"
      <3>1. i + 1 # 1 /\ i + 1 \in 1 .. Len(lock) /\ lock'[i] = lock[i + 1]
        BY <1>1, <1>2
      <3> QED
        BY <1>1, <3>1 DEF Inv, QueueOK
    <2> QED
      BY <2>1
  <1>4. QueueOK'
    <2>1. \A i, j \in 1 .. Len(lock') : lock'[i] = lock'[j] => i = j
      <3>1. ASSUME NEW i \in 1 .. Len(lock'), NEW j \in 1 .. Len(lock'), lock'[i] = lock'[j]
            PROVE  i = j
        <4>1. i + 1 = j + 1
          BY <1>2, <3>1 DEF Inv, QueueOK
        <4> QED
          BY <1>1, <1>2, <4>1
      <3> QED
        BY <3>1
    <2>2. \A i \in 1 .. Len(lock') : pc'[lock'[i]] = "wait"
      BY <1>3 DEF Others, Same
    <2> QED
      BY <2>1, <2>2 DEF QueueOK
  <1>5. ASSUME NEW u \in Proc \ {t} PROVE LocalOK(u)'
    <2>1. ~Held(u)
      BY First
    <2>2. Held(u)' => pc[u] = "wait"
      <3>1. lock' \in Seq(Proc)
        BY DEF ControlOK
      <3> QED
        BY <1>3, <3>1 DEF Held
    <2> QED
      BY <2>1, <2>2, SameOK, TurnOK DEF Others
  <1>6. OneDeletion'
    <2>1. ~Deleting(t)'
      BY DEF Deleting, Working
    <2>2. \A u \in Proc \ {t} : ~Held(u)
      BY First
    <2> QED
      BY <2>1, <2>2, DeletionOK
  <1> QED
    BY <1>4, <1>5, <1>6 DEF Inv

\* The credentials that t has read may change.
Granting(t) ==
    /\ grant' \in [Proc -> Credential \cup {NoRecord}]
    /\ \A u \in Proc \ {t} : grant'[u] = grant[u]

\* Where a Goto leads.
LEMMA GotoFacts ==
  ASSUME Inv, NEW t \in Proc, NEW p \in Awaiting \cup Elsewhere,
         NEW r \in Publication \cup {NoRecord}, Goto(t, p, r), api[t] \in Api,
         UNCHANGED todo, Granting(t)
  PROVE  /\ ControlOK' /\ Others(t) /\ lock' = lock
         /\ pc'[t] = p /\ job'[t] = job[t] /\ api'[t] = api[t] /\ todo'[t] = todo[t]
         /\ mine'[t] \in [Api -> Publication \cup {NoRecord}]
         /\ mine'[t] = [mine[t] EXCEPT ![api[t]] = r]
  <1>1. ControlOK
    BY DEF Inv
  <1>2. mine[t] \in [Api -> Publication \cup {NoRecord}]
    BY <1>1 DEF ControlOK
  <1>3. [mine[t] EXCEPT ![api[t]] = r] \in [Api -> Publication \cup {NoRecord}]
    BY <1>2
  <1>4. mine' = [mine EXCEPT ![t] = [mine[t] EXCEPT ![api[t]] = r]]
    BY DEF Goto
  <1>5. mine' \in [Proc -> [Api -> Publication \cup {NoRecord}]]
    BY <1>1, <1>3, <1>4 DEF ControlOK
  <1>6. mine'[t] = [mine[t] EXCEPT ![api[t]] = r]
    BY <1>1, <1>4 DEF ControlOK
  <1>7. \A u \in Proc \ {t} : mine'[u] = mine[u]
    BY <1>1, <1>4 DEF ControlOK
  <1>8. pc' = [pc EXCEPT ![t] = p] /\ UNCHANGED <<lock, job, api>> /\ running' \in SUBSET Proc
    BY DEF Goto
  <1>9. ControlOK'
    BY <1>1, <1>5, <1>8 DEF ControlOK, Granting
  <1>10. Others(t)
    BY <1>1, <1>7, <1>8 DEF ControlOK, Others, Same, Granting
  <1>11. p \in {"stop", "drop"} => running' = {t}
    BY DEF Goto, Awaiting
  <1> QED
    BY <1>1, <1>2, <1>3, <1>6, <1>8, <1>9, <1>10, <1>11 DEF ControlOK

\* t goes on under the lock.
LEMMA WorkOK ==
  ASSUME Inv, NEW t \in Proc, Held(t), Turn(t), NEW p \in Working,
         NEW r \in Publication \cup {NoRecord}, Goto(t, p, r), api[t] \in Api,
         UNCHANGED todo, Granting(t),
         StoresOK', JobAt(job[t], p), p = "drop" => job[t] # "leave",
         p \notin {"choose", "drop"} => r \in Publication,
         p \in {"choose"} \cup Configuring \cup Refreshing =>
             grant'[t] \in Credential /\ grant'[t].token \in Token,
         p \in {"stop", "remote"} /\ job[t] \in Withdrawing =>
             \A a \in todo[t] : mine[t][a] \in Publication
  PROVE  Inv'
  <1>1. p \in Awaiting \cup Elsewhere
    BY Places
  <1>2. /\ ControlOK' /\ Others(t) /\ lock' = lock
        /\ pc'[t] = p /\ job'[t] = job[t] /\ api'[t] = api[t] /\ todo'[t] = todo[t]
        /\ mine'[t][api[t]] = r
        /\ \A a \in Api \ {api[t]} : mine'[t][a] = mine[t][a]
        /\ p \in {"stop", "drop"} => running' = {t}
    <2>1. /\ ControlOK' /\ Others(t) /\ lock' = lock
          /\ pc'[t] = p /\ job'[t] = job[t] /\ api'[t] = api[t] /\ todo'[t] = todo[t]
       BY <1>1, GotoFacts
    <2>2. mine'[t][api[t]] = r /\ (\A a \in Api \ {api[t]} : mine'[t][a] = mine[t][a])
      <3>1. mine'[t] = [mine[t] EXCEPT ![api[t]] = r]
        BY <1>1, GotoFacts
      <3> QED
        BY <3>1 DEF Inv, ControlOK
    <2>3. p \in {"stop", "drop"} => running' = {t}
      BY DEF Goto, Awaiting
    <2> QED
      BY <2>1, <2>2, <2>3
  <1>3. Held(t)'
    BY <1>2 DEF Held
  <1>4. JobOK(t)'
    BY <1>2 DEF JobOK, Inv, LocalOK
  <1>5. todo[t] \subseteq Api
    BY DEF Inv, ControlOK
  <1>6. p = "stop" => job[t] \in Withdrawing
    BY DEF JobAt
  <1>7. pc'[t] = "stop" \/ (pc'[t] = "remote" /\ job'[t] \in Withdrawing /\ Held(t)') =>
          \A a \in todo'[t] : mine'[t][a] \in Publication
    BY <1>2, <1>5, <1>6
  <1>8. LocalOK(t)'
    BY <1>2, <1>3, <1>4, <1>7 DEF LocalOK, Working, Inner
  <1>9. ~Deleting(t)'
    BY <1>3 DEF Deleting
  <1> QED
    BY <1>2, <1>8, <1>9, GoOK, TurnOK

\* Where the exits lead.
LEMMA LeaveFacts ==
  ASSUME Inv, NEW t \in Proc, NEW j \in Job \cup {"sync", "none"}, Leave(t, j)
  PROVE  /\ ControlOK' /\ Others(t)
         /\ pc'[t] = After(t)
         /\ After(t) \in {"idle", "rows", "revoke"}
         /\ After(t) = "rows" <=> job[t] = "sync"
         /\ After(t) = "revoke" <=> job[t] \in Withdrawing /\ Held(t)
         /\ job'[t] = IF After(t) = "idle" THEN "none" ELSE j
         /\ lock' = IF Held(t) THEN Tail(lock) ELSE lock
         /\ mine'[t] = [a \in Api |-> NoRecord] /\ api'[t] = NoApi /\ grant'[t] = NoRecord
         /\ todo'[t] = IF job[t] = "sync" THEN todo[t] ELSE {}
  <1>1. ControlOK
    BY DEF Inv
  <1>2. /\ After(t) \in {"idle", "rows", "revoke"}
        /\ After(t) = "rows" <=> job[t] = "sync"
        /\ After(t) = "revoke" <=> job[t] \in Withdrawing /\ Held(t)
    BY DEF After, Withdrawing
  <1>3. lock' = IF Held(t) THEN Tail(lock) ELSE lock
    BY <1>2 DEF Leave, Outward
  <1>4. lock' \in Seq(Proc)
    BY <1>1, <1>3 DEF ControlOK, Held
  <1>5. /\ pc' = [pc EXCEPT ![t] = After(t)]
        /\ job' = [job EXCEPT ![t] = IF After(t) = "idle" THEN "none" ELSE j]
        /\ api' = [api EXCEPT ![t] = NoApi]
        /\ mine' = [mine EXCEPT ![t] = [a \in Api |-> NoRecord]]
        /\ grant' = [grant EXCEPT ![t] = NoRecord]
        /\ todo' = [todo EXCEPT ![t] = IF job[t] = "sync" THEN todo[t] ELSE {}]
        /\ running' \in SUBSET Proc
    BY DEF Leave, Outward
  <1>6. After(t) \in Awaiting \cup Elsewhere
    BY <1>2 DEF Elsewhere
  <1>7. [a \in Api |-> NoRecord] \in [Api -> Publication \cup {NoRecord}]
    OBVIOUS
  <1>8. ControlOK'
    BY <1>1, <1>4, <1>5, <1>6, <1>7 DEF ControlOK
  <1>9. Others(t)
    BY <1>1, <1>5 DEF ControlOK, Others, Same
  <1> QED
    BY <1>1, <1>2, <1>3, <1>5, <1>8, <1>9 DEF ControlOK

\* A use case ends, under the lock or as a deletion.
LEMMA LeaveOK ==
  ASSUME Inv, NEW t \in Proc, Turn(t), Held(t) \/ Deleting(t),
         NEW j \in Job \cup {"sync", "none"}, Leave(t, j),
         j = job[t] \/ (job[t] = "leave" /\ j = "disable"), StoresOK'
  PROVE  Inv'
  <1>1. /\ ControlOK' /\ Others(t)
        /\ pc'[t] = After(t)
        /\ After(t) \in {"idle", "rows", "revoke"}
        /\ After(t) = "rows" <=> job[t] = "sync"
        /\ After(t) = "revoke" <=> job[t] \in Withdrawing /\ Held(t)
        /\ job'[t] = IF After(t) = "idle" THEN "none" ELSE j
        /\ lock' = IF Held(t) THEN Tail(lock) ELSE lock
    BY LeaveFacts
  <1>2. JobOK(t)
    BY DEF Inv, LocalOK
  <1>3. JobOK(t)'
    BY <1>1, <1>2 DEF JobOK, JobAt, Working, Inner, Configuring, Refreshing, Withdrawing
  <1>4. After(t) \notin Working \cup {"next", "wait"}
    BY <1>1 DEF Working, Inner
  <1>5. LocalOK(t)'
    BY <1>1, <1>3, <1>4 DEF LocalOK, Working, Inner, Configuring, Refreshing
  <1>6. CASE Held(t)
    BY <1>1, <1>4, <1>5, <1>6, PassesOK
  <1>7. CASE ~Held(t)
    <2>1. ~Queued(t)
      BY <1>7, Behind
    <2>2. ~Deleting(t)'
      BY <1>1, <1>4 DEF Deleting, Working
    <2> QED
      BY <1>1, <1>5, <1>7, <2>1, <2>2, GoOK, TurnOK
  <1> QED
    BY <1>6, <1>7

\* Where steps outside the lock lead.
LEMMA OutwardFacts ==
  ASSUME Inv, NEW t \in Proc, NEW j \in Job \cup {"sync", "none"},
         NEW p \in Awaiting \cup Elsewhere, Outward(t, j, p, lock)
  PROVE  /\ pc' \in [Proc -> Awaiting \cup Elsewhere]
         /\ job' \in [Proc -> Job \cup {"sync", "none"}]
         /\ lock' \in Seq(Proc) /\ running' \in SUBSET Proc
         /\ lock' = IF p = "wait" THEN Append(lock, t) ELSE lock
         /\ pc'[t] = p /\ job'[t] = IF p = "idle" THEN "none" ELSE j
         /\ \A u \in Proc \ {t} : pc'[u] = pc[u] /\ job'[u] = job[u]
  <1>1. ControlOK
    BY DEF Inv
  <1> QED
    BY <1>1 DEF ControlOK, Outward

\* t goes on outside the lock, or lines up for it.
LEMMA OutsideOK ==
  ASSUME Inv, NEW t \in Proc, Turn(t), pc[t] \notin Working \cup {"wait"},
         NEW j \in Job \cup {"sync"},
         NEW p \in Elsewhere \ {"stop", "drop", "next"}, Outward(t, j, p, lock),
         j = "sync" => t = Sync, t = Sync => j \in {"sync", "disable"},
         JobAt(j, p), StoresOK', ControlOK', Others(t),
         p = "wait" /\ j \notin Withdrawing => api'[t] \in Api
  PROVE  Inv'
  <1>1. /\ lock' = IF p = "wait" THEN Append(lock, t) ELSE lock
        /\ pc'[t] = p /\ job'[t] = IF p = "idle" THEN "none" ELSE j
    BY OutwardFacts
  <1>2. p \notin Working
    BY DEF Working, Inner, Elsewhere
  <1>3. JobOK(t)'
    BY <1>1 DEF JobOK, JobAt, Working, Inner, Configuring, Refreshing
  <1>4. LocalOK(t)'
    BY <1>1, <1>2, <1>3 DEF LocalOK, Working, Inner, Configuring, Refreshing
  <1>5. ~Queued(t)
    BY Behind
  <1>6. CASE p = "wait"
    BY <1>1, <1>4, <1>5, <1>6, QueuesOK
  <1>7. CASE p # "wait"
    <2>1. ~Deleting(t)'
      BY <1>1, <1>2 DEF Deleting, Working
    <2> QED
      BY <1>1, <1>4, <1>5, <1>7, <2>1, GoOK, TurnOK
  <1> QED
    BY <1>6, <1>7

\* The use case returns, or raises an exception.
LEMMA EndOK ==
  ASSUME Inv, NEW t \in Proc, Turn(t), Held(t) \/ Deleting(t),
         Return(t) \/ Fail(t), StoresOK'
  PROVE  Inv'
  <1>1. job[t] \in Job \cup {"sync", "none"} /\ "disable" \in Job
    BY DEF Inv, ControlOK, Job
  <1>2. CASE Return(t)
    BY <1>1, <1>2, LeaveOK DEF Return
  <1>3. CASE Fail(t)
    <2>1. CASE job[t] = "leave"
      <3>1. Leave(t, "disable")
        BY <1>3, <2>1 DEF Fail
      <3> QED
        BY <1>1, <2>1, <3>1, LeaveOK
    <2>2. CASE job[t] # "leave"
      <3>1. Leave(t, job[t])
        BY <1>3, <2>2 DEF Fail
      <3> QED
        BY <1>1, <3>1, LeaveOK
    <2> QED
      BY <2>1, <2>2
  <1> QED
    BY <1>2, <1>3

\* The stores after a step that is no use case of the credentials.
LEMMA Stores ==
  ASSUME Inv, UNCHANGED <<account, cred, crashes>>, recent' \in [Api -> BOOLEAN],
         apps' \subseteq AccessApp, UNCHANGED lost \/ Lose,
         \/ UNCHANGED pub
         \/ \E a \in Api, r \in Publication \cup {NoRecord} : Put(a, r)
  PROVE  StoresOK'
  <1>1. lost' \in 0 .. MaxLost
    BY ConstantsAssumption DEF Inv, StoresOK, Lose
  <1>2. pub' \in [Api -> Publication \cup {NoRecord}]
    BY DEF Inv, StoresOK, Put
  <1> QED
    BY <1>1, <1>2 DEF Inv, StoresOK

\* What is known where a registration is worked on.
LEMMA Here ==
  ASSUME Inv, NEW t \in Proc, pc[t] \in Working \ {"stop"}
  PROVE  /\ api[t] \in Api
         /\ pc[t] \notin {"choose", "drop"} => mine[t][api[t]] \in Publication
         /\ mine[t][api[t]] \in Publication \cup {NoRecord}
         /\ pc[t] \in {"choose"} \cup Configuring \cup Refreshing =>
               grant[t] \in Credential /\ grant[t].token \in Token /\ grant[t].owner \in Owner
         /\ JobAt(job[t], pc[t])
         /\ pc[t] \in Inner => Held(t)
         /\ pc[t] \in {"remote", "drop"} => Held(t) \/ Deleting(t)
  <1>1. LocalOK(t) /\ ControlOK
    BY DEF Inv
  <1>2. pc[t] \in Working \ {"stop", "choose", "drop"} => mine[t][api[t]] \in Publication
    BY <1>1 DEF LocalOK
  <1>3. api[t] \in Api
    BY <1>1 DEF LocalOK
  <1>4. mine[t][api[t]] \in Publication \cup {NoRecord}
    BY <1>1, <1>3 DEF ControlOK
  <1>5. pc[t] \in {"choose"} \cup Configuring \cup Refreshing =>
               grant[t] \in Credential /\ grant[t].token \in Token /\ grant[t].owner \in Owner
    BY <1>1 DEF LocalOK, Credential
  <1>6. pc[t] \in Inner => Held(t)
    BY <1>1 DEF LocalOK
  <1>7. pc[t] \in {"remote", "drop"} => Held(t) \/ Deleting(t)
    BY <1>1 DEF LocalOK, Deleting
  <1> QED
    BY <1>1, <1>2, <1>3, <1>4, <1>5, <1>6, <1>7 DEF LocalOK, JobOK

\* Nothing is granted anew.
LEMMA NoGrant ==
  ASSUME Inv, UNCHANGED grant, NEW t \in Proc
  PROVE  Granting(t) /\ grant'[t] = grant[t]
  BY DEF Granting, Inv, ControlOK

\* The credentials are read.
LEMMA Grant ==
  ASSUME Inv, NEW t \in Proc, Granted \/ (cred # NoRecord /\ cred.is = "ready"),
         grant' = [grant EXCEPT ![t] = cred]
  PROVE  /\ Granting(t) /\ grant'[t] = cred
         /\ cred \in Credential /\ cred.token \in Token /\ cred.owner \in Owner
  <1>1. cred \in Credential /\ cred.token \in Token
    BY DEF Granted, Inv, StoresOK
  <1> QED
    BY <1>1 DEF Granting, Inv, ControlOK, Credential

-----------------------------------------------------------------------------
(***************************************************************************)
(* Every step keeps the invariant.                                         *)
(***************************************************************************)

\* The configuration begins.
LEMMA BeginOK ==
  ASSUME Inv, NEW t \in Proc, Held(t), Turn(t), api[t] \in Api,
         NEW r \in Publication, Begin(t, r),
         job[t] \in {"register", "publish", "sync"},
         UNCHANGED <<account, cred, apps, lost, crashes, todo>>,
         recent' \in [Api -> BOOLEAN],
         Granting(t), grant'[t] \in Credential /\ grant'[t].token \in Token
  PROVE  Inv'
  <1>1. Begun(r) \in Publication
    BY Edits
  <1>2. Put(api[t], Begun(r)) /\ Goto(t, "check", Begun(r))
    BY DEF Begin
  <1>3. StoresOK'
    <2>1. apps' \subseteq AccessApp
      BY DEF Inv, StoresOK
    <2>2. \E a \in Api, q \in Publication \cup {NoRecord} : Put(a, q)
      BY <1>1, <1>2
    <2> QED
      BY <2>1, <2>2, Stores
  <1>4. JobAt(job[t], "check")
    BY DEF JobAt, Configuring, Refreshing
  <1> QED
    BY <1>1, <1>2, <1>3, <1>4, WorkOK DEF Working, Inner

\* The listener is found under the lock and the state saved, or the failure.
LEMMA ConfigureCheckedOK ==
  ASSUME Inv, NEW t \in Proc, Turn(t), NEW ok \in BOOLEAN, ConfigureChecked(t, ok)
  PROVE  Inv'
  <1> DEFINE a == api[t]
             r == [mine[t][a] EXCEPT !.state = "configuring"]
             e == [mine[t][a] EXCEPT !.state = "error"]
  <1>1. pc[t] = "check"
    BY DEF ConfigureChecked
  <1>2. /\ a \in Api /\ mine[t][a] \in Publication /\ Held(t) /\ JobAt(job[t], "check")
        /\ grant[t] \in Credential /\ grant[t].token \in Token
    BY <1>1, Here DEF Working, Inner, Configuring
  <1>3. r \in Publication /\ e \in Publication
    BY <1>2, Edits DEF PublicationState
  <1>4. recent' \in [Api -> BOOLEAN] /\ apps' \subseteq AccessApp
    BY DEF ConfigureChecked, Inv, StoresOK
  <1>5. UNCHANGED <<account, cred, lost, crashes>>
    BY DEF ConfigureChecked
  <1>6. CASE /\ Savable(a, r) /\ SavePublication(a, r) /\ Goto(t, "app", r)
             /\ UNCHANGED <<grant, todo>>
    <2>1. pub[a] \in Publication
      BY <1>2, <1>6 DEF Savable, Inv, StoresOK
    <2>2. [pub[a] EXCEPT !.state = r.state, !.desired = r.desired] \in Publication
      BY <1>3, <2>1, Merged
    <2>3. \E b \in Api, q \in Publication \cup {NoRecord} : Put(b, q)
      BY <1>2, <1>6, <2>2 DEF SavePublication
    <2>4. StoresOK'
      BY <1>4, <1>5, <2>3, Stores
    <2>5. JobAt(job[t], "app")
      BY <1>2 DEF JobAt, Configuring, Refreshing
    <2> QED
      BY <1>2, <1>3, <1>6, <2>4, <2>5, NoGrant, WorkOK DEF Working, Inner
  <1>7. CASE Broken(t, mine[t][a])
    <2>1. \E b \in Api, q \in Publication \cup {NoRecord} : Put(b, q)
      BY <1>2, <1>3, <1>7 DEF Broken
    <2>2. StoresOK'
      BY <1>4, <1>5, <2>1, Stores
    <2> QED
      BY <1>2, <1>7, <2>2, EndOK DEF Broken
  <1> QED
    BY <1>6, <1>7 DEF ConfigureChecked

\* What a configuration leaves at Cloudflare.
LEMMA ConfiguredOK ==
  ASSUME Inv, NEW t \in Proc, pc[t] = "app", NEW x \in Configured(t)
  PROVE  x \in AccessApp /\ x.name = api[t] /\ x.owner = grant[t].owner
  <1>1. api[t] \in Api /\ grant[t].token \in Token /\ grant[t].owner \in Owner
    BY Here DEF Working, Inner, Configuring
  <1>2. PICK i \in IF Existing(mine[t][api[t]], api[t]) = {} THEN NewAppIds
                   ELSE {y.id : y \in Existing(mine[t][api[t]], api[t])} :
          x = [id |-> i, name |-> api[t], owner |-> grant[t].owner, token |-> grant[t].token]
    BY DEF Configured
  <1>3. NewAppIds \subseteq AppId
    BY DEF NewAppIds
  <1>4. Existing(mine[t][api[t]], api[t]) \subseteq AccessApp
    BY DEF Existing, Named, Known, Inv, StoresOK
  <1>5. i \in AppId
    BY <1>2, <1>3, <1>4 DEF AccessApp
  <1> QED
    BY <1>1, <1>2, <1>5 DEF AccessApp

\* The application is configured at Cloudflare, under the lock.
LEMMA ConfigureAppOK ==
  ASSUME Inv, NEW t \in Proc, Turn(t), NEW told \in BOOLEAN, ConfigureApp(t, told)
  PROVE  Inv'
  <1> DEFINE r == mine[t][api[t]]
  <1>1. pc[t] = "app"
    BY DEF ConfigureApp
  <1>2. /\ api[t] \in Api /\ r \in Publication /\ Held(t) /\ JobAt(job[t], "app")
        /\ grant[t] \in Credential /\ grant[t].token \in Token
    BY <1>1, Here DEF Working, Inner, Configuring
  <1>3. PICK x \in Configured(t) :
          /\ apps' = {y \in apps : y.id # x.id} \cup {x}
          /\ \/ /\ Goto(t, "validate", [r EXCEPT !.app = x.id])
                /\ UNCHANGED <<pub, grant, todo, lost>>
             \/ Lose /\ Broken(t, r)
    BY DEF ConfigureApp
  <1>4. x \in AccessApp
    BY <1>1, <1>3, ConfiguredOK
  <1>5. recent' \in [Api -> BOOLEAN] /\ apps' \subseteq AccessApp
    BY <1>3, <1>4 DEF ConfigureApp, Inv, StoresOK
  <1>6. UNCHANGED <<account, cred, crashes>>
    BY DEF ConfigureApp
  <1>7. CASE Goto(t, "validate", [r EXCEPT !.app = x.id]) /\ UNCHANGED <<pub, grant, todo, lost>>
    <2>1. [r EXCEPT !.app = x.id] \in Publication
      BY <1>2, <1>4, Edits DEF AccessApp
    <2>2. StoresOK'
      BY <1>5, <1>6, <1>7, Stores
    <2>3. JobAt(job[t], "validate")
      BY <1>2 DEF JobAt, Configuring, Refreshing
    <2> QED
      BY <1>2, <1>7, <2>1, <2>2, <2>3, NoGrant, WorkOK DEF Working, Inner
  <1>8. CASE Lose /\ Broken(t, r)
    <2>1. [r EXCEPT !.state = "error"] \in Publication
      BY <1>2, Edits DEF PublicationState
    <2>2. \E b \in Api, q \in Publication \cup {NoRecord} : Put(b, q)
      BY <1>2, <1>8, <2>1 DEF Broken
    <2>3. StoresOK'
      BY <1>5, <1>6, <1>8, <2>2, Stores
    <2> QED
      BY <1>2, <1>8, <2>3, EndOK DEF Broken
  <1> QED
    BY <1>3, <1>7, <1>8

\* The last check ends a configuration.
LEMMA ConfigureDoneOK ==
  ASSUME Inv, NEW t \in Proc, Turn(t), NEW ok \in BOOLEAN, ConfigureDone(t, ok)
  PROVE  Inv'
  <1>1. pc[t] = "validate"
    BY DEF ConfigureDone
  <1>2. api[t] \in Api /\ mine[t][api[t]] \in Publication /\ Held(t)
    BY <1>1, Here DEF Working, Inner
  <1>3. PICK s \in PublicationState : Put(api[t], [mine[t][api[t]] EXCEPT !.state = s])
    BY DEF ConfigureDone, PublicationState
  <1>4. \E b \in Api, q \in Publication \cup {NoRecord} : Put(b, q)
    BY <1>2, <1>3, Edits
  <1>5. recent' \in [Api -> BOOLEAN] /\ apps' \subseteq AccessApp
    BY <1>2 DEF ConfigureDone, Inv, StoresOK
  <1>6. StoresOK'
    BY <1>4, <1>5, Stores DEF ConfigureDone
  <1> QED
    BY <1>2, <1>6, EndOK DEF ConfigureDone

\* At the head of the lock's queue.
LEMMA Entered ==
  ASSUME Inv, NEW t \in Proc, NEW J, Enter(t, J)
  PROVE  /\ Held(t) /\ pc[t] = "wait" /\ job[t] \in J
         /\ job[t] \notin Withdrawing => api[t] \in Api
            /\ pub[api[t]] \in Publication \cup {NoRecord}
         /\ job[t] = "sync" => t = Sync
  <1>1. LocalOK(t)
    BY DEF Inv
  <1> QED
    BY <1>1 DEF Enter, LocalOK, JobOK, Inv, StoresOK

\* A registration takes the lock.
LEMMA RegisterEnterOK ==
  ASSUME Inv, NEW t \in Proc, Turn(t), RegisterEnter(t)
  PROVE  Inv'
  <1>1. Enter(t, {"register"}) /\ UNCHANGED <<account, cred, pub, recent, apps, lost, crashes>>
    BY DEF RegisterEnter
  <1>2. /\ Held(t) /\ job[t] = "register" /\ api[t] \in Api
        /\ pub[api[t]] \in Publication \cup {NoRecord}
    BY <1>1, Entered DEF Withdrawing
  <1>3. StoresOK'
    BY <1>1 DEF Inv, StoresOK
  <1>4. CASE Fail(t)
    BY <1>2, <1>3, <1>4, EndOK
  <1>5. CASE /\ Granted /\ Goto(t, "choose", pub[api[t]])
             /\ grant' = [grant EXCEPT ![t] = cred] /\ UNCHANGED todo
    <2>1. Granting(t) /\ grant'[t] \in Credential /\ grant'[t].token \in Token
      BY <1>5, Grant
    <2>2. JobAt(job[t], "choose")
      BY <1>2 DEF JobAt, Configuring, Refreshing
    <2> QED
      BY <1>2, <1>3, <1>5, <2>1, <2>2, WorkOK DEF Working, Inner, Withdrawing
  <1> QED
    BY <1>4, <1>5 DEF RegisterEnter

\* The candidate becomes a record.
LEMMA RegisterChosenOK ==
  ASSUME Inv, NEW t \in Proc, Turn(t), NEW ok \in BOOLEAN, RegisterChosen(t, ok)
  PROVE  Inv'
  <1> DEFINE old == mine[t][api[t]]
             r == [owner |-> grant[t].owner, state |-> "checking", desired |-> "published",
                   clean |-> FALSE, app |-> IF old = NoRecord THEN NoApp ELSE old.app]
  <1>1. pc[t] = "choose" /\ UNCHANGED <<account, cred, apps, lost, crashes>>
    BY DEF RegisterChosen
  <1>2. /\ api[t] \in Api /\ old \in Publication \cup {NoRecord} /\ Held(t)
        /\ grant[t] \in Credential /\ grant[t].token \in Token /\ grant[t].owner \in Owner
    BY <1>1, Here DEF Working, Inner
  <1>3. job[t] = "register"
    BY <1>1, Here DEF Working, Inner, JobAt
  <1>4. CASE Begin(t, r) /\ recent' = [recent EXCEPT ![api[t]] = FALSE] /\ UNCHANGED <<grant, todo>>
    <2>1. old = NoRecord \/ old.app \in AppId \cup {NoApp}
      BY <1>2 DEF Publication
    <2>2. r \in Publication
      BY <1>2, <2>1 DEF Publication, PublicationState
    <2>3. recent' \in [Api -> BOOLEAN]
      BY <1>4 DEF Inv, StoresOK
    <2> QED
      BY <1>1, <1>2, <1>3, <1>4, <2>2, <2>3, NoGrant, BeginOK
  <1>5. CASE Fail(t) /\ UNCHANGED <<pub, recent>>
    <2>1. StoresOK'
      BY <1>1, <1>5 DEF Inv, StoresOK
    <2> QED
      BY <1>2, <1>5, <2>1, EndOK
  <1> QED
    BY <1>4, <1>5 DEF RegisterChosen

\* A publication takes the lock.
LEMMA PublishEnterOK ==
  ASSUME Inv, NEW t \in Proc, Turn(t), PublishEnter(t)
  PROVE  Inv'
  <1>1. Enter(t, {"publish"}) /\ UNCHANGED <<account, cred, recent, apps, lost, crashes>>
    BY DEF PublishEnter
  <1>2. /\ Held(t) /\ job[t] = "publish" /\ api[t] \in Api
        /\ pub[api[t]] \in Publication \cup {NoRecord}
    BY <1>1, Entered DEF Withdrawing
  <1>3. CASE /\ Mine(api[t]) /\ Granted /\ Begin(t, pub[api[t]])
             /\ grant' = [grant EXCEPT ![t] = cred] /\ UNCHANGED todo
    <2>1. Granting(t) /\ grant'[t] \in Credential /\ grant'[t].token \in Token
      BY <1>3, Grant
    <2>2. pub[api[t]] \in Publication
      BY <1>2, <1>3 DEF Mine
    <2>3. recent' \in [Api -> BOOLEAN]
      BY <1>1 DEF Inv, StoresOK
    <2> QED
      BY <1>1, <1>2, <1>3, <2>1, <2>2, <2>3, BeginOK
  <1>4. CASE Fail(t) /\ UNCHANGED pub
    <2>1. StoresOK'
      BY <1>1, <1>4 DEF Inv, StoresOK
    <2> QED
      BY <1>2, <1>4, <2>1, EndOK
  <1> QED
    BY <1>3, <1>4 DEF PublishEnter

\* A removal begins.
LEMMA RemovalOK ==
  ASSUME Inv, NEW t \in Proc, Turn(t), Held(t), api[t] \in Api,
         job[t] \in {"unpublish", "remove", "sync"}, NEW r \in Publication, Removal(t, r), StoresOK'
  PROVE  Inv'
  <1>1. CASE Goto(t, "remote", r) /\ UNCHANGED <<grant, todo>>
    <2>1. JobAt(job[t], "remote")
      BY DEF JobAt, Configuring, Refreshing
    <2> QED
      BY <1>1, <2>1, NoGrant, WorkOK DEF Working, Inner, Withdrawing, Configuring, Refreshing
  <1>2. CASE job[t] \in {"remove", "sync"} /\ Goto(t, "drop", r) /\ UNCHANGED <<grant, todo>>
    <2>1. JobAt(job[t], "drop")
      BY <1>2 DEF JobAt, Configuring, Refreshing
    <2> QED
      BY <1>2, <2>1, NoGrant, WorkOK DEF Working, Inner, Withdrawing, Configuring, Refreshing
  <1>3. CASE Return(t)
    BY <1>3, EndOK
  <1> QED
    BY <1>1, <1>2, <1>3 DEF Removal

\* A stop or a deletion of one API takes the lock.
LEMMA StopEnterOK ==
  ASSUME Inv, NEW t \in Proc, Turn(t), StopEnter(t)
  PROVE  Inv'
  <1> DEFINE r == Stopped(pub[api[t]], IF job[t] = "remove" THEN "deleted" ELSE "unpublished")
  <1>1. /\ Enter(t, {"unpublish", "remove"})
        /\ UNCHANGED <<account, cred, recent, apps, lost, crashes>>
    BY DEF StopEnter
  <1>2. /\ Held(t) /\ job[t] \in {"unpublish", "remove"}
        /\ api[t] \in Api /\ pub[api[t]] \in Publication \cup {NoRecord}
    BY <1>1, Entered DEF Withdrawing
  <1>3. CASE Mine(api[t]) /\ Put(api[t], r) /\ Removal(t, r)
    <2>1. r \in Publication
      BY <1>2, <1>3, Edits DEF Mine
    <2>2. \E b \in Api, q \in Publication \cup {NoRecord} : Put(b, q)
      BY <1>2, <1>3, <2>1
    <2>3. recent' \in [Api -> BOOLEAN] /\ apps' \subseteq AccessApp
      BY <1>1 DEF Inv, StoresOK
    <2>4. StoresOK'
      BY <1>1, <2>2, <2>3, Stores
    <2> QED
      BY <1>2, <1>3, <2>1, <2>4, RemovalOK
  <1>4. CASE Fail(t) /\ UNCHANGED pub
    <2>1. StoresOK'
      BY <1>1, <1>4 DEF Inv, StoresOK
    <2> QED
      BY <1>2, <1>4, <2>1, EndOK
  <1> QED
    BY <1>3, <1>4 DEF StopEnter

\* A deletion goes on, outside the lock.
LEMMA AloneOK ==
  ASSUME Inv, NEW t \in Proc, Turn(t), Deleting(t), NEW p \in {"remote", "drop", "next"},
         NEW r \in Publication \cup {NoRecord}, Goto(t, p, r), api[t] \in Api,
         UNCHANGED <<grant, todo>>, p = "remote" => r \in Publication, StoresOK'
  PROVE  Inv'
  <1>1. p \in Awaiting \cup Elsewhere
    BY DEF Awaiting, Elsewhere
  <1>2. /\ ControlOK' /\ Others(t) /\ lock' = lock
        /\ pc'[t] = p /\ job'[t] = job[t] /\ api'[t] = api[t] /\ todo'[t] = todo[t]
    BY <1>1, NoGrant, GotoFacts
  <1>3. mine'[t][api[t]] = r
    <2>1. mine'[t] = [mine[t] EXCEPT ![api[t]] = r]
      BY <1>1, NoGrant, GotoFacts
    <2> QED
      BY <2>1 DEF Inv, ControlOK
  <1>4. job[t] = "leave" /\ ~Held(t) /\ ~Held(t)'
    BY <1>2 DEF Deleting, Held
  <1>5. JobOK(t)'
    BY <1>2, <1>4 DEF JobOK, JobAt, Inv, LocalOK, Configuring, Refreshing
  <1>6. p = "drop" => running' = {t}
    BY DEF Goto, Awaiting
  <1>7. LocalOK(t)'
    BY <1>2, <1>3, <1>4, <1>5, <1>6 DEF LocalOK, Working, Inner, Configuring, Refreshing,
       Withdrawing
  <1>8. ~Queued(t)
    BY Behind
  <1> QED
    BY <1>2, <1>7, <1>8, GoOK, TurnOK

\* The application is removed, by the holder of the lock or by a deletion of records.
LEMMA RemoveRemoteOK ==
  ASSUME Inv, NEW t \in Proc, Turn(t), NEW told \in BOOLEAN, RemoveRemote(t, told)
  PROVE  Inv'
  <1> DEFINE r == [mine[t][api[t]] EXCEPT !.app = NoApp, !.clean = TRUE]
             p == AfterRemoval(t)
  <1>1. pc[t] = "remote" /\ UNCHANGED <<account, cred, recent, crashes>> /\ apps' = apps \ Doomed(t)
    BY DEF RemoveRemote
  <1>2. /\ api[t] \in Api /\ mine[t][api[t]] \in Publication /\ JobAt(job[t], "remote")
        /\ Held(t) \/ Deleting(t)
    BY <1>1, Here DEF Working, Inner
  <1>3. r \in Publication
    BY <1>2, Edits
  <1>4. recent' \in [Api -> BOOLEAN] /\ apps' \subseteq AccessApp
    BY <1>1 DEF Inv, StoresOK
  <1>5. CASE Put(api[t], r) /\ UNCHANGED lost
              /\ ((p # "over" /\ Goto(t, p, r) /\ UNCHANGED <<grant, todo>>) \/ Return(t))
    <2>1. \E b \in Api, q \in Publication \cup {NoRecord} : Put(b, q)
      BY <1>2, <1>3, <1>5
    <2>2. StoresOK'
      BY <1>1, <1>4, <1>5, <2>1, Stores
    <2>3. CASE Return(t)
      BY <1>2, <2>2, <2>3, EndOK
    <2>4. CASE p # "over" /\ Goto(t, p, r) /\ UNCHANGED <<grant, todo>>
      <3>1. CASE Held(t)
        <4>1. /\ p \in {"stop", "drop"} /\ (p = "stop" => job[t] \in Withdrawing)
              /\ p = "drop" => job[t] \in {"remove", "sync"}
          BY <2>4, <3>1 DEF AfterRemoval, Withdrawing
        <4>2. JobAt(job[t], p)
          BY <4>1 DEF JobAt, Withdrawing, Configuring, Refreshing
        <4>3. p = "stop" => \A a \in todo[t] : mine[t][a] \in Publication
          BY <1>1, <3>1, <4>1 DEF Inv, LocalOK
        <4>4. p \in Working /\ p \notin {"choose", "remote"} \cup Configuring \cup Refreshing
          BY <4>1 DEF Working, Inner, Configuring, Refreshing
        <4> HIDE DEF p, r
        <4> QED
          BY <1>2, <1>3, <2>2, <2>4, <3>1, <4>1, <4>2, <4>3, <4>4, NoGrant, WorkOK
      <3>2. CASE ~Held(t)
        <4>1. Deleting(t) /\ p = "drop"
          BY <1>2, <2>4, <3>2 DEF AfterRemoval, Deleting
        <4> HIDE DEF p, r
        <4> QED
          BY <1>2, <1>3, <2>2, <2>4, <4>1, AloneOK
      <3> QED
        BY <3>1, <3>2
    <2> QED
      BY <1>5, <2>3, <2>4
  <1>6. CASE Lose /\ Fail(t) /\ UNCHANGED pub
    <2>1. StoresOK'
      BY <1>1, <1>4, <1>6, Stores
    <2> QED
      BY <1>2, <1>6, <2>1, EndOK
  <1> QED
    BY <1>5, <1>6 DEF RemoveRemote

\* A failed call ends the use case.
LEMMA CloudflareFailsOK ==
  ASSUME Inv, NEW t \in Proc, Turn(t), CloudflareFails(t)
  PROVE  Inv'
  <1>1. UNCHANGED <<account, cred, recent, apps, lost, crashes>>
    BY DEF CloudflareFails
  <1>2. recent' \in [Api -> BOOLEAN] /\ apps' \subseteq AccessApp
    BY <1>1 DEF Inv, StoresOK
  <1>3. CASE pc[t] = "app" /\ Broken(t, mine[t][api[t]])
    <2>1. api[t] \in Api /\ mine[t][api[t]] \in Publication /\ Held(t)
      BY <1>3, Here DEF Working, Inner
    <2>2. [mine[t][api[t]] EXCEPT !.state = "error"] \in Publication
      BY <2>1, Edits DEF PublicationState
    <2>3. \E b \in Api, q \in Publication \cup {NoRecord} : Put(b, q)
      BY <1>3, <2>1, <2>2 DEF Broken
    <2>4. StoresOK'
      BY <1>1, <1>2, <2>3, Stores
    <2> QED
      BY <1>3, <2>1, <2>4, EndOK DEF Broken
  <1>4. CASE pc[t] = "remote" /\ Fail(t) /\ UNCHANGED pub
    <2>1. StoresOK'
      BY <1>1, <1>4 DEF Inv, StoresOK
    <2>2. Held(t) \/ Deleting(t)
      BY <1>4, Here DEF Working, Inner
    <2> QED
      BY <1>4, <2>1, <2>2, EndOK
  <1> QED
    BY <1>3, <1>4 DEF CloudflareFails

\* The record is deleted, by the holder of the lock or by a deletion of records.
LEMMA DropOK ==
  ASSUME Inv, NEW t \in Proc, Turn(t), Drop(t)
  PROVE  Inv'
  <1>1. /\ pc[t] = "drop" /\ Put(api[t], NoRecord)
        /\ UNCHANGED <<account, cred, recent, apps, lost, crashes>>
    BY DEF Drop
  <1>2. api[t] \in Api /\ (Held(t) \/ Deleting(t))
    BY <1>1, Here DEF Working, Inner
  <1>3. \E b \in Api, q \in Publication \cup {NoRecord} : Put(b, q)
    BY <1>1, <1>2
  <1>4. recent' \in [Api -> BOOLEAN] /\ apps' \subseteq AccessApp
    BY <1>1 DEF Inv, StoresOK
  <1>5. StoresOK'
    BY <1>1, <1>3, <1>4, Stores
  <1>6. CASE Deleting(t)
    <2>1. Goto(t, "next", NoRecord) /\ UNCHANGED <<grant, todo>>
      BY <1>6 DEF Drop
    <2> QED
      BY <1>2, <1>5, <1>6, <2>1, AloneOK
  <1>7. CASE ~Deleting(t)
    BY <1>2, <1>5, <1>7, EndOK DEF Drop
  <1> QED
    BY <1>6, <1>7

\* The use case ends when it has saved the record r of its API.
LEMMA SavedEndOK ==
  ASSUME Inv, NEW t \in Proc, Turn(t), Held(t), api[t] \in Api, NEW r \in Publication,
         Put(api[t], r), Return(t) \/ Fail(t),
         UNCHANGED <<account, cred, recent, apps, lost, crashes>>
  PROVE  Inv'
  <1>1. \E b \in Api, q \in Publication \cup {NoRecord} : Put(b, q)
    OBVIOUS
  <1>2. recent' \in [Api -> BOOLEAN] /\ apps' \subseteq AccessApp
    BY DEF Inv, StoresOK
  <1>3. StoresOK'
    BY <1>1, <1>2, Stores
  <1> QED
    BY <1>3, EndOK

\* And when it has saved nothing.
LEMMA UnsavedEndOK ==
  ASSUME Inv, NEW t \in Proc, Turn(t), Held(t) \/ Deleting(t), Return(t) \/ Fail(t),
         UNCHANGED <<account, cred, pub, recent, apps, lost, crashes>>
  PROVE  Inv'
  <1>1. StoresOK'
    BY DEF Inv, StoresOK
  <1> QED
    BY <1>1, EndOK

\* A refresh takes the lock and reads the registration again.
LEMMA RefreshEnterOK ==
  ASSUME Inv, NEW t \in Proc, Turn(t), RefreshEnter(t)
  PROVE  Inv'
  <1> DEFINE a == api[t]
             r == pub[a]
  <1>1. Enter(t, {"sync"}) /\ UNCHANGED <<account, cred, recent, apps, lost, crashes>>
    BY DEF RefreshEnter
  <1>2. Held(t) /\ job[t] = "sync" /\ a \in Api /\ r \in Publication \cup {NoRecord}
    BY <1>1, Entered DEF Withdrawing
  <1>3. CASE Return(t) /\ UNCHANGED pub
    BY <1>1, <1>2, <1>3, UnsavedEndOK
  <1>4. CASE r # NoRecord /\ Removal(t, r) /\ UNCHANGED pub
    <2>1. StoresOK'
      BY <1>1, <1>4 DEF Inv, StoresOK
    <2> QED
      BY <1>2, <1>4, <2>1, RemovalOK
  <1>5. CASE /\ r # NoRecord /\ Return(t)
             /\ Put(a, [r EXCEPT !.state = "disabled"]) \/ Put(a, Stopped(r, "deleted"))
    <2>1. [r EXCEPT !.state = "disabled"] \in Publication /\ Stopped(r, "deleted") \in Publication
      BY <1>2, <1>5, Edits DEF PublicationState
    <2> QED
      BY <1>1, <1>2, <1>5, <2>1, SavedEndOK
  <1>6. CASE /\ r # NoRecord /\ cred # NoRecord /\ cred.is = "ready" /\ Goto(t, "f_validate", r)
             /\ grant' = [grant EXCEPT ![t] = cred] /\ UNCHANGED <<pub, todo>>
    <2>1. Granting(t) /\ grant'[t] \in Credential /\ grant'[t].token \in Token
      BY <1>6, Grant
    <2>2. JobAt(job[t], "f_validate")
      BY <1>2 DEF JobAt, Configuring, Refreshing
    <2>3. StoresOK'
      BY <1>1, <1>6 DEF Inv, StoresOK
    <2> QED
      BY <1>2, <1>6, <2>1, <2>2, <2>3, WorkOK DEF Working, Inner, Withdrawing
  <1> QED
    BY <1>3, <1>4, <1>5, <1>6 DEF RefreshEnter, Current

\* A refresh under way.
LEMMA Refreshed ==
  ASSUME Inv, NEW t \in Proc, pc[t] \in Refreshing
  PROVE  /\ api[t] \in Api /\ mine[t][api[t]] \in Publication /\ Held(t) /\ job[t] = "sync"
         /\ grant[t] \in Credential /\ grant[t].token \in Token
  <1>1. pc[t] \in Working /\ pc[t] \in Inner /\ pc[t] \notin {"stop", "choose", "drop"}
    BY DEF Refreshing, Working, Inner
  <1> QED
    BY <1>1, Here DEF JobAt

\* A refresh goes on after its first check.
LEMMA RefreshValidatedOK ==
  ASSUME Inv, NEW t \in Proc, Turn(t), NEW ok \in BOOLEAN, RefreshValidated(t, ok)
  PROVE  Inv'
  <1> DEFINE r == mine[t][api[t]]
  <1>1. pc[t] = "f_validate" /\ UNCHANGED <<account, cred, recent, apps, grant, todo, lost, crashes>>
    BY DEF RefreshValidated
  <1>2. /\ api[t] \in Api /\ r \in Publication /\ Held(t) /\ job[t] = "sync"
        /\ grant[t] \in Credential /\ grant[t].token \in Token
    BY <1>1, Refreshed DEF Refreshing
  <1>3. CASE (Goto(t, "f_restart", r) \/ Goto(t, "f_health", r)) /\ UNCHANGED pub
    <2>1. StoresOK'
      BY <1>1, <1>3 DEF Inv, StoresOK
    <2>2. PICK p \in {"f_restart", "f_health"} : Goto(t, p, r)
      BY <1>3
    <2>3. JobAt(job[t], p)
      BY <1>2 DEF JobAt, Configuring, Refreshing
    <2>4. p \in Working /\ p \notin {"choose", "drop", "stop", "remote"}
      BY DEF Working, Inner
    <2> QED
      BY <1>1, <1>2, <2>1, <2>2, <2>3, <2>4, NoGrant, WorkOK
  <1>4. CASE Begin(t, r)
    <2>1. recent' \in [Api -> BOOLEAN]
      BY <1>1 DEF Inv, StoresOK
    <2> QED
      BY <1>1, <1>2, <1>4, <2>1, NoGrant, BeginOK
  <1> QED
    BY <1>3, <1>4 DEF RefreshValidated

\* A refresh looks for a restarted listener.
LEMMA RefreshRestartedOK ==
  ASSUME Inv, NEW t \in Proc, Turn(t), NEW found \in BOOLEAN, RefreshRestarted(t, found)
  PROVE  Inv'
  <1> DEFINE r == mine[t][api[t]]
  <1>1. pc[t] = "f_restart" /\ UNCHANGED <<account, cred, recent, apps, lost, crashes>>
    BY DEF RefreshRestarted
  <1>2. /\ api[t] \in Api /\ r \in Publication /\ Held(t) /\ job[t] = "sync"
        /\ grant[t] \in Credential /\ grant[t].token \in Token
    BY <1>1, Refreshed DEF Refreshing
  <1>3. CASE Begin(t, r) /\ UNCHANGED <<grant, todo>>
    <2>1. recent' \in [Api -> BOOLEAN]
      BY <1>1 DEF Inv, StoresOK
    <2> QED
      BY <1>1, <1>2, <1>3, <2>1, NoGrant, BeginOK
  <1>4. CASE Put(api[t], [r EXCEPT !.state = "disconnected"]) /\ Return(t)
    <2>1. [r EXCEPT !.state = "disconnected"] \in Publication
      BY <1>2, Edits DEF PublicationState
    <2> QED
      BY <1>1, <1>2, <1>4, <2>1, SavedEndOK
  <1> QED
    BY <1>3, <1>4 DEF RefreshRestarted

\* A refresh ends with the health check.
LEMMA RefreshHealthOK ==
  ASSUME Inv, NEW t \in Proc, Turn(t), NEW ok \in BOOLEAN, RefreshHealth(t, ok)
  PROVE  Inv'
  <1>1. pc[t] = "f_health"
    BY DEF RefreshHealth
  <1>2. api[t] \in Api /\ mine[t][api[t]] \in Publication /\ Held(t)
    BY <1>1, Refreshed DEF Refreshing
  <1>3. PICK s \in PublicationState : Put(api[t], [mine[t][api[t]] EXCEPT !.state = s])
    BY DEF RefreshHealth, PublicationState
  <1>4. [mine[t][api[t]] EXCEPT !.state = s] \in Publication
    BY <1>2, <1>3, Edits
  <1> QED
    BY <1>2, <1>3, <1>4, SavedEndOK DEF RefreshHealth

\* A withdrawal takes the lock and copies all registrations.
LEMMA UnpublishEnterOK ==
  ASSUME Inv, NEW t \in Proc, Turn(t), UnpublishEnter(t)
  PROVE  Inv'
  <1>1. Enter(t, {"disable", "leave"})
    BY DEF UnpublishEnter
  <1>2. Held(t) /\ job[t] \in Withdrawing
    BY <1>1, Entered DEF Withdrawing
  <1>3. /\ pc' = [pc EXCEPT ![t] = "stop"] /\ mine' = [mine EXCEPT ![t] = pub]
        /\ todo' = [todo EXCEPT ![t] = Registered] /\ running' = {t}
        /\ UNCHANGED <<account, cred, pub, recent, apps, lock, job, api, grant, lost, crashes>>
    BY DEF UnpublishEnter
  <1>4. StoresOK'
    BY <1>3 DEF Inv, StoresOK
  <1>5. ControlOK'
    BY <1>3 DEF Inv, StoresOK, ControlOK, Registered, Elsewhere
  <1>6. Others(t) /\ pc'[t] = "stop" /\ mine'[t] = pub /\ todo'[t] = Registered /\ job'[t] = job[t]
    BY <1>3 DEF Inv, ControlOK, Others, Same
  <1>7. Held(t)' /\ ~Deleting(t)'
    BY <1>2, <1>3 DEF Held, Deleting
  <1>8. JobOK(t)'
    BY <1>2, <1>6 DEF JobOK, JobAt, Inv, LocalOK, Configuring, Refreshing
  <1>9. \A a \in Registered : pub[a] \in Publication
    BY DEF Registered, Inv, StoresOK
  <1>10. LocalOK(t)'
    BY <1>3, <1>6, <1>7, <1>8, <1>9 DEF LocalOK, Working, Inner, Configuring, Refreshing
  <1>11. "stop" \in Working
    BY DEF Working, Inner
  <1> QED
    BY <1>2, <1>3, <1>4, <1>5, <1>6, <1>7, <1>10, <1>11, GoOK, TurnOK

\* A withdrawal stops one API, goes to Cloudflare for one, or is done.
LEMMA UnpublishOK ==
  ASSUME Inv, NEW t \in Proc, Turn(t), Unpublish(t)
  PROVE  Inv'
  <1>1. pc[t] = "stop" /\ UNCHANGED <<account, cred, recent, apps, lost, crashes>>
    BY DEF Unpublish
  <1>2. /\ Held(t) /\ job[t] \in Withdrawing /\ running = {t} /\ todo[t] \subseteq Api
        /\ \A a \in todo[t] : mine[t][a] \in Publication
    BY <1>1 DEF Inv, ControlOK, LocalOK, JobOK, JobAt, Inner
  <1>3. {"stop", "remote"} \subseteq Working /\ Unstopped(t) \subseteq todo[t]
    BY DEF Working, Inner, Unstopped, Running
  <1>4. ASSUME NEW a \in Unstopped(t), Put(a, Stopped(mine[t][a], "unpublished")),
               mine' = [mine EXCEPT ![t] = [mine[t] EXCEPT ![a] = Stopped(mine[t][a], "unpublished")]],
               UNCHANGED <<lock, running, job, pc, api, grant, todo>>
        PROVE  Inv'
    <2> DEFINE r == Stopped(mine[t][a], "unpublished")
    <2>1. a \in Api /\ r \in Publication
      BY <1>2, <1>3, Edits
    <2>2. \E b \in Api, q \in Publication \cup {NoRecord} : Put(b, q)
      BY <1>4, <2>1
    <2>3. recent' \in [Api -> BOOLEAN] /\ apps' \subseteq AccessApp
      BY <1>1 DEF Inv, StoresOK
    <2>4. StoresOK'
      BY <1>1, <2>2, <2>3, Stores
    <2>5. mine[t] \in [Api -> Publication \cup {NoRecord}]
      BY DEF Inv, ControlOK
    <2> HIDE DEF r
    <2>6. [mine[t] EXCEPT ![a] = r] \in [Api -> Publication \cup {NoRecord}]
      BY <2>1, <2>5
    <2>7. mine' = [mine EXCEPT ![t] = [mine[t] EXCEPT ![a] = r]]
      BY <1>4 DEF r
    <2>8. ControlOK'
      BY <1>4, <2>6, <2>7 DEF Inv, ControlOK
    <2>9. Others(t)
      BY <1>4, <2>7 DEF Inv, ControlOK, Others, Same
    <2>10. mine'[t] = [mine[t] EXCEPT ![a] = r]
      BY <2>7 DEF Inv, ControlOK
    <2>11. \A b \in todo'[t] : mine'[t][b] \in Publication
      BY <1>2, <1>4, <2>1, <2>5, <2>10
    <2>12. Held(t)' /\ ~Deleting(t)'
      BY <1>2, <1>4 DEF Held, Deleting
    <2>13. LocalOK(t)'
      BY <1>1, <1>2, <1>4, <2>11, <2>12
      DEF Inv, LocalOK, JobOK, Working, Inner, Configuring, Refreshing
    <2>14. pc'[t] = "stop"
      BY <1>1, <1>4
    <2>15. \A u \in Proc \ {t} : pc[u] \in {"stop", "drop"} => running' = {u}
      BY TurnOK
    <2>16. "stop" \in Working
      BY <1>3
    <2> QED
      BY <1>2, <1>4, <2>4, <2>8, <2>9, <2>12, <2>13, <2>14, <2>15, <2>16, GoOK
  <1>5. CASE Return(t) /\ UNCHANGED pub
    BY <1>1, <1>2, <1>5, UnsavedEndOK
  <1>6. ASSUME NEW a \in todo[t], api' = [api EXCEPT ![t] = a], pc' = [pc EXCEPT ![t] = "remote"],
               running' = {}, UNCHANGED <<pub, lock, job, mine, grant, todo>>
        PROVE  Inv'
    <2>1. StoresOK'
      BY <1>1, <1>6 DEF Inv, StoresOK
    <2>2. ControlOK'
      BY <1>2, <1>6 DEF Inv, ControlOK, Awaiting
    <2>3. Others(t) /\ pc'[t] = "remote" /\ api'[t] = a /\ job'[t] = job[t] /\ mine'[t] = mine[t]
      BY <1>6 DEF Inv, ControlOK, Others, Same
    <2>4. Held(t)' /\ ~Deleting(t)'
      BY <1>2, <1>6 DEF Held, Deleting
    <2>5. JobOK(t)'
      BY <1>2, <2>3 DEF JobOK, JobAt, Inv, LocalOK, Configuring, Refreshing, Withdrawing
    <2>6. LocalOK(t)'
      BY <1>2, <1>6, <2>3, <2>4, <2>5 DEF LocalOK, Working, Inner, Configuring, Refreshing
    <2> QED
      BY <1>2, <1>3, <1>6, <2>1, <2>2, <2>3, <2>4, <2>6, GoOK, TurnOK
  <1> QED
    BY <1>4, <1>5, <1>6 DEF Unpublish

\* A step outside the lock that leaves the copies alone.
LEMMA WalkOK ==
  ASSUME Inv, NEW t \in Proc, Turn(t), pc[t] \notin Working \cup {"wait"},
         NEW j \in Job \cup {"sync"},
         NEW p \in Elsewhere \ {"stop", "drop", "next"}, Outward(t, j, p, lock),
         j = "sync" => t = Sync, t = Sync => j \in {"sync", "disable"},
         JobAt(j, p), StoresOK', UNCHANGED <<api, mine, grant>>,
         todo' \in [Proc -> SUBSET Api], \A u \in Proc \ {t} : todo'[u] = todo[u],
         p = "wait" => j \in Withdrawing
  PROVE  Inv'
  <1>1. j \in Job \cup {"sync", "none"} /\ p \in Awaiting \cup Elsewhere
    OBVIOUS
  <1>2. /\ pc' \in [Proc -> Awaiting \cup Elsewhere] /\ job' \in [Proc -> Job \cup {"sync", "none"}]
        /\ lock' \in Seq(Proc) /\ running' \in SUBSET Proc
        /\ \A u \in Proc \ {t} : pc'[u] = pc[u] /\ job'[u] = job[u]
    BY <1>1, OutwardFacts
  <1>3. ControlOK' /\ Others(t)
    BY <1>2 DEF Inv, ControlOK, Others, Same
  <1> QED
    BY <1>3, OutsideOK

\* What is known of a coroutine that has no lock to do with.
LEMMA Walking ==
  ASSUME Inv, NEW t \in Proc, pc[t] \in {"deny", "revoke", "userdel", "gone", "next"}
  PROVE  /\ job[t] \in Withdrawing /\ pc[t] \notin Working \cup {"wait"}
         /\ pc[t] \in {"userdel", "gone", "next"} => job[t] = "leave"
         /\ job[t] \in Job \cup {"sync"} /\ job[t] # "sync"
         /\ t = Sync => job[t] \in {"sync", "disable"}
  BY DEF Inv, LocalOK, JobOK, JobAt, Working, Inner, Withdrawing, Job

\* Places that a withdrawal leads to.
LEMMA WalkAt ==
  ASSUME NEW j \in Withdrawing
  PROVE  /\ JobAt(j, "wait") /\ JobAt(j, "idle") /\ JobAt(j, "deny")
         /\ j = "leave" => JobAt(j, "userdel") /\ JobAt(j, "gone") /\ JobAt(j, "next")
  BY DEF JobAt, Withdrawing, Configuring, Refreshing

\* The credentials are denied before the lock is waited for.
LEMMA DisableDenyOK ==
  ASSUME Inv, NEW t \in Proc, Turn(t), DisableDeny(t)
  PROVE  Inv'
  <1>1. /\ pc[t] = "deny"
        /\ UNCHANGED <<account, pub, recent, apps, api, mine, grant, todo, lost, crashes>>
    BY DEF DisableDeny
  <1>2. PICK p \in {"wait", "idle"} : Outward(t, job[t], p, lock)
    BY DEF DisableDeny
  <1>3. StoresOK'
    <2>1. /\ cred' \in Credential \cup {NoRecord}
          /\ cred' # NoRecord /\ cred'.is = "ready" => cred'.token \in Token
      <3>1. CASE cred # NoRecord /\ cred' = [cred EXCEPT !.is = "denied"]
        <4>1. cred \in Credential
          BY <3>1 DEF Inv, StoresOK
        <4> QED
          BY <3>1, <4>1 DEF Credential
      <3>2. CASE account # NoAccount /\ cred' = [owner |-> account, is |-> "denied", token |-> NoToken]
        BY <3>2 DEF Credential, Inv, StoresOK
      <3>3. CASE UNCHANGED cred
        BY <3>3 DEF Inv, StoresOK
      <3> QED
        BY <3>1, <3>2, <3>3 DEF DisableDeny
    <2> QED
      BY <1>1, <2>1 DEF Inv, StoresOK
  <1>4. /\ job[t] \in Withdrawing /\ pc[t] \notin Working \cup {"wait"}
        /\ job[t] \in Job \cup {"sync"} /\ job[t] # "sync"
        /\ t = Sync => job[t] \in {"sync", "disable"}
    BY <1>1, Walking
  <1>5. p \in Elsewhere \ {"stop", "drop", "next"}
    BY DEF Elsewhere
  <1>6. JobAt(job[t], p)
    BY <1>4, WalkAt
  <1>7. todo' \in [Proc -> SUBSET Api] /\ \A u \in Proc \ {t} : todo'[u] = todo[u]
    BY <1>1 DEF Inv, ControlOK
  <1> QED
    BY <1>1, <1>2, <1>3, <1>4, <1>5, <1>6, <1>7, WalkOK

\* The credentials are revoked after the lock is left.
LEMMA RevokeOK ==
  ASSUME Inv, NEW t \in Proc, Turn(t), NEW ok \in BOOLEAN, Revoke(t, ok)
  PROVE  Inv'
  <1>1. /\ pc[t] = "revoke"
        /\ UNCHANGED <<account, pub, recent, apps, api, mine, grant, todo, lost, crashes>>
    BY DEF Revoke
  <1>2. StoresOK'
    <2>1. /\ cred' \in Credential \cup {NoRecord}
          /\ cred' # NoRecord /\ cred'.is = "ready" => cred'.token \in Token
      <3>1. CASE UNCHANGED cred
        BY <3>1 DEF Inv, StoresOK
      <3>2. CASE cred # NoRecord /\ cred' # cred
        <4>1. cred \in Credential
          BY <3>2 DEF Inv, StoresOK
        <4>2. cred' = [cred EXCEPT !.is = "denied"] \/ cred' = [cred EXCEPT !.is = "disabled", !.token = NoToken]
          BY <3>2 DEF Revoke
        <4> QED
          BY <4>1, <4>2 DEF Credential
      <3> QED
        BY <3>1, <3>2 DEF Revoke
    <2> QED
      BY <1>1, <2>1 DEF Inv, StoresOK
  <1>3. /\ job[t] \in Withdrawing /\ pc[t] \notin Working \cup {"wait"}
        /\ job[t] \in Job \cup {"sync"} /\ job[t] # "sync"
        /\ t = Sync => job[t] \in {"sync", "disable"}
    BY <1>1, Walking
  <1>4. todo' \in [Proc -> SUBSET Api] /\ \A u \in Proc \ {t} : todo'[u] = todo[u]
    BY <1>1 DEF Inv, ControlOK
  <1>5. CASE UNCHANGED <<lock, running, job, pc>>
    <2>1. ControlOK' /\ Others(t) /\ LocalOK(t)' /\ pc'[t] = "revoke"
      BY <1>1, <1>5 DEF Inv, ControlOK, Others, Same, LocalOK, JobOK, JobAt, Held
    <2>2. ~Queued(t) /\ ~Deleting(t)'
      BY <1>1, <1>3, <2>1, Behind DEF Deleting
    <2> QED
      BY <1>2, <1>5, <2>1, <2>2, GoOK, TurnOK
  <1>6. ASSUME NEW p \in {"userdel", "idle"}, p = "userdel" => job[t] = "leave",
               Outward(t, job[t], p, lock)
        PROVE  Inv'
    <2>1. p \in Elsewhere \ {"stop", "drop", "next"}
      BY DEF Elsewhere
    <2>2. JobAt(job[t], p)
      BY <1>3, <1>6, WalkAt
    <2> QED
      BY <1>1, <1>2, <1>3, <1>4, <1>6, <2>1, <2>2, WalkOK
  <1> QED
    BY <1>5, <1>6 DEF Revoke

\* A coroutine goes on in a thread, while others run.
LEMMA DeleteLinuxUserOK ==
  ASSUME Inv, NEW t \in Proc, DeleteLinuxUser(t)
  PROVE  Inv'
  <1>1. /\ pc[t] = "userdel" /\ account' = NoAccount /\ pc' = [pc EXCEPT ![t] = "gone"]
        /\ UNCHANGED <<cred, pub, recent, apps, lock, running, job, api, mine, grant, todo, lost, crashes>>
    BY DEF DeleteLinuxUser
  <1>2. StoresOK' /\ ControlOK' /\ Others(t) /\ pc'[t] = "gone"
    BY <1>1 DEF Inv, StoresOK, ControlOK, Others, Same, Elsewhere
  <1>3. job[t] = "leave" /\ ~Queued(t) /\ ~Deleting(t)'
    BY <1>1, <1>2, Walking, Behind DEF Deleting
  <1>4. LocalOK(t)'
    BY <1>1, <1>2, <1>3
    DEF Inv, LocalOK, JobOK, JobAt, Working, Inner, Configuring, Refreshing, Withdrawing
  <1>5. \A u \in Proc : pc[u] \in {"stop", "drop"} => running' = {u}
    BY <1>1 DEF Inv, LocalOK
  <1> QED
    BY <1>1, <1>2, <1>3, <1>4, <1>5, GoOK

\* The deletion of records begins, without the lock.
LEMMA DeleteEnterOK ==
  ASSUME Inv, NEW t \in Proc, Turn(t), DeleteEnter(t)
  PROVE  Inv'
  <1>1. /\ pc[t] \in {"userdel", "gone"}
        /\ UNCHANGED <<account, cred, pub, recent, apps, api, mine, grant, lost, crashes>>
    BY DEF DeleteEnter
  <1>2. StoresOK'
    BY <1>1 DEF Inv, StoresOK
  <1>3. /\ job[t] = "leave" /\ job[t] \in Withdrawing /\ pc[t] \notin Working \cup {"wait"}
        /\ job[t] \in Job \cup {"sync"} /\ job[t] # "sync"
        /\ t = Sync => job[t] \in {"sync", "disable"}
    BY <1>1, Walking
  <1>4. CASE Outward(t, job[t], "idle", lock) /\ UNCHANGED todo
    <2>1. "idle" \in Elsewhere \ {"stop", "drop", "next"} /\ JobAt(job[t], "idle")
      BY <1>3, WalkAt DEF Elsewhere
    <2>2. todo' \in [Proc -> SUBSET Api] /\ \A u \in Proc \ {t} : todo'[u] = todo[u]
      BY <1>4 DEF Inv, ControlOK
    <2> QED
      BY <1>1, <1>2, <1>3, <1>4, <2>1, <2>2, WalkOK
  <1>5. CASE /\ CredentialsFree /\ Outward(t, job[t], "next", lock)
             /\ todo' = [todo EXCEPT ![t] = Registered]
    <2>1. "next" \in Awaiting \cup Elsewhere
      BY DEF Elsewhere
    <2>2. /\ pc' \in [Proc -> Awaiting \cup Elsewhere]
          /\ job' \in [Proc -> Job \cup {"sync", "none"}]
          /\ lock' = lock /\ running' \in SUBSET Proc /\ pc'[t] = "next" /\ job'[t] = "leave"
          /\ \A u \in Proc \ {t} : pc'[u] = pc[u] /\ job'[u] = job[u]
      <3>1. job[t] \in Job \cup {"sync", "none"}
        BY <1>3
      <3> QED
        BY <1>3, <1>5, <2>1, <3>1, OutwardFacts
    <2>3. ControlOK' /\ Others(t)
      BY <1>1, <1>5, <2>2 DEF Inv, ControlOK, Others, Same, Registered
    <2>4. LocalOK(t)'
      BY <1>3, <2>2
      DEF Inv, LocalOK, JobOK, JobAt, Working, Inner, Configuring, Refreshing, Withdrawing
    <2>5. ~Queued(t)
      BY <1>3, Behind
    <2> QED
      BY <1>2, <1>5, <2>2, <2>3, <2>4, <2>5, GoOK, TurnOK
  <1> QED
    BY <1>4, <1>5 DEF DeleteEnter

\* The deletion takes up one registration, or is done.
LEMMA DeleteNextOK ==
  ASSUME Inv, NEW t \in Proc, Turn(t), DeleteNext(t)
  PROVE  Inv'
  <1>1. pc[t] = "next" /\ UNCHANGED <<account, pub, recent, apps, lost, crashes>>
    BY DEF DeleteNext
  <1>2. Deleting(t) /\ job[t] = "leave" /\ ~Held(t) /\ ~Queued(t)
    BY <1>1, Behind DEF Deleting
  <1>3. CASE (Return(t) \/ Fail(t)) /\ (cred' = NoRecord \/ UNCHANGED cred)
    <2>1. StoresOK'
      BY <1>1, <1>3 DEF Inv, StoresOK
    <2> QED
      BY <1>2, <1>3, <2>1, EndOK
  <1>4. ASSUME NEW a \in todo[t], pub[a] # NoRecord, api' = [api EXCEPT ![t] = a],
               mine' = [mine EXCEPT ![t] = [mine[t] EXCEPT ![a] = pub[a]]],
               todo' = [todo EXCEPT ![t] = todo[t] \ {a}],
               pc' = [pc EXCEPT ![t] = IF Clean(pub[a]) THEN "drop" ELSE "remote"],
               running' = IF Clean(pub[a]) THEN {t} ELSE {},
               UNCHANGED <<cred, lock, job, grant>>
        PROVE  Inv'
    <2>1. StoresOK'
      BY <1>1, <1>4 DEF Inv, StoresOK
    <2>2. a \in Api /\ pub[a] \in Publication
      BY <1>4 DEF Inv, ControlOK, StoresOK
    <2>3. mine[t] \in [Api -> Publication \cup {NoRecord}]
      BY DEF Inv, ControlOK
    <2>4. [mine[t] EXCEPT ![a] = pub[a]] \in [Api -> Publication \cup {NoRecord}]
      BY <2>2, <2>3
    <2>5. mine' \in [Proc -> [Api -> Publication \cup {NoRecord}]]
          /\ mine'[t] = [mine[t] EXCEPT ![a] = pub[a]] /\ \A u \in Proc \ {t} : mine'[u] = mine[u]
      BY <1>4, <2>4 DEF Inv, ControlOK
    <2>6. mine'[t][a] \in Publication
      BY <2>2, <2>3, <2>5
    <2>7. PICK p \in {"drop", "remote"} : pc' = [pc EXCEPT ![t] = p]
                 /\ (p = "drop" => running' = {t})
      BY <1>4
    <2>8. pc' \in [Proc -> Awaiting \cup Elsewhere]
      BY <2>7 DEF Inv, ControlOK, Awaiting, Elsewhere
    <2>9. ControlOK'
      BY <1>4, <2>2, <2>5, <2>8 DEF Inv, ControlOK
    <2>10. Others(t)
      BY <1>4, <2>5, <2>7 DEF Inv, ControlOK, Others, Same
    <2>11. pc'[t] = p /\ api'[t] = a /\ job'[t] = "leave"
      BY <1>2, <1>4, <2>7 DEF Inv, ControlOK
    <2>12. ~Held(t)'
      BY <1>2, <1>4 DEF Held
    <2>13. LocalOK(t)'
      BY <1>2, <2>2, <2>6, <2>7, <2>11, <2>12
      DEF Inv, LocalOK, JobOK, JobAt, Working, Inner, Configuring, Refreshing, Withdrawing
    <2> QED
      BY <1>2, <1>4, <2>1, <2>9, <2>10, <2>13, GoOK, TurnOK
  <1> QED
    BY <1>3, <1>4 DEF DeleteNext

\* Who is idle, and the synchronisation between two APIs.
LEMMA Idle ==
  ASSUME Inv, NEW t \in Proc, pc[t] \in {"idle", "rows"}
  PROVE  pc[t] \notin Working \cup {"wait"} /\ (pc[t] = "rows" => job[t] = "sync")
  BY DEF Inv, LocalOK, JobOK, JobAt, Working, Inner

\* The synchronisation lists the registrations.
LEMMA SyncStartOK ==
  ASSUME Inv, Turn(Sync), SyncStart
  PROVE  Inv'
  <1>1. /\ pc[Sync] = "idle" /\ Sync \in Proc /\ todo' = [todo EXCEPT ![Sync] = Registered]
        /\ Outward(Sync, "sync", "rows", lock)
        /\ UNCHANGED <<account, cred, pub, recent, apps, api, mine, grant, lost, crashes>>
    BY DEF SyncStart, Proc
  <1>2. StoresOK'
    BY <1>1 DEF Inv, StoresOK
  <1>3. todo' \in [Proc -> SUBSET Api] /\ \A u \in Proc \ {Sync} : todo'[u] = todo[u]
    BY <1>1 DEF Inv, ControlOK, Registered
  <1>4. "rows" \in Elsewhere \ {"stop", "drop", "next"} /\ JobAt("sync", "rows")
    BY DEF Elsewhere, JobAt, Configuring, Refreshing
  <1> QED
    BY <1>1, <1>2, <1>3, <1>4, Idle, WalkOK

\* The synchronisation withdraws what a former user left.
LEMMA SyncSweepOK ==
  ASSUME Inv, Turn(Sync), SyncSweep
  PROVE  Inv'
  <1>1. /\ pc[Sync] = "idle" /\ Sync \in Proc /\ Outward(Sync, "disable", "deny", lock)
        /\ UNCHANGED <<account, cred, pub, recent, apps, api, mine, grant, todo, lost, crashes>>
    BY DEF SyncSweep, Proc
  <1>2. StoresOK'
    BY <1>1 DEF Inv, StoresOK
  <1>3. todo' \in [Proc -> SUBSET Api] /\ \A u \in Proc \ {Sync} : todo'[u] = todo[u]
    BY <1>1 DEF Inv, ControlOK
  <1>4. "deny" \in Elsewhere \ {"stop", "drop", "next"} /\ JobAt("disable", "deny")
    BY WalkAt DEF Elsewhere, Withdrawing
  <1>5. "disable" \in Job
    BY DEF Job
  <1> QED
    BY <1>1, <1>2, <1>3, <1>4, <1>5, Idle, WalkOK

\* The synchronisation goes on to one registration.
LEMMA SyncNextOK ==
  ASSUME Inv, Turn(Sync), SyncNext
  PROVE  Inv'
  <1>1. /\ pc[Sync] = "rows" /\ Sync \in Proc /\ job[Sync] = "sync"
        /\ pc[Sync] \notin Working \cup {"wait"}
        /\ UNCHANGED <<account, cred, pub, recent, apps, grant, lost, crashes>>
    <2>1. /\ pc[Sync] = "rows" /\ Sync \in Proc
          /\ UNCHANGED <<account, cred, pub, recent, apps, grant, lost, crashes>>
      BY DEF SyncNext, Proc
    <2> QED
      BY <2>1, Idle
  <1>2. StoresOK'
    BY <1>1 DEF Inv, StoresOK
  <1>3. CASE Outward(Sync, "sync", "idle", lock) /\ UNCHANGED <<api, mine, todo>>
    <2>1. "idle" \in Elsewhere \ {"stop", "drop", "next"} /\ JobAt("sync", "idle")
      BY DEF Elsewhere, JobAt, Configuring, Refreshing
    <2>2. todo' \in [Proc -> SUBSET Api] /\ \A u \in Proc \ {Sync} : todo'[u] = todo[u]
      BY <1>3 DEF Inv, ControlOK
    <2> QED
      BY <1>1, <1>2, <1>3, <2>1, <2>2, WalkOK
  <1>4. ASSUME NEW a \in todo[Sync], todo' = [todo EXCEPT ![Sync] = todo[Sync] \ {a}],
               UNCHANGED <<api, mine, lock, running, job, pc>>
        PROVE  Inv'
    <2>1. ControlOK' /\ Others(Sync) /\ pc'[Sync] = "rows" /\ job'[Sync] = job[Sync]
      BY <1>1, <1>4 DEF Inv, ControlOK, Others, Same
    <2>2. LocalOK(Sync)'
      BY <1>1, <2>1
      DEF Inv, LocalOK, JobOK, JobAt, Working, Inner, Configuring, Refreshing, Withdrawing
    <2>3. ~Queued(Sync) /\ ~Deleting(Sync)'
      BY <1>1, <2>1, Behind DEF Deleting
    <2> QED
      BY <1>1, <1>2, <1>4, <2>1, <2>2, <2>3, GoOK, TurnOK
  <1>5. ASSUME NEW a \in todo[Sync], todo' = [todo EXCEPT ![Sync] = todo[Sync] \ {a}],
               pub[a] # NoRecord, Outward(Sync, "sync", "wait", lock),
               api' = [api EXCEPT ![Sync] = a],
               mine' = [mine EXCEPT ![Sync] = [mine[Sync] EXCEPT ![a] = pub[a]]]
        PROVE  Inv'
    <2>1. "wait" \in Elsewhere \ {"stop", "drop", "next"} /\ JobAt("sync", "wait")
      BY DEF Elsewhere, JobAt, Configuring, Refreshing
    <2>2. /\ pc' \in [Proc -> Awaiting \cup Elsewhere]
          /\ job' \in [Proc -> Job \cup {"sync", "none"}]
          /\ lock' \in Seq(Proc) /\ running' \in SUBSET Proc
          /\ \A u \in Proc \ {Sync} : pc'[u] = pc[u] /\ job'[u] = job[u]
      BY <1>1, <1>5, <2>1, OutwardFacts
    <2>3. a \in Api /\ pub[a] \in Publication \cup {NoRecord}
          /\ mine[Sync] \in [Api -> Publication \cup {NoRecord}]
      BY <1>1, <1>5 DEF Inv, ControlOK, StoresOK
    <2>4. [mine[Sync] EXCEPT ![a] = pub[a]] \in [Api -> Publication \cup {NoRecord}]
      BY <2>3
    <2>5. mine' \in [Proc -> [Api -> Publication \cup {NoRecord}]]
          /\ \A u \in Proc \ {Sync} : mine'[u] = mine[u]
      BY <1>1, <1>5, <2>4 DEF Inv, ControlOK
    <2>6. ControlOK' /\ Others(Sync) /\ api'[Sync] \in Api
      BY <1>1, <1>5, <2>2, <2>3, <2>5 DEF Inv, ControlOK, Others, Same
    <2> QED
      BY <1>1, <1>2, <1>5, <2>1, <2>6, OutsideOK
  <1> QED
    BY <1>3, <1>4, <1>5 DEF SyncNext

\* A request comes in.
LEMMA SubmitOK ==
  ASSUME Inv, NEW t \in Request, Turn(t), NEW j \in Job, NEW a \in Api \cup {NoApi}, Submit(t, j, a)
  PROVE  Inv'
  <1>1. /\ pc[t] = "idle" /\ t \in Proc /\ t # Sync /\ (a = NoApi <=> j \in Withdrawing)
        /\ Outward(t, j, IF a = NoApi THEN "deny" ELSE "wait", lock)
        /\ api' = [api EXCEPT ![t] = a]
        /\ UNCHANGED <<account, cred, pub, recent, apps, mine, grant, todo, lost, crashes>>
    BY ConstantsAssumption DEF Submit, Proc, Withdrawing
  <1>2. StoresOK'
    BY <1>1 DEF Inv, StoresOK
  <1>3. PICK p \in {"deny", "wait"} : /\ Outward(t, j, p, lock) /\ (p = "deny" => j \in Withdrawing)
                                      /\ p = "wait" => j \in Withdrawing \/ a \in Api
    BY <1>1
  <1>4. p \in Elsewhere \ {"stop", "drop", "next"} /\ JobAt(j, p) /\ j \in Job \cup {"sync", "none"}
    BY <1>3, WalkAt DEF Elsewhere, JobAt, Configuring, Refreshing
  <1>5. /\ pc' \in [Proc -> Awaiting \cup Elsewhere] /\ job' \in [Proc -> Job \cup {"sync", "none"}]
        /\ lock' \in Seq(Proc) /\ running' \in SUBSET Proc
        /\ \A u \in Proc \ {t} : pc'[u] = pc[u] /\ job'[u] = job[u]
    BY <1>1, <1>3, <1>4, OutwardFacts
  <1>6. ControlOK' /\ Others(t) /\ api'[t] = a
    BY <1>1, <1>5 DEF Inv, ControlOK, Others, Same
  <1>7. j # "sync"
    BY DEF Job
  <1> QED
    BY <1>1, <1>2, <1>3, <1>4, <1>6, <1>7, Idle, OutsideOK

\* What does not touch the coroutines leaves them where they may be.
LEMMA AsideOK ==
  ASSUME Inv, UNCHANGED control, StoresOK'
  PROVE  Inv'
  <1>1. UNCHANGED <<lock, running, job, pc, api, mine, grant, todo>>
    BY DEF control
  <1>2. ControlOK' /\ QueueOK'
    BY <1>1 DEF Inv, ControlOK, QueueOK
  <1>3. \A t \in Proc : LocalOK(t)'
    BY <1>1 DEF Inv, LocalOK, JobOK, JobAt, Held
  <1>4. OneDeletion'
    BY <1>1 DEF Inv, OneDeletion, Deleting, Held
  <1> QED
    BY <1>2, <1>3, <1>4 DEF Inv

\* Credentials, accounts and the clock move on their own.
LEMMA SurroundingsOK ==
  ASSUME Inv, Surroundings
  PROVE  Inv'
  <1>1. CASE Credentials
    <2>1. UNCHANGED <<account, pub, recent, apps, control, lost, crashes>>
      BY <1>1 DEF Credentials
    <2>2. cred' \in Credential /\ (cred'.is = "ready" => cred'.token \in Token)
      <3>1. CASE CredentialsPrepared
        BY <3>1 DEF CredentialsPrepared, Credential, Inv, StoresOK
      <3>2. CASE CredentialsIssued
        <4>1. cred \in Credential
          BY <3>2 DEF CredentialsIssued, Inv, StoresOK
        <4> QED
          BY <3>2, <4>1 DEF CredentialsIssued, Credential
      <3>3. CASE CredentialsSuspended
        <4>1. cred \in Credential
          BY <3>3 DEF CredentialsSuspended, Inv, StoresOK
        <4> QED
          BY <3>3, <4>1 DEF CredentialsSuspended, Credential
      <3> QED
        BY <1>1, <3>1, <3>2, <3>3 DEF Credentials
    <2>3. StoresOK'
      BY <2>1, <2>2 DEF Inv, StoresOK
    <2> QED
      BY <2>1, <2>3, AsideOK
  <1>2. CASE AccountChanges
    <2>1. StoresOK'
      BY <1>2 DEF AccountChanges, Inv, StoresOK
    <2> QED
      BY <1>2, <2>1, AsideOK DEF AccountChanges
  <1>3. ASSUME NEW a \in Api, Expire(a) PROVE Inv'
    <2>1. StoresOK'
      BY <1>3 DEF Expire, Inv, StoresOK
    <2> QED
      BY <1>3, <2>1, AsideOK DEF Expire
  <1> QED
    BY <1>1, <1>2, <1>3 DEF Surroundings

\* All coroutines at rest.
Rested ==
    /\ lock = <<>> /\ running = {}
    /\ job = [t \in Proc |-> "none"] /\ pc = [t \in Proc |-> "idle"]
    /\ api = [t \in Proc |-> NoApi] /\ mine = [t \in Proc |-> [a \in Api |-> NoRecord]]
    /\ grant = [t \in Proc |-> NoRecord] /\ todo = [t \in Proc |-> {}]

\* With all coroutines at rest the invariant asks for the types of the stores only.
LEMMA RestedOK == Rested /\ StoresOK => Inv
  <1> SUFFICES ASSUME Rested, StoresOK PROVE Inv
    OBVIOUS
  <1>1. ControlOK
    BY DEF Rested, ControlOK, Elsewhere
  <1>2. QueueOK
    BY DEF Rested, QueueOK
  <1>3. \A t \in Proc : LocalOK(t)
    BY DEF Rested, LocalOK, JobOK, JobAt, Working, Inner, Configuring, Refreshing, Withdrawing
  <1>4. OneDeletion
    BY DEF Rested, OneDeletion, Deleting
  <1> QED
    BY <1>1, <1>2, <1>3, <1>4 DEF Inv

\* A call on its way, when the portal stops.
LEMMA Cut ==
  ASSUME Inv, Crash
  PROVE  apps' \subseteq AccessApp
  <1>1. ASSUME NEW t \in Proc, pc[t] = "app", NEW x \in Configured(t)
        PROVE  {y \in apps : y.id # x.id} \cup {x} \subseteq AccessApp
    BY <1>1, ConfiguredOK DEF Inv, StoresOK
  <1> QED
    BY <1>1 DEF Crash, Inv, StoresOK

\* A restart puts all coroutines at rest.
LEMMA CrashOK ==
  ASSUME Inv, Crash
  PROVE  Inv'
  <1>1. crashes' \in 0 .. MaxCrashes
    BY ConstantsAssumption DEF Crash, Inv, StoresOK
  <1>2. UNCHANGED <<account, cred, pub, recent, lost>> /\ apps' \subseteq AccessApp
    BY Cut DEF Crash
  <1>3. StoresOK'
    BY <1>1, <1>2 DEF Inv, StoresOK
  <1>4. Rested'
    BY DEF Crash, Rested
  <1> QED
    BY <1>3, <1>4, RestedOK, PTL

\* The invariant holds at the beginning.
LEMMA InitOK == Init => Inv
  <1> SUFFICES ASSUME Init PROVE Inv
    OBVIOUS
  <1>1. StoresOK
    BY ConstantsAssumption DEF Init, StoresOK
  <1>2. Rested
    BY DEF Init, Rested
  <1> QED
    BY <1>1, <1>2, RestedOK

\* A coroutine takes its turn.
LEMMA CoroutineOK ==
  ASSUME Inv, NEW t \in Proc, Coroutine(t)
  PROVE  Inv'
  <1>1. CASE Configure(t)
    BY <1>1, ConfigureCheckedOK, ConfigureAppOK, ConfigureDoneOK DEF Coroutine, Configure
  <1>2. CASE Change(t)
    BY <1>2, RegisterEnterOK, PublishEnterOK, StopEnterOK, DropOK, RegisterChosenOK, RemoveRemoteOK
    DEF Coroutine, Change
  <1>3. CASE Refresh(t)
    BY <1>3, RefreshEnterOK, RefreshValidatedOK, RefreshRestartedOK, RefreshHealthOK
    DEF Coroutine, Refresh
  <1>4. CASE Disable(t)
    BY <1>4, DisableDenyOK, UnpublishEnterOK, UnpublishOK, DeleteEnterOK, DeleteNextOK, RevokeOK
    DEF Coroutine, Disable
  <1> QED
    BY <1>1, <1>2, <1>3, <1>4, CloudflareFailsOK DEF Coroutine

\* Every step keeps the invariant.
LEMMA NextOK == Inv /\ [Next]_vars => Inv'
  <1> SUFFICES ASSUME Inv, [Next]_vars PROVE Inv'
    OBVIOUS
  <1>1. ASSUME NEW t \in Request, Handle(t) PROVE Inv'
    BY <1>1, SubmitOK DEF Handle
  <1>2. CASE Synchronise
    BY <1>2, SyncSweepOK, SyncStartOK, SyncNextOK DEF Synchronise
  <1>3. CASE UNCHANGED vars
    BY <1>3, AsideOK DEF vars, Inv, StoresOK
  <1> QED
    BY <1>1, <1>2, <1>3, CoroutineOK, DeleteLinuxUserOK, SurroundingsOK, CrashOK DEF Next

\* The invariant of the lock, its queue and the coroutines holds throughout: ApiPublications
\* is sound in its control, with any number of requests, lost answers and restarts.
THEOREM Invariance == Spec => []Inv
  BY InitOK, NextOK, PTL DEF Spec

\* All variables have their types: what is saved is a registration, what is at Cloudflare
\* an application (all use cases of the publications).
THEOREM TypeCorrect == Spec => []TypeOK
  <1>1. Inv => TypeOK
    BY TypeSplit DEF Inv
  <1> QED
    BY <1>1, Invariance, PTL

\* At most one coroutine works on copies of registrations inside the publication lock, but for
\* the one deletion of records that goes without it (publication_lock, DeleteUserApiRecords).
THEOREM OneInside ==
  Spec => [](\A t, u \in Proc :
                pc[t] \in Working /\ pc[u] \in Working /\ t # u => (Deleting(t) <=> ~Deleting(u)))
  <1>1. ASSUME Inv, NEW t \in Proc, NEW u \in Proc, pc[t] \in Working, pc[u] \in Working, t # u
        PROVE  Deleting(t) <=> ~Deleting(u)
    <2>1. \A v \in Proc : pc[v] \in Working => Held(v) \/ Deleting(v)
      BY <1>1, Behind DEF Deleting, Working
    <2> QED
      BY <1>1, <2>1, First DEF Inv, OneDeletion
  <1>2. Inv => \A t, u \in Proc :
                  pc[t] \in Working /\ pc[u] \in Working /\ t # u => (Deleting(t) <=> ~Deleting(u))
    BY <1>1
  <1> QED
    BY <1>2, Invariance, PTL

-----------------------------------------------------------------------------
(***************************************************************************)
(* Applications and registrations.                                         *)
(***************************************************************************)

\* What may be stored for API a.
Truthful(a, m) ==
    IF m = NoRecord THEN Named(a) = {} ELSE Sound(a, m, apps) /\ Cited(a, m)

\* Records that differ in their states only say the same of the applications.
LEMMA Alike ==
  ASSUME NEW a, NEW m \in Publication, NEW r \in Publication, NEW A,
         r.owner = m.owner, r.clean = m.clean, r.app = m.app
  PROVE  /\ Sound(a, m, A) => Sound(a, r, A)
         /\ Cited(a, m) => Cited(a, r)
         /\ m # NoRecord /\ r # NoRecord
  BY Edits DEF Sound, Clean, Cited

\* So do those that differ in that the one that says it is clean is not.
LEMMA Soiled ==
  ASSUME NEW a, NEW m \in Publication, NEW r \in Publication, NEW A,
         r.owner = m.owner, ~r.clean, r.app = m.app
  PROVE  /\ Sound(a, m, A) => Sound(a, r, A)
         /\ Cited(a, m) => Cited(a, r)
         /\ m # NoRecord /\ r # NoRecord
  BY Edits DEF Sound, Clean, Cited

\* The applications of one API go, and the records of all stay true.
LEMMA Fewer ==
  ASSUME NEW a, NEW b, NEW m, NEW A, Sound(a, m, A), \A x \in A : x.id = m.app => x.name = a
  PROVE  Sound(a, m, {x \in A : x.name # b})
  BY DEF Sound

\* Nothing is unrecorded, unless the holder of the lock has just configured it.
LEMMA Recorded ==
  ASSUME Inv, NEW t \in Proc, Held(t)
  PROVE  /\ pc[t] # "validate" => \A a \in Api : ~Unrecorded(a)
         /\ \A a \in Api : Unrecorded(a) => a = api[t]
  <1>1. \A u \in Proc : pc[u] = "validate" => u = t
    BY Behind, First DEF Inner
  <1> QED
    BY <1>1 DEF Unrecorded

\* Stored registrations are true where nothing is unrecorded.
LEMMA StoredTruth ==
  ASSUME Data, NEW a \in Api, ~Unrecorded(a)
  PROVE  Truthful(a, pub[a])
  BY DEF Data, NamesOK, StoreSound, Truthful

\* While the holder moves, nobody else works under the lock, before or after.
LEMMA OthersOut ==
  ASSUME Inv, NEW t \in Proc, Turn(t), Held(t), Others(t), lock' = lock \/ lock' = Tail(lock),
         NEW u \in Proc \ {t}
  PROVE  /\ Same(u) /\ ~Held(u) /\ pc[u] \notin Inner \cup {"drop"}
         /\ ~(pc[u] \in Working /\ Held(u)')
  <1>1. lock \in Seq(Proc) /\ Len(lock) \in Nat /\ lock # <<>> /\ lock[1] = t
    BY First DEF Inv, ControlOK, Held
  <1>2. Same(u) /\ ~Held(u)
    BY First DEF Others
  <1>3. pc[u] \notin Inner \cup {"drop"}
    BY <1>2, Behind, TurnOK DEF Inner
  <1>4. pc[u] = "remote" => ~Queued(u)
    BY <1>2, Behind DEF Working
  <1>5. Held(u)' => Queued(u)
    <2>1. CASE lock' = lock
      BY <1>2, <2>1 DEF Held
    <2>2. CASE lock' = Tail(lock)
      <3>1. ASSUME Held(u)' PROVE 2 \in 1 .. Len(lock) /\ lock[2] = u
        <4>1. Tail(lock) # <<>> /\ Head(Tail(lock)) = u
          BY <2>2, <3>1 DEF Held
        <4> QED
          BY <1>1, <4>1
      <3> QED
        BY <3>1 DEF Queued
    <2> QED
      BY <2>1, <2>2
  <1>6. ~(pc[u] \in Working /\ Held(u)')
    BY <1>3, <1>4, <1>5 DEF Working
  <1> QED
    BY <1>2, <1>3, <1>6

\* The copies of the others are out of play.
LEMMA OthersIdle ==
  ASSUME Inv, NEW t \in Proc, Turn(t), Held(t), Others(t), lock' = lock \/ lock' = Tail(lock)
  PROVE  /\ \A u \in Proc \ {t} : CopySound(u)'
         /\ \A u \in Proc \ {t} : pc'[u] # "validate"
  <1>1. ASSUME NEW u \in Proc \ {t} PROVE CopySound(u)' /\ pc'[u] # "validate"
    <2>1. pc'[u] = pc[u] /\ pc[u] \notin Inner \cup {"drop"} /\ ~(pc[u] \in Working /\ Held(u)')
      BY OthersOut DEF Same
    <2>2. pc[u] \notin {"choose", "drop", "validate"} \cup Configuring \cup Refreshing
      BY <2>1 DEF Inner, Configuring, Refreshing
    <2> QED
      BY <2>1, <2>2 DEF CopySound
  <1> QED
    BY <1>1

\* The holder moves and what it leaves behind is true.
LEMMA HolderSound ==
  ASSUME Inv, NEW t \in Proc, Turn(t), Held(t), Others(t), lock' = lock \/ lock' = Tail(lock),
         Unique', \A a \in Api : Cited(a, pub[a])',
         \A u \in Proc, a \in Api : Cited(a, mine[u][a])',
         \A a \in Api : StoreSound(a)' \/ (pc'[t] = "validate" /\ api'[t] = a),
         CopySound(t)'
  PROVE  Data'
  <1>1. \A u \in Proc \ {t} : CopySound(u)'
    BY OthersIdle
  <1>2. \A a \in Api : ~Unrecorded(a)' => StoreSound(a)'
    BY DEF Unrecorded
  <1> QED
    BY <1>1, <1>2 DEF Data, NamesOK

\* The same, when nothing changes at Cloudflare.
LEMMA QuietSound ==
  ASSUME Inv, Data, NEW t \in Proc, Turn(t), Held(t), Others(t), lock' = lock \/ lock' = Tail(lock),
         apps' = apps,
         \A a \in Api : (pub'[a] = pub[a] /\ ~Unrecorded(a)) \/ Truthful(a, pub'[a]),
         \A a \in Api : Cited(a, mine'[t][a]),
         CopySound(t)'
  PROVE  Data'
  <1>1. \A a \in Api : Truthful(a, pub'[a])
    BY StoredTruth
  <1>2. \A a \in Api : Cited(a, pub[a])' /\ StoreSound(a)'
    BY <1>1 DEF Truthful, Cited, StoreSound, Named
  <1>3. Unique'
    BY DEF Data, NamesOK, Unique
  <1>4. \A u \in Proc, a \in Api : Cited(a, mine[u][a])'
    <2>1. \A u \in Proc \ {t} : mine'[u] = mine[u]
      BY DEF Others, Same
    <2> QED
      BY <2>1 DEF Data, NamesOK, Cited
  <1> QED
    BY <1>2, <1>3, <1>4, HolderSound

\* The holder's use case ends.
LEMMA EndSound ==
  ASSUME Inv, Data, NEW t \in Proc, Turn(t), Held(t), Return(t) \/ Fail(t), apps' = apps,
         api[t] \in Api,
         \/ UNCHANGED pub /\ pc[t] # "validate"
         \/ \E r \in Publication \cup {NoRecord} : Put(api[t], r) /\ Truthful(api[t], r)
  PROVE  Data'
  <1>1. PICK j \in Job \cup {"sync", "none"} : Leave(t, j)
    BY DEF Return, Fail, Inv, ControlOK, Job
  <1>2. /\ Others(t) /\ lock' = Tail(lock) /\ pc'[t] \in {"idle", "rows", "revoke"}
        /\ mine'[t] = [a \in Api |-> NoRecord]
    BY <1>1, LeaveFacts
  <1>3. CopySound(t)'
    BY <1>2 DEF CopySound, Working, Inner, Configuring, Refreshing
  <1>4. \A a \in Api : Cited(a, mine'[t][a])
    BY <1>2 DEF Cited
  <1>5. \A a \in Api : (pub'[a] = pub[a] /\ ~Unrecorded(a)) \/ Truthful(a, pub'[a])
    <2>1. CASE UNCHANGED pub /\ pc[t] # "validate"
      BY <2>1, Recorded
    <2>2. CASE \E r \in Publication \cup {NoRecord} : Put(api[t], r) /\ Truthful(api[t], r)
      <3>1. PICK r \in Publication \cup {NoRecord} : Put(api[t], r) /\ Truthful(api[t], r)
        BY <2>2
      <3>2. pub'[api[t]] = r /\ \A a \in Api \ {api[t]} : pub'[a] = pub[a]
        BY <3>1 DEF Put, Inv, StoresOK
      <3>3. \A a \in Api \ {api[t]} : ~Unrecorded(a)
        BY Recorded
      <3> QED
        BY <3>1, <3>2, <3>3
    <2> QED
      BY <2>1, <2>2
  <1> QED
    BY <1>2, <1>3, <1>4, <1>5, QuietSound

\* The use case goes on with record r, which is true.
LEMMA GotoSound ==
  ASSUME Inv, Data, NEW t \in Proc, Turn(t), Held(t), NEW p \in Working, p # "validate",
         NEW r \in Publication \cup {NoRecord}, Goto(t, p, r), api[t] \in Api,
         UNCHANGED todo, Granting(t), apps' = apps, pc[t] # "validate", job[t] \notin Withdrawing,
         \/ UNCHANGED pub
         \/ \E q \in Publication \cup {NoRecord} : Put(api[t], q) /\ Truthful(api[t], q),
         Truthful(api[t], r),
         p = "choose" /\ r # NoRecord => r.owner = grant'[t].owner,
         p \in Configuring \cup Refreshing => r \in Publication /\ r.owner = grant'[t].owner,
         p \in Configuring =>
             /\ ~r.clean
             /\ \/ pub'[api[t]] = NoRecord
                \/ pub'[api[t]].owner = r.owner /\ ~pub'[api[t]].clean,
         p = "drop" => Named(api[t]) = {}
  PROVE  Data'
  <1>1. p \in Awaiting \cup Elsewhere
    BY Places
  <1>2. /\ Others(t) /\ lock' = lock /\ pc'[t] = p /\ job'[t] = job[t] /\ api'[t] = api[t]
        /\ mine'[t] = [mine[t] EXCEPT ![api[t]] = r]
    BY <1>1, GotoFacts
  <1>3. mine'[t][api[t]] = r /\ (\A a \in Api \ {api[t]} : mine'[t][a] = mine[t][a])
    BY <1>2 DEF Inv, ControlOK
  <1>4. \A a \in Api : Cited(a, mine'[t][a])
    <2>1. Cited(api[t], r)
      BY DEF Truthful, Cited
    <2> QED
      BY <1>3, <2>1 DEF Data, NamesOK
  <1>5. \A a \in Api : (pub'[a] = pub[a] /\ ~Unrecorded(a)) \/ Truthful(a, pub'[a])
    <2>1. \A a \in Api : ~Unrecorded(a)
      BY Recorded
    <2>2. CASE UNCHANGED pub
      BY <2>1, <2>2
    <2>3. CASE \E q \in Publication \cup {NoRecord} : Put(api[t], q) /\ Truthful(api[t], q)
      <3>1. PICK q \in Publication \cup {NoRecord} : Put(api[t], q) /\ Truthful(api[t], q)
        BY <2>3
      <3>2. pub'[api[t]] = q /\ \A a \in Api \ {api[t]} : pub'[a] = pub[a]
        BY <3>1 DEF Put, Inv, StoresOK
      <3> QED
        BY <2>1, <3>1, <3>2
    <2> QED
      BY <2>2, <2>3
  <1>6. CopySound(t)'
    <2>1. Copied(t)' = {api[t]}
      BY <1>2 DEF Copied
    <2>2. r # NoRecord => Sound(api[t], r, apps')
      BY DEF Truthful
    <2>3. p = "choose" => IF r = NoRecord THEN Named(api[t])' = {} ELSE r.owner = grant'[t].owner
      BY <1>2 DEF Truthful, Named
    <2>4. p = "drop" => Named(api[t])' = {}
      BY <1>2 DEF Named
    <2>5. r \in Publication => r # NoRecord
      BY Edits
    <2> QED
      BY <1>2, <1>3, <2>1, <2>2, <2>3, <2>4, <2>5 DEF CopySound
  <1> QED
    BY <1>2, <1>4, <1>5, <1>6, QuietSound

-----------------------------------------------------------------------------
(***************************************************************************)
(* The steps under the lock keep the records true.                         *)
(***************************************************************************)

\* What the holder knows of its copy, at its own turn.
LEMMA HereSound ==
  ASSUME Inv, Data, NEW t \in Proc, Turn(t), Held(t), pc[t] \in Working \ {"stop"}
  PROVE  /\ Cited(api[t], mine[t][api[t]])
         /\ mine[t][api[t]] # NoRecord => Sound(api[t], mine[t][api[t]], apps)
         /\ pc[t] = "choose" =>
               IF mine[t][api[t]] = NoRecord THEN Named(api[t]) = {}
               ELSE mine[t][api[t]].owner = grant[t].owner
         /\ pc[t] \in Configuring \cup Refreshing => mine[t][api[t]].owner = grant[t].owner
         /\ pc[t] \in Configuring =>
               /\ ~mine[t][api[t]].clean
               /\ \/ pub[api[t]] = NoRecord
                  \/ pub[api[t]].owner = mine[t][api[t]].owner /\ ~pub[api[t]].clean
         /\ pc[t] = "drop" => Named(api[t]) = {}
         /\ pc[t] \notin {"choose", "drop"} => Truthful(api[t], mine[t][api[t]])
  <1>1. api[t] \in Api /\ CopySound(t)
    BY Here DEF Data
  <1>2. Cited(api[t], mine[t][api[t]])
    BY <1>1 DEF Data, NamesOK
  <1>3. mine[t][api[t]] # NoRecord => Sound(api[t], mine[t][api[t]], apps)
    BY <1>1 DEF CopySound, Copied
  <1>4. \A d \in Proc : pc[d] = "drop" => d = t
    BY TurnOK
  <1>5. pc[t] \notin {"choose", "drop"} => mine[t][api[t]] # NoRecord
    BY Here, Edits
  <1>6. pc[t] \in Configuring => pc[t] # "drop"
    BY DEF Configuring
  <1> QED
    BY <1>1, <1>2, <1>3, <1>4, <1>5, <1>6 DEF CopySound, Truthful

\* The configuration begins with a record that is true.
LEMMA BeginSound ==
  ASSUME Inv, Data, NEW t \in Proc, Held(t), Turn(t), api[t] \in Api, pc[t] # "validate",
         NEW r \in Publication, Begin(t, r),
         job[t] \in {"register", "publish", "sync"}, apps' = apps, UNCHANGED todo,
         Granting(t), r.owner = grant'[t].owner, Truthful(api[t], Begun(r))
  PROVE  Data'
  <1>1. Begun(r) \in Publication /\ Begun(r).owner = r.owner /\ ~Begun(r).clean
    BY Edits DEF Begun, Publication
  <1>2. Put(api[t], Begun(r)) /\ Goto(t, "check", Begun(r))
    BY DEF Begin
  <1>3. pub'[api[t]] = Begun(r)
    BY <1>2 DEF Put, Inv, StoresOK
  <1>4. "check" \in Working /\ "check" \notin {"choose", "drop", "validate"}
    BY DEF Working, Inner
  <1> QED
    BY <1>1, <1>2, <1>3, <1>4, GotoSound DEF Withdrawing

\* What is saved before Cloudflare is called differs in its state only.
LEMMA ConfigureCheckedSound ==
  ASSUME Inv, Data, NEW t \in Proc, Turn(t), NEW ok \in BOOLEAN, ConfigureChecked(t, ok)
  PROVE  Data'
  <1> DEFINE a == api[t]
             m == mine[t][a]
             r == [m EXCEPT !.state = "configuring"]
             e == [m EXCEPT !.state = "error"]
  <1>1. pc[t] = "check" /\ apps' = apps /\ pc[t] \in Working \ {"stop"} /\ pc[t] \in Configuring
    BY DEF ConfigureChecked, Working, Inner, Configuring
  <1>2. /\ a \in Api /\ m \in Publication /\ Held(t) /\ JobAt(job[t], "check")
        /\ grant[t] \in Credential /\ grant[t].token \in Token
    BY <1>1, Here DEF Inner
  <1>3. /\ r \in Publication /\ e \in Publication
        /\ r.owner = m.owner /\ r.clean = m.clean /\ r.app = m.app
        /\ e.owner = m.owner /\ e.clean = m.clean /\ e.app = m.app
    <2>1. r \in Publication /\ e \in Publication
      BY <1>2, Edits DEF PublicationState
    <2> QED
      BY <1>2, <2>1 DEF Publication
  <1> HIDE DEF r, e
  <1>4. /\ Truthful(a, m) /\ m.owner = grant[t].owner /\ ~m.clean
        /\ \/ pub[a] = NoRecord
           \/ pub[a].owner = m.owner /\ ~pub[a].clean
    BY <1>1, <1>2, HereSound
  <1>5. Truthful(a, r) /\ Truthful(a, e)
    BY <1>2, <1>3, <1>4, Alike DEF Truthful
  <1>6. CASE /\ Savable(a, r) /\ SavePublication(a, r) /\ Goto(t, "app", r)
             /\ UNCHANGED <<grant, todo>>
    <2> DEFINE q == [pub[a] EXCEPT !.state = r.state, !.desired = r.desired]
    <2>1. pub[a] \in Publication
      BY <1>2, <1>6 DEF Savable, Inv, StoresOK
    <2>2. /\ q \in Publication /\ q.owner = pub[a].owner /\ q.clean = pub[a].clean
          /\ q.app = pub[a].app
      BY <1>3, <2>1, Merged DEF Publication
    <2>3. Put(a, q)
      BY <1>6 DEF SavePublication
    <2> HIDE DEF q
    <2>4. Truthful(a, pub[a])
      BY <1>1, <1>2, Recorded, StoredTruth
    <2>5. Truthful(a, q)
      BY <2>1, <2>2, <2>4, Alike DEF Truthful
    <2>6. pub'[a] = q
      BY <1>2, <2>3 DEF Put, Inv, StoresOK
    <2>7. pub[a] # NoRecord
      BY <1>6 DEF Savable
    <2>8. /\ "app" \in Working /\ "app" \notin {"choose", "drop", "validate"}
          /\ job[t] \notin Withdrawing
      BY <1>2 DEF Working, Inner, JobAt, Configuring, Withdrawing
    <2> QED
      BY <1>1, <1>2, <1>3, <1>4, <1>5, <1>6, <2>2, <2>3, <2>5, <2>6, <2>7, <2>8, NoGrant, GotoSound
  <1>7. CASE Broken(t, m)
    <2>1. Put(a, e) /\ Fail(t)
      BY <1>7 DEF Broken, e
    <2> QED
      BY <1>1, <1>2, <1>3, <1>5, <2>1, EndSound
  <1> QED
    BY <1>6, <1>7 DEF ConfigureChecked, r

\* What is saved after the last check differs in its state only.
LEMMA ConfigureDoneSound ==
  ASSUME Inv, Data, NEW t \in Proc, Turn(t), NEW ok \in BOOLEAN, ConfigureDone(t, ok)
  PROVE  Data'
  <1> DEFINE m == mine[t][api[t]]
  <1>1. pc[t] = "validate" /\ apps' = apps /\ pc[t] \in Working \ {"stop"}
    BY DEF ConfigureDone, Working, Inner
  <1>2. api[t] \in Api /\ m \in Publication /\ Held(t) /\ Truthful(api[t], m)
    BY <1>1, Here, HereSound DEF Inner
  <1>3. PICK s \in PublicationState : Put(api[t], [m EXCEPT !.state = s])
    BY DEF ConfigureDone, PublicationState
  <1> DEFINE r == [m EXCEPT !.state = s]
  <1>4. r \in Publication /\ r.owner = m.owner /\ r.clean = m.clean /\ r.app = m.app
    BY <1>2, <1>3, Edits DEF Publication
  <1>5. Put(api[t], r)
    BY <1>3
  <1> HIDE DEF r
  <1>6. Truthful(api[t], r)
    BY <1>2, <1>4, Alike DEF Truthful
  <1> QED
    BY <1>1, <1>2, <1>4, <1>5, <1>6, EndSound DEF ConfigureDone

\* The registration that is read is true.
LEMMA RegisterEnterSound ==
  ASSUME Inv, Data, NEW t \in Proc, Turn(t), RegisterEnter(t)
  PROVE  Data'
  <1>1. Enter(t, {"register"}) /\ UNCHANGED <<pub, apps>>
    BY DEF RegisterEnter
  <1>2. /\ Held(t) /\ pc[t] = "wait" /\ job[t] = "register" /\ api[t] \in Api
        /\ pub[api[t]] \in Publication \cup {NoRecord}
    BY <1>1, Entered DEF Withdrawing
  <1>3. Truthful(api[t], pub[api[t]])
    BY <1>2, Recorded, StoredTruth
  <1>4. CASE Fail(t)
    BY <1>1, <1>2, <1>4, EndSound
  <1>5. CASE /\ Granted /\ (Mine(api[t]) \/ pub[api[t]] = NoRecord)
             /\ Goto(t, "choose", pub[api[t]])
             /\ grant' = [grant EXCEPT ![t] = cred] /\ UNCHANGED todo
    <2>1. Granting(t) /\ grant'[t] = cred
      BY <1>5, Grant
    <2>2. pub[api[t]] # NoRecord => pub[api[t]].owner = cred.owner
      BY <1>5 DEF Granted, Mine
    <2>3. "choose" \in Working /\ "choose" \notin {"validate", "drop"} \cup Configuring \cup Refreshing
      BY DEF Working, Inner, Configuring, Refreshing
    <2> QED
      BY <1>1, <1>2, <1>3, <1>5, <2>1, <2>2, <2>3, GotoSound DEF Withdrawing
  <1> QED
    BY <1>4, <1>5 DEF RegisterEnter

\* The new record keeps the application of the old one on record.
LEMMA RegisterChosenSound ==
  ASSUME Inv, Data, NEW t \in Proc, Turn(t), NEW ok \in BOOLEAN, RegisterChosen(t, ok)
  PROVE  Data'
  <1> DEFINE a == api[t]
             old == mine[t][a]
             r == [owner |-> grant[t].owner, state |-> "checking", desired |-> "published",
                   clean |-> FALSE, app |-> IF old = NoRecord THEN NoApp ELSE old.app]
  <1>1. pc[t] = "choose" /\ apps' = apps /\ pc[t] \in Working \ {"stop"}
    BY DEF RegisterChosen, Working, Inner
  <1>2. /\ a \in Api /\ old \in Publication \cup {NoRecord} /\ Held(t)
        /\ grant[t].owner \in Owner /\ job[t] = "register"
    BY <1>1, Here DEF Inner, JobAt
  <1>3. /\ Cited(a, old) /\ (old # NoRecord => Sound(a, old, apps))
        /\ IF old = NoRecord THEN Named(a) = {} ELSE old.owner = grant[t].owner
    BY <1>1, <1>2, HereSound
  <1>4. CASE Begin(t, r) /\ UNCHANGED <<grant, todo>>
    <2>1. old = NoRecord \/ old.app \in AppId \cup {NoApp}
      BY <1>2 DEF Publication
    <2>2. r \in Publication
      BY <1>2, <2>1 DEF Publication, PublicationState
    <2> DEFINE b == Begun(r)
    <2>3. b \in Publication /\ b.owner = grant[t].owner /\ ~b.clean /\ r.owner = grant[t].owner
          /\ b.app = IF old = NoRecord THEN NoApp ELSE old.app
      BY <2>2, Edits DEF Begun
    <2> HIDE DEF b, r
    <2>4. b # NoRecord
      BY <2>3, Edits
    <2>5. CASE old = NoRecord
      <3>1. \A x \in apps : x.id \in AppId /\ x.name # a
        BY <1>3, <2>5 DEF Named, Inv, StoresOK, AccessApp
      <3>2. Truthful(a, b)
        BY <2>3, <2>4, <2>5, <3>1, ConstantsAssumption DEF Truthful, Sound, Clean, Cited
      <3> QED
        BY <1>1, <1>2, <1>4, <2>2, <2>3, <3>2, NoGrant, BeginSound DEF b
    <2>6. CASE old # NoRecord
      <3>1. Sound(a, b, apps) /\ Cited(a, b)
        BY <1>2, <1>3, <2>3, <2>6, Soiled
      <3>2. Truthful(a, b)
        BY <2>4, <3>1 DEF Truthful
      <3> QED
        BY <1>1, <1>2, <1>4, <2>2, <2>3, <3>2, NoGrant, BeginSound DEF b
    <2> QED
      BY <2>5, <2>6
  <1>5. CASE Fail(t) /\ UNCHANGED <<pub, recent>>
    BY <1>1, <1>2, <1>5, EndSound
  <1> QED
    BY <1>4, <1>5 DEF RegisterChosen

\* The configuration of what is stored, or of a copy, begins.
LEMMA AgainSound ==
  ASSUME Inv, Data, NEW t \in Proc, Held(t), Turn(t), api[t] \in Api, pc[t] # "validate",
         NEW r \in Publication, Begin(t, r),
         job[t] \in {"register", "publish", "sync"}, apps' = apps, UNCHANGED todo,
         Granting(t), r.owner = grant'[t].owner, Truthful(api[t], r)
  PROVE  Data'
  <1>1. /\ Begun(r) \in Publication /\ Begun(r).owner = r.owner /\ ~Begun(r).clean
        /\ Begun(r).app = r.app
    BY Edits DEF Begun, Publication
  <1>2. Truthful(api[t], Begun(r))
    BY <1>1, Soiled DEF Truthful
  <1> QED
    BY <1>2, BeginSound

\* A publication begins with a record that is true.
LEMMA PublishEnterSound ==
  ASSUME Inv, Data, NEW t \in Proc, Turn(t), PublishEnter(t)
  PROVE  Data'
  <1>1. Enter(t, {"publish"}) /\ apps' = apps
    BY DEF PublishEnter
  <1>2. /\ Held(t) /\ pc[t] = "wait" /\ job[t] = "publish" /\ api[t] \in Api
        /\ pub[api[t]] \in Publication \cup {NoRecord}
    BY <1>1, Entered DEF Withdrawing
  <1>3. Truthful(api[t], pub[api[t]])
    BY <1>2, Recorded, StoredTruth
  <1>4. CASE /\ Mine(api[t]) /\ Granted /\ Begin(t, pub[api[t]])
             /\ grant' = [grant EXCEPT ![t] = cred] /\ UNCHANGED todo
    <2>1. Granting(t) /\ grant'[t] = cred
      BY <1>4, Grant
    <2>2. pub[api[t]] \in Publication /\ pub[api[t]].owner = cred.owner
      BY <1>2, <1>4 DEF Mine, Granted
    <2> QED
      BY <1>1, <1>2, <1>3, <1>4, <2>1, <2>2, AgainSound
  <1>5. CASE Fail(t) /\ UNCHANGED pub
    BY <1>1, <1>2, <1>5, EndSound
  <1> QED
    BY <1>4, <1>5 DEF PublishEnter

\* A removal begins with a record that is true.
LEMMA RemovalSound ==
  ASSUME Inv, Data, NEW t \in Proc, Turn(t), Held(t), pc[t] # "validate", api[t] \in Api,
         job[t] \in {"unpublish", "remove", "sync"}, NEW r \in Publication, Removal(t, r),
         Truthful(api[t], r), apps' = apps, UNCHANGED pub \/ Put(api[t], r)
  PROVE  Data'
  <1>1. job[t] \notin Withdrawing
    BY DEF Withdrawing
  <1>2. ASSUME NEW p \in {"remote", "drop"}, Goto(t, p, r), UNCHANGED <<grant, todo>>,
               p = "drop" => Clean(r)
        PROVE  Data'
    <2>1. p \in Working /\ p \notin {"choose", "validate"} \cup Configuring \cup Refreshing
      BY DEF Working, Inner, Configuring, Refreshing
    <2>2. r # NoRecord
      BY Edits
    <2>3. p = "drop" => Named(api[t]) = {}
      BY <1>2, <2>2 DEF Truthful, Sound, Named
    <2> QED
      BY <1>1, <1>2, <2>1, <2>3, NoGrant, GotoSound
  <1>3. CASE Return(t)
    BY <1>3, EndSound
  <1> QED
    BY <1>2, <1>3 DEF Removal

\* A stop changes what is desired only.
LEMMA StopEnterSound ==
  ASSUME Inv, Data, NEW t \in Proc, Turn(t), StopEnter(t)
  PROVE  Data'
  <1> DEFINE m == pub[api[t]]
             r == Stopped(m, IF job[t] = "remove" THEN "deleted" ELSE "unpublished")
  <1>1. Enter(t, {"unpublish", "remove"}) /\ apps' = apps
    BY DEF StopEnter
  <1>2. /\ Held(t) /\ pc[t] = "wait" /\ job[t] \in {"unpublish", "remove"}
        /\ api[t] \in Api /\ m \in Publication \cup {NoRecord}
    BY <1>1, Entered DEF Withdrawing
  <1>3. CASE Mine(api[t]) /\ Put(api[t], r) /\ Removal(t, r)
    <2>1. m \in Publication
      BY <1>2, <1>3 DEF Mine
    <2>2. r \in Publication /\ r.owner = m.owner /\ r.clean = m.clean /\ r.app = m.app
      BY <2>1, Edits DEF Stopped, Publication
    <2>3. Truthful(api[t], m)
      BY <1>2, Recorded, StoredTruth
    <2> HIDE DEF r
    <2>4. Truthful(api[t], r)
      BY <2>1, <2>2, <2>3, Alike DEF Truthful
    <2> QED
      BY <1>1, <1>2, <1>3, <2>2, <2>4, RemovalSound
  <1>4. CASE Fail(t) /\ UNCHANGED pub
    BY <1>1, <1>2, <1>4, EndSound
  <1> QED
    BY <1>3, <1>4 DEF StopEnter

\* A refresh reads a record that is true, and saves it with another state only.
LEMMA RefreshEnterSound ==
  ASSUME Inv, Data, NEW t \in Proc, Turn(t), RefreshEnter(t)
  PROVE  Data'
  <1> DEFINE a == api[t]
             m == pub[a]
  <1>1. Enter(t, {"sync"}) /\ apps' = apps
    BY DEF RefreshEnter
  <1>2. /\ Held(t) /\ pc[t] = "wait" /\ job[t] = "sync" /\ a \in Api
        /\ m \in Publication \cup {NoRecord}
    BY <1>1, Entered DEF Withdrawing
  <1>3. Truthful(a, m)
    BY <1>2, Recorded, StoredTruth
  <1>4. CASE Return(t) /\ UNCHANGED pub
    BY <1>1, <1>2, <1>4, EndSound
  <1>5. CASE m # NoRecord /\ Removal(t, m) /\ UNCHANGED pub
    BY <1>1, <1>2, <1>3, <1>5, RemovalSound
  <1>6. ASSUME m # NoRecord, NEW r, r = [m EXCEPT !.state = "disabled"] \/ r = Stopped(m, "deleted"),
               Return(t), Put(a, r)
        PROVE  Data'
    <2>1. m \in Publication
      BY <1>2, <1>6
    <2>2. r \in Publication
      BY <1>6, <2>1, Edits DEF PublicationState
    <2>3. r.owner = m.owner /\ r.clean = m.clean /\ r.app = m.app
      BY <1>6, <2>1 DEF Stopped, Publication
    <2>4. Truthful(a, r)
      BY <1>3, <2>1, <2>2, <2>3, Alike DEF Truthful
    <2> QED
      BY <1>1, <1>2, <1>6, <2>2, <2>4, EndSound
  <1>7. CASE /\ m # NoRecord /\ cred # NoRecord /\ cred.is = "ready" /\ SameOwner(m)
             /\ Goto(t, "f_validate", m)
             /\ grant' = [grant EXCEPT ![t] = cred] /\ UNCHANGED <<pub, todo>>
    <2>1. Granting(t) /\ grant'[t] = cred
      BY <1>7, Grant
    <2>2. m.owner = cred.owner /\ m \in Publication
      BY <1>2, <1>7 DEF SameOwner
    <2>3. "f_validate" \in Working /\ "f_validate" \notin {"choose", "validate", "drop"} \cup Configuring
      BY DEF Working, Inner, Configuring
    <2> QED
      BY <1>1, <1>2, <1>3, <1>7, <2>1, <2>2, <2>3, GotoSound DEF Withdrawing
  <1> QED
    BY <1>4, <1>5, <1>6, <1>7 DEF RefreshEnter, Current

\* What a refresh knows of its copy.
LEMMA RefreshedSound ==
  ASSUME Inv, Data, NEW t \in Proc, Turn(t), pc[t] \in Refreshing
  PROVE  /\ api[t] \in Api /\ mine[t][api[t]] \in Publication /\ Held(t) /\ job[t] = "sync"
         /\ Truthful(api[t], mine[t][api[t]]) /\ mine[t][api[t]].owner = grant[t].owner
         /\ pc[t] # "validate"
  <1>1. pc[t] \in Working \ {"stop"} /\ pc[t] \notin {"choose", "drop", "validate"}
    BY DEF Working, Inner, Refreshing
  <1> QED
    BY <1>1, Refreshed, HereSound

\* A refresh goes on with the record it has read.
LEMMA RefreshValidatedSound ==
  ASSUME Inv, Data, NEW t \in Proc, Turn(t), NEW ok \in BOOLEAN, RefreshValidated(t, ok)
  PROVE  Data'
  <1> DEFINE r == mine[t][api[t]]
  <1>1. pc[t] = "f_validate" /\ apps' = apps /\ UNCHANGED <<grant, todo>>
    BY DEF RefreshValidated
  <1>2. /\ api[t] \in Api /\ r \in Publication /\ Held(t) /\ job[t] = "sync"
        /\ Truthful(api[t], r) /\ r.owner = grant[t].owner
    BY <1>1, RefreshedSound DEF Refreshing
  <1>3. CASE (Goto(t, "f_restart", r) \/ Goto(t, "f_health", r)) /\ UNCHANGED pub
    <2>1. PICK p \in {"f_restart", "f_health"} : Goto(t, p, r)
      BY <1>3
    <2>2. p \in Working /\ p \notin {"choose", "validate", "drop"} \cup Configuring
      BY DEF Working, Inner, Configuring
    <2> QED
      BY <1>1, <1>2, <1>3, <2>1, <2>2, NoGrant, GotoSound DEF Withdrawing
  <1>4. CASE Begin(t, r)
    BY <1>1, <1>2, <1>4, NoGrant, AgainSound
  <1> QED
    BY <1>3, <1>4 DEF RefreshValidated

\* A refresh configures the record it has read, or saves it as disconnected.
LEMMA RefreshRestartedSound ==
  ASSUME Inv, Data, NEW t \in Proc, Turn(t), NEW found \in BOOLEAN, RefreshRestarted(t, found)
  PROVE  Data'
  <1> DEFINE m == mine[t][api[t]]
             r == [m EXCEPT !.state = "disconnected"]
  <1>1. pc[t] = "f_restart" /\ apps' = apps
    BY DEF RefreshRestarted
  <1>2. /\ api[t] \in Api /\ m \in Publication /\ Held(t) /\ job[t] = "sync"
        /\ Truthful(api[t], m) /\ m.owner = grant[t].owner /\ pc[t] # "validate"
    BY <1>1, RefreshedSound DEF Refreshing
  <1>3. CASE Begin(t, m) /\ UNCHANGED <<grant, todo>>
    BY <1>1, <1>2, <1>3, NoGrant, AgainSound
  <1>4. CASE Put(api[t], r) /\ Return(t)
    <2>1. r \in Publication
      BY <1>2, Edits DEF PublicationState
    <2>2. r.owner = m.owner /\ r.clean = m.clean /\ r.app = m.app
      BY <1>2 DEF Publication
    <2> HIDE DEF r
    <2>3. Truthful(api[t], r)
      BY <1>2, <2>1, <2>2, Alike DEF Truthful
    <2> QED
      BY <1>1, <1>2, <1>4, <2>1, <2>3, EndSound
  <1> QED
    BY <1>3, <1>4 DEF RefreshRestarted

\* The use case saves another state of its copy, and ends.
LEMMA SavedEndSound ==
  ASSUME Inv, Data, NEW t \in Proc, Turn(t), Held(t), api[t] \in Api,
         mine[t][api[t]] \in Publication,
         Truthful(api[t], mine[t][api[t]]), NEW s \in PublicationState,
         Put(api[t], [mine[t][api[t]] EXCEPT !.state = s]), Return(t) \/ Fail(t), apps' = apps
  PROVE  Data'
  <1> DEFINE m == mine[t][api[t]]
             r == [m EXCEPT !.state = s]
  <1>1. r \in Publication
    BY Edits
  <1>2. r.owner = m.owner /\ r.clean = m.clean /\ r.app = m.app /\ Put(api[t], r)
    BY DEF Publication
  <1> HIDE DEF r
  <1>3. Truthful(api[t], r)
    BY <1>1, <1>2, Alike DEF Truthful
  <1> QED
    BY <1>1, <1>2, <1>3, EndSound

\* A refresh saves the record it has read with another state.
LEMMA RefreshHealthSound ==
  ASSUME Inv, Data, NEW t \in Proc, Turn(t), NEW ok \in BOOLEAN, RefreshHealth(t, ok)
  PROVE  Data'
  <1>1. pc[t] = "f_health"
    BY DEF RefreshHealth
  <1>2. /\ api[t] \in Api /\ mine[t][api[t]] \in Publication /\ Held(t)
        /\ Truthful(api[t], mine[t][api[t]])
    BY <1>1, RefreshedSound DEF Refreshing
  <1>3. PICK s \in PublicationState : Put(api[t], [mine[t][api[t]] EXCEPT !.state = s])
    BY DEF RefreshHealth, PublicationState
  <1> QED
    BY <1>2, <1>3, SavedEndSound DEF RefreshHealth

\* A registration is dropped by the holder of the lock.
LEMMA DropSound ==
  ASSUME Inv, Data, NEW t \in Proc, Turn(t), Drop(t), Held(t)
  PROVE  Data'
  <1>1. pc[t] = "drop" /\ Put(api[t], NoRecord) /\ apps' = apps /\ pc[t] \in Working \ {"stop"}
    BY DEF Drop, Working
  <1>2. api[t] \in Api /\ Named(api[t]) = {}
    BY <1>1, Here, HereSound
  <1>3. Truthful(api[t], NoRecord)
    BY <1>2 DEF Truthful
  <1>4. Return(t)
    BY DEF Drop, Deleting
  <1> QED
    BY <1>1, <1>2, <1>3, <1>4, EndSound

\* All copies are true when they are made.
LEMMA UnpublishEnterSound ==
  ASSUME Inv, Data, NEW t \in Proc, Turn(t), UnpublishEnter(t)
  PROVE  Data'
  <1>1. Enter(t, {"disable", "leave"})
    BY DEF UnpublishEnter
  <1>2. Held(t) /\ pc[t] = "wait"
    BY <1>1, Entered DEF Withdrawing
  <1>3. /\ pc' = [pc EXCEPT ![t] = "stop"] /\ mine' = [mine EXCEPT ![t] = pub]
        /\ todo' = [todo EXCEPT ![t] = Registered]
        /\ UNCHANGED <<pub, apps, lock, job, api, grant>>
    BY DEF UnpublishEnter
  <1>4. /\ Others(t) /\ pc'[t] = "stop" /\ mine'[t] = pub
    BY <1>3 DEF Inv, ControlOK, StoresOK, Others, Same
  <1>5. \A a \in Api : ~Unrecorded(a) /\ Truthful(a, pub[a])
    BY <1>2, Recorded, StoredTruth
  <1>6. \A a \in Api : Cited(a, pub[a])
    BY DEF Data, NamesOK
  <1>7. \A a \in Copied(t)' : mine'[t][a] # NoRecord => Sound(a, mine'[t][a], apps')
    <2>1. Copied(t)' \subseteq Api
      <3>1. job[t] \in Withdrawing
        BY <1>1, Entered DEF Withdrawing
      <3> QED
        BY <1>3, <3>1 DEF Copied
    <2> QED
      BY <1>3, <1>4, <1>5, <2>1 DEF Truthful
  <1>8. CopySound(t)'
    BY <1>4, <1>7 DEF CopySound, Configuring, Refreshing
  <1> QED
    BY <1>2, <1>3, <1>4, <1>5, <1>6, <1>8, QuietSound

\* A withdrawal changes what is desired, and goes to Cloudflare for what is not clean.
LEMMA UnpublishSound ==
  ASSUME Inv, Data, NEW t \in Proc, Turn(t), Unpublish(t)
  PROVE  Data'
  <1>1. pc[t] = "stop" /\ apps' = apps
    BY DEF Unpublish
  <1>2. /\ Held(t) /\ job[t] \in Withdrawing /\ todo[t] \subseteq Api
        /\ \A a \in todo[t] : mine[t][a] \in Publication
    BY <1>1 DEF Inv, ControlOK, LocalOK, JobOK, JobAt, Inner
  <1>3. \A a \in Api : ~Unrecorded(a)
    BY <1>1, <1>2, Recorded
  <1>4. \A a \in Api : Cited(a, mine[t][a]) /\ (mine[t][a] # NoRecord => Sound(a, mine[t][a], apps))
    BY <1>1, <1>2 DEF Data, NamesOK, CopySound, Copied, Working, Inner
  <1>5. ASSUME NEW a \in Unstopped(t), Put(a, Stopped(mine[t][a], "unpublished")),
               mine' = [mine EXCEPT ![t] = [mine[t] EXCEPT ![a] = Stopped(mine[t][a], "unpublished")]],
               UNCHANGED <<lock, running, job, pc, api, grant, todo>>
        PROVE  Data'
    <2> DEFINE m == mine[t][a]
               r == Stopped(m, "unpublished")
    <2>1. a \in Api /\ m \in Publication
      BY <1>2 DEF Unstopped, Running
    <2>2. r \in Publication
      BY <2>1, Edits
    <2>3. r.owner = m.owner /\ r.clean = m.clean /\ r.app = m.app
      BY <2>1 DEF Stopped, Publication
    <2> HIDE DEF r
    <2>4. Truthful(a, r) /\ r # NoRecord
      <3>1. m # NoRecord
        BY <2>1, Edits
      <3> QED
        BY <1>4, <2>1, <2>2, <2>3, <3>1, Alike DEF Truthful
    <2>5. mine' = [mine EXCEPT ![t] = [mine[t] EXCEPT ![a] = r]] /\ Put(a, r)
      BY <1>5 DEF r
    <2>6. /\ Others(t) /\ mine'[t] = [mine[t] EXCEPT ![a] = r] /\ pc'[t] = "stop"
          /\ job'[t] = job[t]
      BY <1>1, <1>5, <2>5 DEF Inv, ControlOK, Others, Same
    <2>7. mine'[t][a] = r /\ \A b \in Api \ {a} : mine'[t][b] = mine[t][b]
      BY <2>1, <2>6 DEF Inv, ControlOK
    <2>8. pub'[a] = r /\ \A b \in Api \ {a} : pub'[b] = pub[b]
      BY <2>1, <2>5 DEF Put, Inv, StoresOK
    <2>9. \A b \in Api : Cited(b, mine'[t][b])
            /\ (mine'[t][b] # NoRecord => Sound(b, mine'[t][b], apps))
      BY <1>4, <2>4, <2>7 DEF Truthful
    <2>10. Copied(t)' = Api
      BY <1>2, <2>6 DEF Copied
    <2>11. CopySound(t)'
      BY <1>1, <2>6, <2>9, <2>10 DEF CopySound, Configuring, Refreshing
    <2>12. \A b \in Api : (pub'[b] = pub[b] /\ ~Unrecorded(b)) \/ Truthful(b, pub'[b])
      BY <1>3, <2>4, <2>8
    <2> QED
      BY <1>1, <1>2, <1>5, <2>6, <2>9, <2>11, <2>12, QuietSound
  <1>6. CASE Return(t) /\ UNCHANGED pub
    <2>1. PICK j \in Job \cup {"sync", "none"} : Leave(t, j)
      BY <1>6 DEF Return, Inv, ControlOK
    <2>2. /\ Others(t) /\ lock' = Tail(lock) /\ pc'[t] \in {"idle", "rows", "revoke"}
          /\ mine'[t] = [a \in Api |-> NoRecord]
      BY <1>2, <2>1, LeaveFacts
    <2>3. CopySound(t)'
      BY <2>2 DEF CopySound, Working, Inner, Configuring, Refreshing
    <2>4. \A a \in Api : Cited(a, mine'[t][a])
      BY <2>2 DEF Cited
    <2> QED
      BY <1>1, <1>2, <1>3, <1>6, <2>2, <2>3, <2>4, QuietSound
  <1>7. ASSUME NEW a \in todo[t], api' = [api EXCEPT ![t] = a], pc' = [pc EXCEPT ![t] = "remote"],
               UNCHANGED <<pub, lock, job, mine, grant, todo>>
        PROVE  Data'
    <2>1. Others(t) /\ pc'[t] = "remote" /\ job'[t] = job[t] /\ mine'[t] = mine[t]
      BY <1>7 DEF Inv, ControlOK, Others, Same
    <2>2. Copied(t)' = Api
      BY <1>2, <2>1 DEF Copied
    <2>3. CopySound(t)'
      BY <1>1, <1>4, <2>1, <2>2 DEF CopySound, Configuring, Refreshing
    <2> QED
      BY <1>1, <1>2, <1>3, <1>4, <1>7, <2>1, <2>3, QuietSound
  <1> QED
    BY <1>5, <1>6, <1>7 DEF Unpublish

\* Removed are the applications of the API's name, by ID or by name.
LEMMA Removed ==
  ASSUME Inv, Data, NEW t \in Proc, pc[t] = "remote"
  PROVE  apps \ Doomed(t) = {x \in apps : x.name # api[t]}
  <1> DEFINE a == api[t]
             r == mine[t][a]
  <1>1. a \in Api /\ r \in Publication /\ r # NoRecord
    BY Here, Edits DEF Working
  <1>2. /\ \A x \in apps : x.id = r.app => x.name = a
        /\ \A x, y \in apps : x.name = y.name => x = y
    BY <1>1 DEF Data, NamesOK, Cited, Unique
  <1>3. CASE Known(r) = {}
    BY <1>3 DEF Doomed, Named
  <1>4. CASE Known(r) # {}
    <2>1. PICK k \in apps : k.id = r.app
      BY <1>4 DEF Known
    <2>2. \A x \in apps : x.name = a <=> x.id = r.app
      BY <1>2, <2>1
    <2>3. Doomed(t) = {x \in apps : x.id = r.app}
      BY <1>4 DEF Doomed, Known
    <2> QED
      BY <2>2, <2>3
  <1> QED
    BY <1>3, <1>4

\* When the applications of API b are gone, records are as true as before, and those that
\* know of none are.
LEMMA Gone ==
  ASSUME Inv, Data, NEW b \in Api, apps' = {x \in apps : x.name # b}
  PROVE  /\ Unique'
         /\ \A x \in apps' : x.id \in AppId /\ x.name # b
         /\ \A a, m : Cited(a, m) => \A x \in apps' : m # NoRecord /\ x.id = m.app => x.name = a
         /\ \A a, m : m # NoRecord /\ Cited(a, m) /\ Sound(a, m, apps) => Sound(a, m, apps')
  <1>1. Unique'
    BY DEF Data, NamesOK, Unique
  <1>2. \A x \in apps' : x.id \in AppId /\ x.name # b
    BY DEF Inv, StoresOK, AccessApp
  <1>3. ASSUME NEW a, NEW m, m # NoRecord, Cited(a, m), Sound(a, m, apps)
        PROVE  Sound(a, m, apps')
    BY <1>3, Fewer DEF Cited
  <1> QED
    BY <1>1, <1>2, <1>3 DEF Cited

\* The holder, or what it left to Cloudflare, has removed the applications of an API.
LEMMA ShrunkSound ==
  ASSUME Inv, Data, NEW t \in Proc, Turn(t), Held(t), Others(t), lock' = lock \/ lock' = Tail(lock),
         pc[t] # "validate", NEW b \in Api, apps' = {x \in apps : x.name # b},
         \A a \in Api \ {b} : pub'[a] = pub[a],
         pub'[b] = pub[b] \/ (pub'[b] # NoRecord /\ pub'[b].app = NoApp),
         \A a \in Api : mine'[t][a] \in {NoRecord, mine[t][a]} \/ mine'[t][a].app = NoApp,
         CopySound(t)'
  PROVE  Data'
  <1>1. /\ Unique' /\ (\A x \in apps' : x.id \in AppId /\ x.name # b)
        /\ \A a, m : Cited(a, m) => \A x \in apps' : m # NoRecord /\ x.id = m.app => x.name = a
        /\ \A a, m : m # NoRecord /\ Cited(a, m) /\ Sound(a, m, apps) => Sound(a, m, apps')
    BY Gone
  <1>2. \A x \in apps' : x.id # NoApp
    BY <1>1, ConstantsAssumption
  <1>3. ASSUME NEW a \in Api PROVE Cited(a, pub[a])' /\ StoreSound(a)'
    <2>1. Truthful(a, pub[a])
      BY Recorded, StoredTruth
    <2>2. CASE a # b
      <3>1. pub[a] = NoRecord => Named(a)' = {}
        BY <2>1 DEF Truthful, Named
      <3> QED
        BY <1>1, <2>1, <2>2, <3>1 DEF Truthful, StoreSound, Cited
    <2>3. CASE a = b
      <3>1. Cited(b, pub[b])'
        BY <1>1, <1>2, <2>1, <2>3 DEF Truthful, Cited
      <3>2. StoreSound(b)'
        BY <1>1 DEF StoreSound, Named, Sound
      <3> QED
        BY <2>3, <3>1, <3>2
    <2> QED
      BY <2>2, <2>3
  <1>4. ASSUME NEW u \in Proc, NEW a \in Api PROVE Cited(a, mine[u][a])'
    <2>1. Cited(a, mine[u][a])
      BY DEF Data, NamesOK
    <2>2. mine'[u][a] \in {NoRecord, mine[u][a]} \/ mine'[u][a].app = NoApp
      BY DEF Others, Same
    <2> QED
      BY <1>1, <1>2, <2>1, <2>2 DEF Cited
  <1> QED
    BY <1>1, <1>3, <1>4, HolderSound

\* Under the lock, the answer may be lost.
LEMMA RemoveRemoteSound ==
  ASSUME Inv, Data, NEW t \in Proc, Turn(t), NEW told \in BOOLEAN, RemoveRemote(t, told), Held(t)
  PROVE  Data'
  <1> DEFINE a == api[t]
             m == mine[t][a]
             r == [m EXCEPT !.app = NoApp, !.clean = TRUE]
             p == AfterRemoval(t)
  <1>1. pc[t] = "remote" /\ apps' = {x \in apps : x.name # a} /\ pc[t] \in Working
    BY Removed DEF RemoveRemote, Working
  <1>2. a \in Api /\ m \in Publication
    BY <1>1, Here
  <1>3. r \in Publication /\ r.app = NoApp /\ r # NoRecord
    <2>1. r \in Publication /\ r # NoRecord
      BY <1>2, Edits
    <2> QED
      BY <1>2, <2>1 DEF Publication
  <1>4. /\ Unique' /\ (\A x \in apps' : x.id \in AppId /\ x.name # a)
        /\ \A b, k : k # NoRecord /\ Cited(b, k) /\ Sound(b, k, apps) => Sound(b, k, apps')
    BY <1>1, <1>2, Gone
  <1>5. /\ \A b \in Copied(t) : mine[t][b] # NoRecord => Sound(b, mine[t][b], apps)
        /\ \A b \in Api : Cited(b, mine[t][b])
    BY <1>1 DEF Data, NamesOK, CopySound
  <1> HIDE DEF r, p
  <1>6. ASSUME Return(t) \/ Fail(t), UNCHANGED pub \/ Put(a, r)
        PROVE  Data'
    <2>1. PICK j \in Job \cup {"sync", "none"} : Leave(t, j)
      BY <1>6 DEF Return, Fail, Inv, ControlOK, Job
    <2>2. /\ Others(t) /\ lock' = Tail(lock) /\ pc'[t] \in {"idle", "rows", "revoke"}
          /\ mine'[t] = [b \in Api |-> NoRecord]
      BY <2>1, LeaveFacts
    <2>3. CopySound(t)'
      BY <2>2 DEF CopySound, Working, Inner, Configuring, Refreshing
    <2>4. /\ \A b \in Api \ {a} : pub'[b] = pub[b]
          /\ pub'[a] = pub[a] \/ pub'[a] = r
      BY <1>2, <1>6 DEF Put, Inv, StoresOK
    <2> QED
      BY <1>1, <1>2, <1>3, <2>2, <2>3, <2>4, ShrunkSound
  <1>7. ASSUME p # "over", Put(a, r), Goto(t, p, r), UNCHANGED <<grant, todo>>
        PROVE  Data'
    <2>1. p \in {"stop", "drop"}
      BY <1>7 DEF AfterRemoval, p
    <2>2. p \in Awaiting \cup Elsewhere
      BY <2>1 DEF Elsewhere
    <2>3. /\ Others(t) /\ lock' = lock /\ pc'[t] = p /\ job'[t] = job[t] /\ api'[t] = a
          /\ mine'[t] = [mine[t] EXCEPT ![a] = r]
      BY <1>2, <1>3, <1>7, <2>2, NoGrant, GotoFacts
    <2>4. mine'[t][a] = r /\ \A b \in Api \ {a} : mine'[t][b] = mine[t][b]
      BY <1>2, <2>3 DEF Inv, ControlOK
    <2>5. pub'[a] = r /\ \A b \in Api \ {a} : pub'[b] = pub[b]
      BY <1>2, <1>7 DEF Put, Inv, StoresOK
    <2>6. Sound(a, r, apps')
      BY <1>4 DEF Sound
    <2>7. Copied(t)' = Copied(t) /\ Copied(t) \subseteq Api
      BY <1>2, <2>3 DEF Copied
    <2>8. \A b \in Copied(t)' : mine'[t][b] # NoRecord => Sound(b, mine'[t][b], apps')
      BY <1>4, <1>5, <2>4, <2>6, <2>7
    <2>9. Named(a)' = {} /\ Named(api[t])' = {}
      BY <1>4, <2>3 DEF Named
    <2>10. CopySound(t)'
      BY <2>1, <2>3, <2>8, <2>9 DEF CopySound, Configuring, Refreshing
    <2>11. \A b \in Api : mine'[t][b] \in {NoRecord, mine[t][b]} \/ mine'[t][b].app = NoApp
      BY <1>3, <2>4
    <2> QED
      BY <1>1, <1>2, <1>3, <2>3, <2>5, <2>10, <2>11, ShrunkSound
  <1> QED
    BY <1>6, <1>7 DEF RemoveRemote, r, p

\* A call that fails without effect leaves all records true.
LEMMA CloudflareFailsSound ==
  ASSUME Inv, Data, NEW t \in Proc, Turn(t), CloudflareFails(t), Held(t)
  PROVE  Data'
  <1>1. pc[t] \in {"app", "remote"} /\ apps' = apps
    BY DEF CloudflareFails
  <1>2. pc[t] \in Working \ {"stop"} /\ pc[t] \notin {"choose", "drop"}
    BY <1>1 DEF Working, Inner
  <1>3. api[t] \in Api /\ mine[t][api[t]] \in Publication /\ Truthful(api[t], mine[t][api[t]])
    BY <1>2, Here, HereSound
  <1>4. CASE Broken(t, mine[t][api[t]])
    BY <1>1, <1>3, <1>4, SavedEndSound DEF Broken, PublicationState
  <1>5. CASE Fail(t) /\ UNCHANGED pub
    BY <1>1, <1>3, <1>5, EndSound
  <1> QED
    BY <1>4, <1>5 DEF CloudflareFails

\* What a configuration does at Cloudflare.
LEMMA Appears ==
  ASSUME Inv, Data, NEW t \in Proc, pc[t] = "app", NEW x \in Configured(t),
         apps' = {y \in apps : y.id # x.id} \cup {x}
  PROVE  /\ x \in AccessApp /\ x.name = api[t] /\ x.owner = grant[t].owner
         /\ \A y \in apps' : y.name = api[t] => y = x
         /\ \A y, z \in apps' : y.id = z.id \/ y.name = z.name => y = z
         /\ \A y \in apps : y.name # api[t] => y \in apps'
         /\ \A b \in Api : pub[b] # NoRecord /\ pub[b].app = x.id => b = api[t]
         /\ \A u \in Proc, b \in Api : mine[u][b] # NoRecord /\ mine[u][b].app = x.id => b = api[t]
  <1> DEFINE a == api[t]
             r == mine[t][a]
             old == Existing(r, a)
  <1>1. pc[t] \in Working \ {"stop"} /\ pc[t] \in Inner /\ pc[t] \notin {"choose", "drop"}
    BY DEF Working, Inner
  <1>2. a \in Api /\ r \in Publication /\ r # NoRecord /\ Sound(a, r, apps) /\ Cited(a, r)
    <2>1. a \in Api /\ r \in Publication /\ r # NoRecord /\ Held(t)
      BY <1>1, Here, Edits
    <2> QED
      BY <1>1, <2>1 DEF Data, NamesOK, CopySound, Copied
  <1>3. x \in AccessApp /\ x.name = a /\ x.owner = grant[t].owner
    BY ConfiguredOK
  <1>4. x.id \in IF old = {} THEN NewAppIds ELSE {y.id : y \in old}
    BY DEF Configured
  <1>5. Unique /\ (\A b \in Api : Cited(b, pub[b]))
          /\ \A u \in Proc, b \in Api : Cited(b, mine[u][b])
    BY DEF Data, NamesOK
  <1>6. old \subseteq apps /\ \A y \in old : y.name = a
    BY <1>2 DEF Existing, Named, Known, Cited
  <1>7. CASE old = {}
    <2>1. \A y \in apps : y.name # a
      BY <1>2, <1>7 DEF Existing, Named, Known, Sound
    <2>2. /\ \A y \in apps : y.id # x.id
          /\ \A u \in Proc, b \in Api : \A q \in {pub[b], mine[u][b]} \ {NoRecord} : q.app # x.id
      BY <1>4, <1>7 DEF NewAppIds
    <2>3. \A u \in Proc, b \in Api : mine[u][b] # NoRecord => mine[u][b].app # x.id
      BY <2>2
    <2>4. \A b \in Api : pub[b] # NoRecord => pub[b].app # x.id
      BY <2>2
    <2> QED
      BY <1>3, <1>5, <2>1, <2>2, <2>3, <2>4 DEF Unique
  <1>8. CASE old # {}
    <2>1. PICK k \in apps : k.name = a /\ k.id = x.id
      BY <1>4, <1>6, <1>8
    <2>2. \A y \in apps : y.name = a \/ y.id = x.id => y = k
      BY <1>5, <2>1 DEF Unique
    <2> QED
      BY <1>3, <1>5, <2>1, <2>2 DEF Unique, Cited
  <1> QED
    BY <1>7, <1>8

\* A configured application is the only one of its name, with the owner of the copy.
LEMMA ConfigureAppSound ==
  ASSUME Inv, Data, NEW t \in Proc, Turn(t), NEW told \in BOOLEAN, ConfigureApp(t, told),
         lost' = lost
  PROVE  Data'
  <1> DEFINE a == api[t]
             m == mine[t][a]
  <1>1. pc[t] = "app" /\ pc[t] \in Working \ {"stop"} /\ pc[t] \in Inner /\ pc[t] \in Configuring
    BY DEF ConfigureApp, Working, Inner, Configuring
  <1>2. ~Lose
    BY DEF Lose, Inv, StoresOK
  <1>3. PICK x \in Configured(t) :
          /\ apps' = {y \in apps : y.id # x.id} \cup {x}
          /\ Goto(t, "validate", [m EXCEPT !.app = x.id])
          /\ UNCHANGED <<pub, grant, todo>>
    BY <1>2 DEF ConfigureApp
  <1> DEFINE r == [m EXCEPT !.app = x.id]
  <1>4. /\ x \in AccessApp /\ x.name = a /\ x.owner = grant[t].owner
        /\ \A y \in apps' : y.name = a => y = x
        /\ \A y, z \in apps' : y.id = z.id \/ y.name = z.name => y = z
        /\ \A y \in apps : y.name # a => y \in apps'
        /\ \A b \in Api : pub[b] # NoRecord /\ pub[b].app = x.id => b = a
        /\ \A u \in Proc, b \in Api : mine[u][b] # NoRecord /\ mine[u][b].app = x.id => b = a
    BY <1>1, <1>3, Appears
  <1>5. a \in Api /\ m \in Publication /\ Held(t) /\ m.owner = grant[t].owner /\ ~m.clean
    BY <1>1, Here, HereSound
  <1>6. /\ r \in Publication /\ r # NoRecord /\ r.owner = m.owner /\ ~r.clean /\ r.app = x.id
    <2>1. x.id \in AppId
      BY <1>4 DEF AccessApp
    <2>2. r \in Publication /\ r # NoRecord
      BY <1>5, <2>1, Edits
    <2> QED
      BY <1>5, <2>2 DEF Publication
  <1>7. Goto(t, "validate", r)
    BY <1>3
  <1> HIDE DEF r
  <1>8. x \in apps' /\ \A y \in apps' : y \in apps \/ y = x
    BY <1>3
  <1>9. /\ Others(t) /\ lock' = lock /\ pc'[t] = "validate" /\ job'[t] = job[t] /\ api'[t] = a
        /\ mine'[t] = [mine[t] EXCEPT ![a] = r]
    <2>1. "validate" \in Awaiting \cup Elsewhere
      BY DEF Awaiting
    <2> QED
      BY <1>3, <1>5, <1>6, <1>7, <2>1, NoGrant, GotoFacts
  <1>10. mine'[t][a] = r /\ \A b \in Api \ {a} : mine'[t][b] = mine[t][b]
    BY <1>5, <1>9 DEF Inv, ControlOK
  <1>11. job[t] \notin Withdrawing
    BY <1>1, Here DEF JobAt, Withdrawing
  <1>12. Sound(a, r, apps')
    BY <1>4, <1>5, <1>6, <1>8 DEF Sound, Clean
  <1>13. CopySound(t)'
    <2>1. Copied(t)' = {a}
      BY <1>9, <1>11 DEF Copied
    <2>2. \/ pub'[a] = NoRecord
          \/ pub'[a].owner = r.owner /\ ~pub'[a].clean
      BY <1>1, <1>3, <1>5, <1>6, HereSound
    <2>3. grant'[t] = grant[t]
      BY <1>3
    <2> QED
      BY <1>5, <1>6, <1>9, <1>10, <1>12, <2>1, <2>2, <2>3 DEF CopySound
  <1>14. ASSUME NEW b \in Api, b # a PROVE StoreSound(b)'
    <2>1. Truthful(b, pub[b])
      BY <1>1, <1>5, Recorded, StoredTruth
    <2>2. \A y \in apps' : y.name = b => y \in apps
      BY <1>4, <1>8, <1>14
    <2>3. CASE pub[b] = NoRecord
      <3>1. Named(b)' = {}
        BY <2>1, <2>2, <2>3 DEF Truthful, Named
      <3> QED
        BY <1>3, <2>3, <3>1 DEF StoreSound
    <2>4. CASE pub[b] # NoRecord
      <3>1. Sound(b, pub[b], apps) /\ \A y \in apps : y.id = pub[b].app => y \in apps'
        BY <1>4, <1>14, <2>1, <2>4 DEF Truthful, Cited
      <3>2. Sound(b, pub[b], apps')
        BY <2>2, <3>1 DEF Sound
      <3> QED
        BY <1>3, <2>4, <3>2 DEF StoreSound
    <2> QED
      BY <2>3, <2>4
  <1>15. Unique'
    BY <1>4 DEF Unique
  <1>16. \A b \in Api : Cited(b, pub[b])'
    BY <1>3, <1>4, <1>8 DEF Data, NamesOK, Cited
  <1>17. ASSUME NEW u \in Proc, NEW b \in Api PROVE Cited(b, mine[u][b])'
    <2>1. CASE u = t /\ b = a
      BY <1>4, <1>6, <1>8, <1>10, <2>1 DEF Cited
    <2>2. CASE ~(u = t /\ b = a)
      <3>1. mine'[u][b] = mine[u][b]
        BY <1>9, <1>10, <2>2 DEF Others, Same
      <3> QED
        BY <1>4, <1>8, <3>1 DEF Data, NamesOK, Cited
    <2> QED
      BY <2>1, <2>2
  <1> QED
    BY <1>5, <1>9, <1>13, <1>14, <1>15, <1>16, <1>17, HolderSound

-----------------------------------------------------------------------------
(***************************************************************************)
(* So do the steps outside the lock, those of a deletion among them.       *)
(***************************************************************************)

\* With fewer applications, or as many.
LEMMA NoMore ==
  ASSUME Inv, Data, NEW b \in Api, apps' = apps \/ apps' = {x \in apps : x.name # b}
  PROVE  /\ Unique' /\ apps' \subseteq apps /\ \A x \in apps' : x.id # NoApp
         /\ \A a, m : m # NoRecord /\ Cited(a, m) /\ Sound(a, m, apps) => Sound(a, m, apps')
  <1>1. \A x \in apps' : x.id # NoApp
    BY ConstantsAssumption DEF Inv, StoresOK, AccessApp
  <1>2. Unique'
    BY DEF Data, NamesOK, Unique
  <1>3. \A a, m : m # NoRecord /\ Cited(a, m) /\ Sound(a, m, apps) => Sound(a, m, apps')
    <2>1. CASE apps' = {x \in apps : x.name # b}
      BY <2>1, Gone
    <2> QED
      BY <2>1
  <1> QED
    BY <1>1, <1>2, <1>3

\* While a deletion moves, the copies of the others stay true.
LEMMA BesideSound ==
  ASSUME Inv, Data, NEW t \in Proc, Turn(t), Deleting(t), Others(t), lock' = lock,
         NEW b \in Api, apps' = apps \/ apps' = {x \in apps : x.name # b},
         \A a \in Api \ {b} : pub'[a] = pub[a],
         pub'[b] = pub[b] \/ pub'[b] = NoRecord \/ (pc'[t] = "drop" /\ api'[t] = b),
         pc[t] = "drop" => b = api[t] /\ pub'[b] = NoRecord,
         NEW u \in Proc \ {t}
  PROVE  CopySound(u)'
  <1>1. /\ pc'[u] = pc[u] /\ job'[u] = job[u] /\ api'[u] = api[u]
        /\ mine'[u] = mine[u] /\ grant'[u] = grant[u]
    BY DEF Others, Same
  <1>2. Held(u)' <=> Held(u)
    BY DEF Held
  <1>3. CopySound(u) /\ pc[u] # "drop" /\ (\A d \in Proc \ {t} : pc[d] # "drop")
    BY TurnOK DEF Data
  <1>4. /\ apps' \subseteq apps
        /\ \A a, m : m # NoRecord /\ Cited(a, m) /\ Sound(a, m, apps) => Sound(a, m, apps')
    BY NoMore
  <1>5. \A a \in Api : Cited(a, mine[u][a])
    BY DEF Data, NamesOK
  <1>6. pc[u] \in Working \ {"stop"} => api[u] \in Api
    BY Here
  <1>7. pc'[u] \in Working /\ Held(u)' =>
           \A a \in Copied(u)' : mine'[u][a] # NoRecord => Sound(a, mine'[u][a], apps')
    <2>1. Copied(u)' = Copied(u)
      BY <1>1 DEF Copied
    <2>2. pc[u] \in Working => Copied(u) \subseteq Api
      <3>1. pc[u] = "stop" => job[u] \in Withdrawing
        BY DEF Inv, LocalOK, JobOK, JobAt
      <3> QED
        BY <1>6, <3>1 DEF Copied
    <2> QED
      BY <1>1, <1>2, <1>3, <1>4, <1>5, <2>1, <2>2 DEF CopySound
  <1>8. pc'[u] = "choose" =>
          IF mine'[u][api'[u]] = NoRecord THEN Named(api[u])' = {}
          ELSE mine'[u][api'[u]].owner = grant'[u].owner
    BY <1>1, <1>3, <1>4 DEF CopySound, Named
  <1>9. ASSUME pc[u] \in Configuring
        PROVE  \/ pub'[api[u]] = NoRecord
               \/ pub'[api[u]].owner = mine[u][api[u]].owner /\ ~pub'[api[u]].clean
               \/ \E d \in Proc : pc'[d] = "drop" /\ api'[d] = api[u]
    <2>1. api[u] \in Api
      BY <1>6, <1>9 DEF Configuring, Working, Inner
    <2>2. \/ pub[api[u]] = NoRecord
          \/ pub[api[u]].owner = mine[u][api[u]].owner /\ ~pub[api[u]].clean
          \/ pc[t] = "drop" /\ api[t] = api[u]
      BY <1>3, <1>9 DEF CopySound
    <2>3. CASE api[u] # b
      BY <2>1, <2>2, <2>3
    <2>4. CASE api[u] = b
      BY <2>2, <2>4
    <2> QED
      BY <2>3, <2>4
  <1>10. pc[u] \in Configuring \cup Refreshing => mine[u][api[u]].owner = grant[u].owner
    BY <1>3 DEF CopySound
  <1>11. pc[u] \in Configuring => ~mine[u][api[u]].clean
    BY <1>3 DEF CopySound
  <1> QED
    BY <1>1, <1>3, <1>7, <1>8, <1>9, <1>10, <1>11 DEF CopySound

\* A deletion moves, and what it leaves behind is true.
LEMMA DeletionSound ==
  ASSUME Inv, Data, NEW t \in Proc, Turn(t), Deleting(t), Others(t), lock' = lock,
         NEW b \in Api, apps' = apps \/ apps' = {x \in apps : x.name # b},
         \A a \in Api \ {b} : pub'[a] = pub[a],
         \/ pub'[b] = pub[b]
         \/ pub'[b] = NoRecord /\ (\A x \in apps' : x.name # b)
         \/ pub'[b].app = NoApp /\ pc'[t] = "drop" /\ api'[t] = b /\ (\A x \in apps' : x.name # b),
         pc[t] = "drop" => b = api[t] /\ pub'[b] = NoRecord,
         \A a \in Api : mine'[t][a] \in {NoRecord, mine[t][a], pub[a]} \/ mine'[t][a].app = NoApp,
         CopySound(t)'
  PROVE  Data'
  <1>1. \A u \in Proc \ {t} : CopySound(u)'
    BY BesideSound
  <1>2. /\ Unique' /\ apps' \subseteq apps /\ (\A x \in apps' : x.id # NoApp)
        /\ \A a, m : m # NoRecord /\ Cited(a, m) /\ Sound(a, m, apps) => Sound(a, m, apps')
    BY NoMore
  <1>3. ASSUME NEW a \in Api PROVE Cited(a, pub[a])'
    <2>1. Cited(a, pub[a])
      BY DEF Data, NamesOK
    <2>2. pub'[a] \in {NoRecord, pub[a]} \/ pub'[a].app = NoApp
      OBVIOUS
    <2> QED
      BY <1>2, <2>1, <2>2 DEF Cited
  <1>4. ASSUME NEW u \in Proc, NEW a \in Api PROVE Cited(a, mine[u][a])'
    <2>1. Cited(a, mine[u][a]) /\ Cited(a, pub[a])
      BY DEF Data, NamesOK
    <2>2. mine'[u][a] \in {NoRecord, mine[u][a], pub[a]} \/ mine'[u][a].app = NoApp
      BY DEF Others, Same
    <2> QED
      BY <1>2, <2>1, <2>2 DEF Cited
  <1>5. ASSUME NEW a \in Api, ~Unrecorded(a)' PROVE StoreSound(a)'
    <2>1. pc[t] # "validate"
      BY DEF Deleting
    <2>2. ~Unrecorded(a)
      BY <1>5, <2>1 DEF Unrecorded, Others, Same
    <2>3. Truthful(a, pub[a])
      BY <2>2, StoredTruth
    <2>4. CASE pub'[a] = pub[a]
      BY <1>2, <2>3, <2>4 DEF Truthful, StoreSound, Named
    <2>5. CASE pub'[a] # pub[a]
      <3>1. \A x \in apps' : x.name # a
        BY <2>5
      <3> QED
        BY <3>1 DEF StoreSound, Named, Sound
    <2> QED
      BY <2>4, <2>5
  <1> QED
    BY <1>1, <1>2, <1>3, <1>4, <1>5 DEF Data, NamesOK

\* The deletion ends, or fails, with fewer applications or as many.
LEMMA DeletionEndSound ==
  ASSUME Inv, Data, NEW t \in Proc, Turn(t), Deleting(t), pc[t] # "drop", Return(t) \/ Fail(t),
         UNCHANGED pub,
         \/ apps' = apps
         \/ \E b \in Api : apps' = {x \in apps : x.name # b}
  PROVE  Data'
  <1>1. PICK j \in Job \cup {"sync", "none"} : Leave(t, j)
    BY DEF Return, Fail, Inv, ControlOK, Job
  <1>2. /\ Others(t) /\ lock' = lock /\ pc'[t] \in {"idle", "rows", "revoke"}
        /\ mine'[t] = [a \in Api |-> NoRecord]
    BY <1>1, LeaveFacts DEF Deleting
  <1>3. CopySound(t)'
    BY <1>2 DEF CopySound, Working, Inner, Configuring, Refreshing
  <1>4. CASE Api = {}
    <2>1. apps = {} /\ apps' = {}
      BY <1>4 DEF Inv, StoresOK, AccessApp
    <2>2. \A u \in Proc : CopySound(u)'
      <3>1. ASSUME NEW u \in Proc, pc[u] \in Working \ {"stop"} PROVE FALSE
        BY <1>4, <3>1, Here
      <3>2. \A u \in Proc \ {t} : pc'[u] = pc[u] /\ job'[u] = job[u]
        BY <1>2 DEF Others, Same
      <3>3. ASSUME NEW u \in Proc \ {t}, pc[u] = "stop" PROVE FALSE
        BY <3>3, TurnOK
      <3> QED
        BY <1>3, <3>1, <3>2, <3>3 DEF CopySound, Working, Inner, Configuring, Refreshing
    <2> QED
      BY <1>4, <2>1, <2>2 DEF Data, NamesOK, Unique
  <1>5. CASE Api # {}
    <2>1. PICK b \in Api : apps' = apps \/ apps' = {x \in apps : x.name # b}
      BY <1>5
    <2> QED
      BY <1>2, <1>3, <2>1, DeletionSound
  <1> QED
    BY <1>4, <1>5

\* A deletion removes an application beside the holder of the lock.
LEMMA AloneRemoveSound ==
  ASSUME Inv, Data, NEW t \in Proc, Turn(t), NEW told \in BOOLEAN, RemoveRemote(t, told),
         Deleting(t)
  PROVE  Data'
  <1> DEFINE a == api[t]
             r == [mine[t][a] EXCEPT !.app = NoApp, !.clean = TRUE]
             p == AfterRemoval(t)
  <1>1. pc[t] = "remote" /\ apps' = {x \in apps : x.name # a}
    BY Removed DEF RemoveRemote
  <1>2. a \in Api /\ mine[t][a] \in Publication
    BY <1>1, Here DEF Working
  <1>3. r \in Publication /\ r.app = NoApp
    <2>1. r \in Publication
      BY <1>2, Edits
    <2> QED
      BY <1>2, <2>1 DEF Publication
  <1>4. p = "drop"
    BY DEF AfterRemoval, Deleting
  <1> HIDE DEF r, p
  <1>5. CASE Put(a, r) /\ Goto(t, "drop", r) /\ UNCHANGED <<grant, todo>>
    <2>1. "drop" \in Awaiting \cup Elsewhere
      BY DEF Elsewhere
    <2>2. /\ Others(t) /\ lock' = lock /\ pc'[t] = "drop" /\ job'[t] = job[t] /\ api'[t] = a
          /\ mine'[t] = [mine[t] EXCEPT ![a] = r]
      BY <1>2, <1>3, <1>5, <2>1, NoGrant, GotoFacts
    <2>3. mine'[t][a] = r /\ \A b \in Api \ {a} : mine'[t][b] = mine[t][b]
      BY <1>2, <2>2 DEF Inv, ControlOK
    <2>4. pub'[a] = r /\ \A b \in Api \ {a} : pub'[b] = pub[b]
      BY <1>2, <1>5 DEF Put, Inv, StoresOK
    <2>5. (\A x \in apps' : x.name # a) /\ Named(api[t])' = {}
      BY <1>1, <2>2 DEF Named
    <2>6. ~Held(t)'
      BY <2>2 DEF Held, Deleting
    <2>7. CopySound(t)'
      BY <2>2, <2>5, <2>6 DEF CopySound, Configuring, Refreshing
    <2>8. \A b \in Api : mine'[t][b] \in {NoRecord, mine[t][b], pub[b]} \/ mine'[t][b].app = NoApp
      BY <1>3, <2>3
    <2> QED
      BY <1>1, <1>2, <1>3, <2>2, <2>4, <2>5, <2>7, <2>8, DeletionSound
  <1>6. CASE Fail(t) /\ UNCHANGED pub
    BY <1>1, <1>2, <1>6, DeletionEndSound
  <1> QED
    BY <1>4, <1>5, <1>6 DEF RemoveRemote, r, p

\* A deletion drops a record beside the holder of the lock.
LEMMA AloneDropSound ==
  ASSUME Inv, Data, NEW t \in Proc, Turn(t), Drop(t), Deleting(t)
  PROVE  Data'
  <1> DEFINE a == api[t]
  <1>1. /\ pc[t] = "drop" /\ Put(a, NoRecord) /\ apps' = apps
        /\ Goto(t, "next", NoRecord) /\ UNCHANGED <<grant, todo>>
    BY DEF Drop
  <1>2. a \in Api
    BY <1>1, Here DEF Working
  <1>3. "next" \in Awaiting \cup Elsewhere
    BY DEF Elsewhere
  <1>4. /\ Others(t) /\ lock' = lock /\ pc'[t] = "next"
        /\ mine'[t] = [mine[t] EXCEPT ![a] = NoRecord]
    BY <1>1, <1>2, <1>3, NoGrant, GotoFacts
  <1>5. \A b \in Api : mine'[t][b] \in {NoRecord, mine[t][b]}
    BY <1>2, <1>4 DEF Inv, ControlOK
  <1>6. pub'[a] = NoRecord /\ \A b \in Api \ {a} : pub'[b] = pub[b]
    BY <1>1, <1>2 DEF Put, Inv, StoresOK
  <1>7. \A x \in apps' : x.name # a
    BY <1>1 DEF Data, CopySound, Named
  <1>8. CopySound(t)'
    BY <1>4 DEF CopySound, Working, Inner, Configuring, Refreshing
  <1> QED
    BY <1>1, <1>2, <1>4, <1>5, <1>6, <1>7, <1>8, DeletionSound

\* A deletion takes up a record as it is stored.
LEMMA DeleteNextSound ==
  ASSUME Inv, Data, NEW t \in Proc, Turn(t), DeleteNext(t)
  PROVE  Data'
  <1>1. pc[t] = "next" /\ UNCHANGED <<pub, apps>>
    BY DEF DeleteNext
  <1>2. Deleting(t)
    BY <1>1, Behind
  <1>3. CASE Return(t) \/ Fail(t)
    BY <1>1, <1>2, <1>3, DeletionEndSound
  <1>4. ASSUME NEW a \in todo[t], pub[a] # NoRecord, api' = [api EXCEPT ![t] = a],
               mine' = [mine EXCEPT ![t] = [mine[t] EXCEPT ![a] = pub[a]]],
               todo' = [todo EXCEPT ![t] = todo[t] \ {a}],
               pc' = [pc EXCEPT ![t] = IF Clean(pub[a]) THEN "drop" ELSE "remote"],
               UNCHANGED <<lock, job, grant>>
        PROVE  Data'
    <2>1. a \in Api
      BY DEF Inv, ControlOK
    <2>2. PICK p \in {"drop", "remote"} :
            pc' = [pc EXCEPT ![t] = p] /\ (p = "drop" => Clean(pub[a]))
      BY <1>4
    <2>3. mine'[t] = [mine[t] EXCEPT ![a] = pub[a]] /\ \A u \in Proc \ {t} : mine'[u] = mine[u]
      BY <1>4 DEF Inv, ControlOK
    <2>4. Others(t) /\ pc'[t] = p /\ api'[t] = a /\ job'[t] = job[t]
      BY <1>4, <2>2, <2>3 DEF Inv, ControlOK, Others, Same
    <2>5. \A b \in Api : mine'[t][b] \in {mine[t][b], pub[b]}
      BY <2>1, <2>3 DEF Inv, ControlOK
    <2>6. ASSUME p = "drop" PROVE \A x \in apps' : x.name # a
      <3>1. Clean(pub[a])
        BY <2>2, <2>6
      <3>2. ~Unrecorded(a)
        <4>1. ASSUME NEW u \in Proc, pc[u] = "validate", api[u] = a PROVE FALSE
          <5>1. \A d \in Proc : pc[d] # "drop"
            BY <1>1, TurnOK
          <5>2. pub[a] = NoRecord \/ ~pub[a].clean
            BY <4>1, <5>1 DEF Data, CopySound, Configuring
          <5> QED
            BY <1>4, <3>1, <5>2 DEF Clean
        <4> QED
          BY <4>1 DEF Unrecorded
      <3>3. Truthful(a, pub[a])
        BY <2>1, <3>2, StoredTruth
      <3> QED
        BY <1>1, <1>4, <3>1, <3>3 DEF Truthful, Sound
    <2>7. ~Held(t)'
      BY <1>2, <1>4 DEF Held, Deleting
    <2>8. CopySound(t)'
      BY <2>2, <2>4, <2>6, <2>7 DEF CopySound, Configuring, Refreshing, Named
    <2> QED
      BY <1>1, <1>2, <1>4, <2>1, <2>4, <2>5, <2>8, DeletionSound
  <1> QED
    BY <1>3, <1>4 DEF DeleteNext

\* Outside the lock nothing is written.
LEMMA OutsideSound ==
  ASSUME Inv, Data, NEW t \in Proc, Others(t), lock' = lock \/ lock' = Append(lock, t),
         UNCHANGED <<pub, apps>>, pc[t] \notin Working, pc'[t] \notin Working,
         \A a \in Api : mine'[t][a] \in {mine[t][a], pub[a]}
  PROVE  Data'
  <1>1. lock \in Seq(Proc)
    BY DEF Inv, ControlOK
  <1>2. ASSUME NEW u \in Proc \ {t} PROVE CopySound(u)'
    <2>1. /\ pc'[u] = pc[u] /\ job'[u] = job[u] /\ api'[u] = api[u]
          /\ mine'[u] = mine[u] /\ grant'[u] = grant[u] /\ Copied(u)' = Copied(u)
      BY DEF Others, Same, Copied
    <2>2. Held(u)' => Held(u)
      BY <1>1 DEF Held
    <2>3. CopySound(u)
      BY DEF Data
    <2>4. \A d \in Proc : pc[d] = "drop" => pc'[d] = "drop" /\ api'[d] = api[d]
      BY DEF Others, Same, Working
    <2>5. pc[u] \in Configuring =>
            \/ pub'[api[u]] = NoRecord
            \/ pub'[api[u]].owner = mine[u][api[u]].owner /\ ~pub'[api[u]].clean
            \/ \E d \in Proc : pc'[d] = "drop" /\ api'[d] = api[u]
      BY <2>3, <2>4 DEF CopySound
    <2>6. pc[u] \in Working /\ Held(u)' =>
            \A a \in Copied(u) : mine[u][a] # NoRecord => Sound(a, mine[u][a], apps)
      BY <2>2, <2>3 DEF CopySound
    <2>7. pc[u] = "choose" => IF mine[u][api[u]] = NoRecord THEN Named(api[u])' = {}
                              ELSE mine[u][api[u]].owner = grant[u].owner
      BY <2>1, <2>3 DEF CopySound, Named
    <2>8. pc[u] = "drop" => Named(api[u])' = {}
      BY <2>1, <2>3 DEF CopySound, Named
    <2>9. /\ pc[u] \in Configuring \cup Refreshing => mine[u][api[u]].owner = grant[u].owner
          /\ pc[u] \in Configuring => ~mine[u][api[u]].clean
      BY <2>3 DEF CopySound
    <2> QED
      BY <2>1, <2>5, <2>6, <2>7, <2>8, <2>9 DEF CopySound
  <1>3. CopySound(t)'
    BY DEF CopySound, Working, Inner, Configuring, Refreshing
  <1>4. \A a \in Api : ~Unrecorded(a)' => StoreSound(a)'
    <2>1. \A a \in Api : Unrecorded(a) => Unrecorded(a)'
      BY DEF Unrecorded, Others, Same, Working, Inner
    <2> QED
      BY <2>1 DEF Data, StoreSound, Named
  <1>5. Unique' /\ \A a \in Api : Cited(a, pub[a])'
    BY DEF Data, NamesOK, Unique, Cited
  <1>6. \A u \in Proc, a \in Api : Cited(a, mine[u][a])'
    <2>1. \A u \in Proc, a \in Api : mine'[u][a] \in {mine[u][a], pub[a]}
      BY DEF Others, Same
    <2> QED
      BY <2>1 DEF Data, NamesOK, Cited
  <1> QED
    BY <1>2, <1>3, <1>4, <1>5, <1>6 DEF Data, NamesOK

\* What does not touch the registrations leaves them as true.
LEMMA AsideSound ==
  ASSUME Data, UNCHANGED <<control, pub, apps>>
  PROVE  Data'
  <1>1. UNCHANGED <<lock, running, job, pc, api, mine, grant, todo, pub, apps>>
    BY DEF control
  <1>2. NamesOK'
    BY <1>1 DEF Data, NamesOK, Unique, Cited
  <1>3. \A a \in Api : ~Unrecorded(a)' => StoreSound(a)'
    BY <1>1 DEF Data, Unrecorded, StoreSound, Named
  <1>4. \A u \in Proc : CopySound(u)'
    BY <1>1 DEF Data, CopySound, Copied, Held, Named
  <1> QED
    BY <1>2, <1>3, <1>4 DEF Data

\* Steps that only move a coroutine outside the lock.
Outside(t) ==
    \/ DisableDeny(t) \/ DeleteEnter(t) \/ DeleteLinuxUser(t)
    \/ \E ok \in BOOLEAN : Revoke(t, ok)
    \/ \E j \in Job, a \in Api \cup {NoApi} : Submit(t, j, a)
    \/ t = Sync /\ (SyncStart \/ SyncSweep \/ SyncNext)

\* At most t lines up for the lock, and reads a registration.
Idly(t) ==
    /\ UNCHANGED <<pub, apps>> /\ Others(t)
    /\ lock' = lock \/ lock' = Append(lock, t)
    /\ pc[t] \notin Working /\ pc'[t] \notin Working
    /\ \A a \in Api : mine'[t][a] \in {mine[t][a], pub[a]}

\* A step outside the lock leaves registrations, applications and copies in use alone.
LEMMA OutsideStep ==
  ASSUME Inv, NEW t \in Proc, Outside(t)
  PROVE  Idly(t)
  <1>1. ControlOK
    BY DEF Inv
  <1>2. pc[t] \in {"idle", "rows", "deny", "revoke", "userdel", "gone"} => pc[t] \notin Working
    BY DEF Working, Inner
  <1>3. ASSUME NEW j, NEW p \in Elsewhere \ {"stop", "drop"}, Outward(t, j, p, lock),
               UNCHANGED grant,
               \A u \in Proc \ {t} : todo'[u] = todo[u] /\ api'[u] = api[u] /\ mine'[u] = mine[u]
        PROVE  /\ Others(t) /\ (lock' = lock \/ lock' = Append(lock, t))
               /\ pc'[t] \notin Working
    <2>1. pc'[t] = p /\ Others(t)
      BY <1>1, <1>3 DEF ControlOK, Outward, Others, Same
    <2> QED
      BY <1>3, <2>1 DEF Outward, Elsewhere, Working, Inner
  <1>4. {"wait", "idle", "userdel", "next", "deny", "rows"} \subseteq Elsewhere \ {"stop", "drop"}
    BY DEF Elsewhere
  <1>5. UNCHANGED mine => \A a \in Api : mine'[t][a] \in {mine[t][a], pub[a]}
    OBVIOUS
  <1>6. CASE DisableDeny(t)
    <2>1. /\ pc[t] = "deny" /\ UNCHANGED <<pub, apps, api, mine, grant, todo>>
          /\ \E p \in {"wait", "idle"} : Outward(t, job[t], p, lock)
      BY <1>6 DEF DisableDeny
    <2> QED
      BY <1>2, <1>3, <1>4, <1>5, <2>1 DEF Idly
  <1>7. CASE DeleteEnter(t)
    <2>1. /\ pc[t] \in {"userdel", "gone"} /\ UNCHANGED <<pub, apps, api, mine, grant>>
          /\ \E p \in {"next", "idle"} : Outward(t, job[t], p, lock)
          /\ todo' = [todo EXCEPT ![t] = Registered] \/ UNCHANGED todo
      BY <1>7 DEF DeleteEnter
    <2>2. \A u \in Proc \ {t} : todo'[u] = todo[u]
      BY <1>1, <2>1 DEF ControlOK
    <2> QED
      BY <1>2, <1>3, <1>4, <1>5, <2>1, <2>2 DEF Idly
  <1>8. CASE DeleteLinuxUser(t)
    <2>1. /\ pc[t] = "userdel" /\ pc' = [pc EXCEPT ![t] = "gone"]
          /\ UNCHANGED <<pub, apps, lock, job, api, mine, grant, todo>>
      BY <1>8 DEF DeleteLinuxUser
    <2>2. pc'[t] = "gone" /\ Others(t)
      BY <1>1, <2>1 DEF ControlOK, Others, Same
    <2> QED
      BY <1>2, <1>5, <2>1, <2>2 DEF Idly, Working, Inner
  <1>9. ASSUME NEW ok \in BOOLEAN, Revoke(t, ok) PROVE Idly(t)
    <2>1. /\ pc[t] = "revoke" /\ UNCHANGED <<pub, apps, api, mine, grant, todo>>
          /\ \/ UNCHANGED <<lock, running, job, pc>>
             \/ \E p \in {"userdel", "idle"} : Outward(t, job[t], p, lock)
      BY <1>9 DEF Revoke
    <2>2. UNCHANGED <<lock, running, job, pc>> => Others(t)
      BY <2>1 DEF Others, Same
    <2> QED
      BY <1>2, <1>3, <1>4, <1>5, <2>1, <2>2 DEF Idly
  <1>10. ASSUME NEW j \in Job, NEW a \in Api \cup {NoApi}, Submit(t, j, a) PROVE Idly(t)
    <2>1. /\ pc[t] = "idle" /\ UNCHANGED <<pub, apps, mine, grant, todo>>
          /\ api' = [api EXCEPT ![t] = a]
          /\ \E p \in {"deny", "wait"} : Outward(t, j, p, lock)
      BY <1>10 DEF Submit
    <2>2. \A u \in Proc \ {t} : api'[u] = api[u]
      BY <1>1, <2>1 DEF ControlOK
    <2> QED
      BY <1>2, <1>3, <1>4, <1>5, <2>1, <2>2 DEF Idly
  <1>11. CASE t = Sync /\ (SyncStart \/ SyncSweep)
    <2>1. /\ pc[t] = "idle" /\ UNCHANGED <<pub, apps, api, mine, grant>>
          /\ todo' = [todo EXCEPT ![t] = Registered] \/ UNCHANGED todo
          /\ \E j, p \in {"rows", "deny", "sync", "disable"} :
                p \in {"rows", "deny"} /\ Outward(t, j, p, lock)
      BY <1>11 DEF SyncStart, SyncSweep
    <2>2. \A u \in Proc \ {t} : todo'[u] = todo[u]
      BY <1>1, <2>1 DEF ControlOK
    <2> QED
      BY <1>2, <1>3, <1>4, <1>5, <2>1, <2>2 DEF Idly
  <1>12. CASE t = Sync /\ SyncNext
    <2>1. pc[t] = "rows" /\ UNCHANGED <<pub, apps, grant>>
      BY <1>12 DEF SyncNext
    <2>2. CASE Outward(t, "sync", "idle", lock) /\ UNCHANGED <<api, mine, todo>>
      BY <1>2, <1>3, <1>4, <1>5, <2>1, <2>2 DEF Idly
    <2>3. ASSUME NEW a \in todo[t], todo' = [todo EXCEPT ![t] = todo[t] \ {a}],
                 UNCHANGED <<api, mine, lock, running, job, pc>>
          PROVE  Idly(t)
      <3>1. Others(t)
        BY <1>1, <2>1, <2>3 DEF ControlOK, Others, Same
      <3> QED
        BY <1>2, <1>5, <2>1, <2>3, <3>1 DEF Idly
    <2>4. ASSUME NEW a \in todo[t], todo' = [todo EXCEPT ![t] = todo[t] \ {a}],
                 Outward(t, "sync", "wait", lock), api' = [api EXCEPT ![t] = a],
                 mine' = [mine EXCEPT ![t] = [mine[t] EXCEPT ![a] = pub[a]]]
          PROVE  Idly(t)
      <3>1. \A u \in Proc \ {t} : todo'[u] = todo[u] /\ api'[u] = api[u] /\ mine'[u] = mine[u]
        BY <1>1, <2>4 DEF ControlOK
      <3>2. /\ mine'[t] = [mine[t] EXCEPT ![a] = pub[a]]
            /\ mine[t] \in [Api -> Publication \cup {NoRecord}]
        BY <1>1, <2>4 DEF ControlOK
      <3>3. \A b \in Api : mine'[t][b] \in {mine[t][b], pub[b]}
        BY <3>2
      <3> QED
        BY <1>2, <1>3, <1>4, <2>1, <2>4, <3>1, <3>3 DEF Idly
    <2> QED
      BY <1>12, <2>2, <2>3, <2>4 DEF SyncNext
  <1> QED
    BY <1>6, <1>7, <1>8, <1>9, <1>10, <1>11, <1>12 DEF Outside

\* A coroutine takes its turn, and no answer is lost but to a removal.
LEMMA CoroutineSound ==
  ASSUME Inv, Data, NEW t \in Proc, Coroutine(t),
         \A told \in BOOLEAN : Turn(t) /\ ConfigureApp(t, told) => lost' = lost
  PROVE  Data'
  <1>1. ASSUME Outside(t) PROVE Data'
    BY <1>1, OutsideStep, OutsideSound DEF Idly
  <1>2. CASE Configure(t)
    BY <1>2, ConfigureCheckedSound, ConfigureAppSound, ConfigureDoneSound DEF Coroutine, Configure
  <1>3. pc[t] \in {"app", "remote", "drop"} => Held(t) \/ Deleting(t)
    BY Here DEF Working, Inner
  <1>4. CASE Change(t)
    <2>1. CASE Drop(t)
      BY <1>3, <2>1, DropSound, AloneDropSound DEF Coroutine, Drop
    <2>2. ASSUME NEW told \in BOOLEAN, RemoveRemote(t, told) PROVE Data'
      BY <1>3, <2>2, RemoveRemoteSound, AloneRemoveSound DEF Coroutine, RemoveRemote
    <2> QED
      BY <1>4, <2>1, <2>2, RegisterEnterSound, PublishEnterSound, StopEnterSound,
         RegisterChosenSound
      DEF Coroutine, Change
  <1>5. CASE Refresh(t)
    BY <1>5, RefreshEnterSound, RefreshValidatedSound, RefreshRestartedSound, RefreshHealthSound
    DEF Coroutine, Refresh
  <1>6. CASE Disable(t)
    BY <1>1, <1>6, UnpublishEnterSound, UnpublishSound, DeleteNextSound DEF Coroutine, Disable,
       Outside
  <1>7. CASE CloudflareFails(t)
    <2>1. CASE Held(t)
      BY <1>7, <2>1, CloudflareFailsSound DEF Coroutine
    <2>2. CASE ~Held(t)
      <3>1. Deleting(t) /\ pc[t] = "remote" /\ apps' = apps /\ Fail(t) /\ UNCHANGED pub
        BY <1>3, <1>7, <2>2 DEF CloudflareFails, Deleting
      <3> QED
        BY <3>1, DeletionEndSound DEF Coroutine
    <2> QED
      BY <2>1, <2>2
  <1> QED
    BY <1>2, <1>4, <1>5, <1>6, <1>7 DEF Coroutine

\* Whatever happens, but a restart and a lost answer to a configuration.
LEMMA NextSound ==
  ASSUME Inv, Data, [Next]_vars, ~Crash,
         \A t \in Proc, told \in BOOLEAN : Turn(t) /\ ConfigureApp(t, told) => lost' = lost
  PROVE  Data'
  <1>1. ASSUME NEW t \in Proc, Outside(t) PROVE Data'
    BY <1>1, OutsideStep, OutsideSound DEF Idly
  <1>2. ASSUME NEW t \in Request, Handle(t) PROVE Data'
    BY <1>1, <1>2 DEF Handle, Outside, Proc
  <1>3. CASE Synchronise
    BY <1>1, <1>3 DEF Synchronise, Outside, Proc
  <1>4. CASE Surroundings
    <2>1. UNCHANGED <<control, pub, apps>>
      BY <1>4 DEF Surroundings, Credentials, AccountChanges, Expire
    <2> QED
      BY <2>1, AsideSound
  <1>5. CASE UNCHANGED vars
    BY <1>5, AsideSound DEF vars
  <1>6. ASSUME NEW t \in Proc, DeleteLinuxUser(t) PROVE Data'
    BY <1>1, <1>6 DEF Outside
  <1> QED
    BY <1>2, <1>3, <1>4, <1>5, <1>6, CoroutineSound DEF Next

-----------------------------------------------------------------------------
(***************************************************************************)
(* What is on record, while no answer is lost.                             *)
(***************************************************************************)

\* Answers lost and restarts are counted.
LEMMA Counters ==
  ASSUME [Next]_vars
  PROVE  /\ UNCHANGED lost \/ Lose
         /\ UNCHANGED crashes \/ (Crash /\ crashes' = crashes + 1 /\ UNCHANGED lost)
  <1>1. ASSUME NEW t \in Proc, Configure(t) PROVE UNCHANGED crashes /\ (UNCHANGED lost \/ Lose)
    BY <1>1 DEF Configure, ConfigureChecked, ConfigureApp, ConfigureDone
  <1>2. ASSUME NEW t \in Proc, Change(t) PROVE UNCHANGED crashes /\ (UNCHANGED lost \/ Lose)
    BY <1>2 DEF Change, RegisterEnter, PublishEnter, StopEnter, Drop, RegisterChosen, RemoveRemote
  <1>3. ASSUME NEW t \in Proc, Refresh(t) PROVE UNCHANGED <<lost, crashes>>
    BY <1>3 DEF Refresh, RefreshEnter, RefreshValidated, RefreshRestarted, RefreshHealth
  <1>4. ASSUME NEW t \in Proc, Disable(t) PROVE UNCHANGED <<lost, crashes>>
    BY <1>4 DEF Disable, DisableDeny, UnpublishEnter, Unpublish, DeleteEnter, DeleteNext, Revoke
  <1>5. ASSUME NEW t \in Proc, CloudflareFails(t) PROVE UNCHANGED <<lost, crashes>>
    BY <1>5 DEF CloudflareFails
  <1>6. ASSUME NEW t \in Proc, DeleteLinuxUser(t) PROVE UNCHANGED <<lost, crashes>>
    BY <1>6 DEF DeleteLinuxUser
  <1>7. CASE Synchronise
    BY <1>7 DEF Synchronise, SyncStart, SyncSweep, SyncNext
  <1>8. CASE Surroundings
    BY <1>8 DEF Surroundings, Credentials, AccountChanges, Expire
  <1>9. CASE Crash
    BY <1>9 DEF Crash
  <1>10. ASSUME NEW t \in Request, Handle(t) PROVE UNCHANGED <<lost, crashes>>
    BY <1>10 DEF Handle, Submit
  <1>11. CASE UNCHANGED vars
    BY <1>11 DEF vars
  <1> QED
    BY <1>1, <1>2, <1>3, <1>4, <1>5, <1>6, <1>7, <1>8, <1>9, <1>10, <1>11 DEF Next, Coroutine

\* Nothing was counted if nothing is.
LEMMA Tally ==
  \A l, c, k, d \in Nat : k \in {l, l + 1} /\ d \in {c, c + 1} /\ k + d = 0 => l = 0 /\ c = 0
    /\ k = 0 /\ d = 0
  OBVIOUS

\* All that is stored is true.
TrueStore == \A a \in Api : Truthful(a, pub[a])

\* At rest, records tell the truth if the stored ones do.
LEMMA RestedSound == Rested /\ Unique /\ TrueStore => Data
  <1> SUFFICES ASSUME Rested, Unique, \A a \in Api : Truthful(a, pub[a]) PROVE Data
    BY DEF TrueStore
  <1>1. \A t \in Proc, a \in Api : mine[t][a] = NoRecord
    BY DEF Rested
  <1>2. NamesOK
    BY <1>1 DEF NamesOK, Truthful, Cited
  <1>3. \A t \in Proc : CopySound(t)
    BY DEF Rested, CopySound, Working, Inner, Configuring, Refreshing
  <1> QED
    BY <1>2, <1>3 DEF Data, StoreSound, Truthful

\* At the beginning there is nothing to be wrong about.
LEMMA InitSound == Init => Data
  <1> SUFFICES ASSUME Init PROVE Data
    OBVIOUS
  <1>1. Rested /\ Unique /\ TrueStore
    BY DEF Init, Rested, Unique, TrueStore, Truthful, Named
  <1> QED
    BY <1>1, RestedSound

\* CleanIsClean and AppAdmitsOwner say less.
LEMMA SoundStores ==
  ASSUME Inv, Data
  PROVE  CleanIsClean /\ AppAdmitsOwner
  <1>1. ASSUME NEW a \in Api, pub[a] # NoRecord, Clean(pub[a])
        PROVE  Named(a) = {}
    <2>1. CASE ~Unrecorded(a)
      BY <1>1, <2>1, StoredTruth DEF Truthful, Sound, Named
    <2>2. CASE Unrecorded(a)
      <3>1. PICK u \in Proc : pc[u] = "validate" /\ api[u] = a
        BY <2>2 DEF Unrecorded
      <3>2. PICK d \in Proc : pc[d] = "drop" /\ api[d] = a
        BY <1>1, <3>1 DEF Data, CopySound, Configuring, Clean
      <3> QED
        BY <3>2 DEF Data, CopySound
    <2> QED
      BY <2>1, <2>2
  <1>2. ASSUME NEW a \in Api
        PROVE  Cardinality(Named(a)) <= 1
    <2>1. \A x, y \in Named(a) : x = y
      BY DEF Data, NamesOK, Unique, Named
    <2>2. CASE Named(a) = {}
      BY <2>2, FS_EmptySet
    <2>3. CASE Named(a) # {}
      <3>1. PICK x \in Named(a) : Named(a) = {x}
        BY <2>1, <2>3
      <3>2. Cardinality({x}) = 1
        BY FS_Singleton
      <3> QED
        BY <3>1, <3>2
    <2> QED
      BY <2>2, <2>3
  <1>3. ASSUME NEW a \in Api, pub[a] # NoRecord, NEW x \in Named(a)
        PROVE  x.owner = pub[a].owner
    <2>1. CASE ~Unrecorded(a)
      BY <1>3, <2>1, StoredTruth DEF Truthful, Sound, Named
    <2>2. CASE Unrecorded(a)
      <3>1. PICK u \in Proc : pc[u] = "validate" /\ api[u] = a
        BY <2>2 DEF Unrecorded
      <3>2. mine[u][a] \in Publication /\ Held(u) /\ job[u] \notin Withdrawing
        BY <3>1, Here DEF Working, Inner, JobAt, Configuring, Withdrawing
      <3>3. Sound(a, mine[u][a], apps)
        BY <3>1, <3>2, Edits DEF Data, CopySound, Copied, Working, Inner
      <3>4. pub[a].owner = mine[u][a].owner \/ \E d \in Proc : pc[d] = "drop" /\ api[d] = a
        BY <1>3, <3>1 DEF Data, CopySound, Configuring
      <3>5. \A d \in Proc : ~(pc[d] = "drop" /\ api[d] = a)
        BY <1>3 DEF Data, CopySound
      <3> QED
        BY <1>3, <3>3, <3>4, <3>5 DEF Sound, Named
    <2> QED
      BY <2>1, <2>2
  <1> QED
    BY <1>1, <1>2, <1>3 DEF CleanIsClean, AppAdmitsOwner

Lossless == lost + crashes = 0 => Data

\* Whatever the requests: as long as no answer was lost and the portal did not restart, a record
\* that says nothing is left at Cloudflare is right, and an API's one application admits the
\* registration's owner (RemoveRemoteApiPublicationUseCase, CloudflareAccessClient.app).
THEOREM TrueRecords ==
  Spec => [](lost + crashes = 0 => CleanIsClean /\ AppAdmitsOwner)
  <1>1. Init => Lossless
    BY InitSound DEF Lossless
  <1>2. ASSUME Inv, Inv', Lossless, [Next]_vars PROVE Lossless'
    <2> SUFFICES ASSUME lost' + crashes' = 0 PROVE Data'
      BY DEF Lossless
    <2>1. lost \in Nat /\ crashes \in Nat /\ lost' \in Nat /\ crashes' \in Nat
      BY <1>2, ConstantsAssumption DEF Inv, StoresOK
    <2>2. lost' \in {lost, lost + 1} /\ crashes' \in {crashes, crashes + 1}
      BY <1>2, Counters DEF Lose
    <2>3. lost = 0 /\ crashes = 0 /\ lost' = 0 /\ crashes' = 0
      BY <2>1, <2>2, Tally
    <2>4. ~Crash
      BY <2>3 DEF Crash
    <2> QED
      BY <1>2, <2>3, <2>4, NextSound DEF Lossless
  <1>3. Inv /\ Lossless => (lost + crashes = 0 => CleanIsClean /\ AppAdmitsOwner)
    BY SoundStores DEF Lossless
  <1>4. Inv /\ Lossless /\ Inv' /\ [Next]_vars => Lossless'
    BY <1>2
  <1> QED
    BY <1>1, <1>3, <1>4, Invariance, PTL DEF Spec

-----------------------------------------------------------------------------
(***************************************************************************)
(* Copies agree with what is stored, if nobody asks for a publication      *)
(* while an account is deleted.                                            *)
(***************************************************************************)

\* What a step of t may do to the stored registrations.
Deed(t) ==
    \A a \in Api :
        \/ pub'[a] \in {pub[a], NoRecord}
        \/ /\ pub[a] # NoRecord
           /\ \/ pub'[a].desired = "published" => pub[a].desired = "published"
              \/ Held(t) /\ job[t] \in {"register", "publish"} /\ api[t] = a
           /\ \/ pub'[a].app \in {NoApp, pub[a].app}
              \/ pc[t] = "validate" /\ api[t] = a /\ \E x \in apps : pub'[a].app = x.id
        \/ pub[a] = NoRecord /\ pc[t] = "choose" /\ api[t] = a /\ pub'[a].app = NoApp

\* Another than t deletes an account.
Leaving(t) == \E u \in Proc \ {t} : Departing(u)

\* A registration gets other states.
LEMMA Edited ==
  ASSUME Inv, NEW t \in Proc, NEW a \in Api, NEW r \in Publication, Put(a, r),
         pub[a] \in Publication,
         r.app \in {NoApp, pub[a].app}, r.clean \/ r.clean = pub[a].clean,
         r.desired = "published" => pub[a].desired = "published"
  PROVE  Deed(t) /\ (Withdrawn => Withdrawn')
  <1>1. pub'[a] = r /\ (\A b \in Api \ {a} : pub'[b] = pub[b]) /\ pub[a] # NoRecord
    BY Edits DEF Put, Inv, StoresOK
  <1>2. Deed(t)
    BY <1>1 DEF Deed
  <1>3. ASSUME Withdrawn PROVE Withdrawn'
    BY <1>1, <1>3 DEF Withdrawn, Clean
  <1> QED
    BY <1>2, <1>3

\* Nothing, or a whole registration, goes.
LEMMA Untouched ==
  ASSUME NEW t \in Proc, \A a \in Api : pub'[a] \in {pub[a], NoRecord}
  PROVE  Deed(t) /\ (Withdrawn => Withdrawn')
  BY DEF Deed, Withdrawn

\* What the deletion of an account has found done, and nobody undoes.
LEMMA Deletes ==
  ASSUME Single, NEW u \in Proc, Departing(u)
  PROVE  /\ Withdrawn /\ pc[u] # "remote"
         /\ \A v \in Proc \ {u} : pc[v] \notin Working \ {"stop", "drop"}
  <1>1. Agrees(u)
    BY DEF Single
  <1> QED
    BY <1>1 DEF Agrees

\* While an account is deleted, the holder of the lock has nothing to do.
LEMMA Quieted ==
  ASSUME Inv, Single, Undisturbed, NEW t \in Proc, Held(t), Leaving(t)
  PROVE  /\ Withdrawn /\ pc[t] \notin Working \ {"stop", "drop"}
         /\ job[t] \notin {"register", "publish"}
  BY Deletes DEF Undisturbed, Leaving

\* The copy that is worked on is what is stored.
LEMMA Copy ==
  ASSUME Inv, Single, NEW t \in Proc, Held(t), pc[t] \in Working \ {"stop", "validate"}
  PROVE  api[t] \in Api /\ mine[t][api[t]] = pub[api[t]]
  <1>1. api[t] \in Api
    BY Here
  <1>2. api[t] \in Copied(t) \cap Api
    BY <1>1 DEF Copied
  <1> QED
    BY <1>1, <1>2 DEF Single, Agrees

\* The holder of the lock moves.
LEMMA HolderAgrees ==
  ASSUME Inv, Single, NEW t \in Proc, Turn(t), Held(t), Others(t),
         lock' = lock \/ lock' = Tail(lock),
         Agrees(t)', Leaving(t) => Withdrawn' /\ pc'[t] \notin Working \ {"stop", "drop"}
  PROVE  Single'
  <1>1. ASSUME NEW u \in Proc \ {t} PROVE Agrees(u)'
    <2>1. /\ Same(u) /\ ~Held(u) /\ pc[u] \notin Inner \cup {"drop"}
          /\ ~(pc[u] \in Working /\ Held(u)')
      BY OthersOut
    <2>2. pc'[u] = pc[u] /\ job'[u] = job[u]
      BY <2>1 DEF Same
    <2>3. pc'[u] \notin {"validate"} \cup Configuring \cup Refreshing
      BY <2>1, <2>2 DEF Inner, Configuring, Refreshing
    <2>4. ASSUME Departing(u)'
          PROVE  Withdrawn' /\ pc'[u] # "remote"
                   /\ \A v \in Proc \ {u} : pc'[v] \notin Working \ {"stop", "drop"}
      <3>1. Departing(u)
        BY <2>1, <2>2, <2>4 DEF Departing, Deleting
      <3>2. Withdrawn' /\ pc'[t] \notin Working \ {"stop", "drop"}
        BY <3>1 DEF Leaving
      <3>3. \A v \in Proc \ {u} : v # t => pc'[v] = pc[v]
        BY DEF Others, Same
      <3> QED
        BY <2>2, <3>1, <3>2, <3>3 DEF Single, Agrees
    <2> QED
      BY <2>1, <2>2, <2>3, <2>4 DEF Agrees
  <1> QED
    BY <1>1 DEF Single

\* The holder's use case ends.
LEMMA EndAgrees ==
  ASSUME Inv, Single, NEW t \in Proc, Turn(t), Held(t),
         Fail(t) \/ (Return(t) /\ (job[t] = "leave" => Withdrawn')), Leaving(t) => Withdrawn'
  PROVE  Single'
  <1>1. PICK j \in Job \cup {"sync", "none"} : Leave(t, j) /\ (j = "leave" => Withdrawn')
    <2>1. CASE Fail(t)
      BY <2>1 DEF Fail, Inv, ControlOK, Job
    <2>2. CASE Return(t) /\ (job[t] = "leave" => Withdrawn')
      BY <2>2 DEF Return, Inv, ControlOK
    <2> QED
      BY <2>1, <2>2
  <1>2. /\ Others(t) /\ lock' = Tail(lock) /\ pc'[t] \in {"idle", "rows", "revoke"}
        /\ job'[t] \in {"none", j}
    BY <1>1, LeaveFacts
  <1>3. pc'[t] \notin Working
    BY <1>2 DEF Working, Inner
  <1>4. ASSUME NEW u \in Proc \ {t} PROVE pc'[u] \notin Working \ {"stop", "drop"}
    <2>1. Same(u) /\ ~Held(u) /\ pc[u] \notin Inner \cup {"drop"}
      BY <1>2, OthersOut
    <2>2. pc[u] = "remote" => Deleting(u)
      BY <2>1, Behind DEF Deleting, Working
    <2>3. pc[u] # "remote"
      BY <2>2, Deletes DEF Departing, Deleting
    <2> QED
      BY <2>1, <2>3 DEF Same, Working
  <1>5. Agrees(t)'
    BY <1>1, <1>2, <1>3, <1>4 DEF Agrees, Departing, Working, Inner, Configuring, Refreshing
  <1> QED
    BY <1>2, <1>3, <1>5, HolderAgrees

\* The holder goes on with what is stored.
LEMMA GotoAgrees ==
  ASSUME Inv, Single, NEW t \in Proc, Turn(t), Held(t), NEW p \in Working,
         NEW r \in Publication \cup {NoRecord}, Goto(t, p, r), api[t] \in Api,
         UNCHANGED todo, Granting(t), job[t] \notin Withdrawing,
         p # "validate" => pub'[api[t]] = r,
         p = "validate" => /\ pub'[api[t]] # NoRecord
                           /\ \E x \in apps' : r = [pub'[api[t]] EXCEPT !.app = x.id],
         p \in Configuring \cup Refreshing => r.desired = "published",
         Leaving(t) => Withdrawn' /\ p \in {"stop", "drop"}
  PROVE  Single'
  <1>1. p \in Awaiting \cup Elsewhere
    BY Places
  <1>2. /\ Others(t) /\ lock' = lock /\ pc'[t] = p /\ job'[t] = job[t] /\ api'[t] = api[t]
        /\ mine'[t] = [mine[t] EXCEPT ![api[t]] = r]
    BY <1>1, GotoFacts
  <1>3. mine'[t][api[t]] = r
    BY <1>2 DEF Inv, ControlOK
  <1>4. Copied(t)' = {api[t]}
    BY <1>2 DEF Copied
  <1>5. ~Departing(t)'
    BY <1>2 DEF Departing, Withdrawing
  <1>6. Agrees(t)'
    BY <1>2, <1>3, <1>4, <1>5 DEF Agrees
  <1>7. Leaving(t) => Withdrawn' /\ pc'[t] \notin Working \ {"stop", "drop"}
    BY <1>2
  <1> QED
    BY <1>2, <1>6, <1>7, HolderAgrees

-----------------------------------------------------------------------------
(***************************************************************************)
(* The steps under the lock keep the copies in agreement.                  *)
(***************************************************************************)

\* The configuration begins, with what is stored from then on.
LEMMA BeginAgrees ==
  ASSUME Inv, Single, NEW t \in Proc, Held(t), Turn(t), api[t] \in Api, ~Leaving(t),
         NEW r \in Publication, Begin(t, r), job[t] \in {"register", "publish", "sync"},
         UNCHANGED todo, Granting(t),
         \/ pub[api[t]] \in Publication /\ r.app = pub[api[t]].app
               /\ (job[t] = "sync" => pub[api[t]].desired = "published")
         \/ pub[api[t]] = NoRecord /\ pc[t] = "choose" /\ r.app = NoApp
  PROVE  Single' /\ Deed(t)
  <1>1. Begun(r) \in Publication /\ Begun(r).desired = "published" /\ Begun(r).app = r.app
    <2>1. Begun(r) \in Publication
      BY Edits
    <2> QED
      BY <2>1 DEF Begun, Publication
  <1>2. Put(api[t], Begun(r)) /\ Goto(t, "check", Begun(r))
    BY DEF Begin
  <1>3. pub'[api[t]] = Begun(r) /\ (\A b \in Api \ {api[t]} : pub'[b] = pub[b])
    BY <1>2 DEF Put, Inv, StoresOK
  <1>4. "check" \in Working /\ "check" \notin {"validate"} /\ job[t] \notin Withdrawing
    BY DEF Working, Inner, Withdrawing
  <1>5. Single'
    BY <1>1, <1>2, <1>3, <1>4, GotoAgrees
  <1>6. pub[api[t]] \in Publication => pub[api[t]] # NoRecord
    BY Edits
  <1>7. Deed(t)
    BY <1>1, <1>3, <1>6 DEF Deed
  <1> QED
    BY <1>5, <1>7

\* The use case ends with a record that differs from the stored one in its states only.
LEMMA SavedEndAgrees ==
  ASSUME Inv, Single, NEW t \in Proc, Turn(t), Held(t), api[t] \in Api, pub[api[t]] \in Publication,
         NEW r \in Publication, Put(api[t], r), r.app = pub[api[t]].app,
         r.clean = pub[api[t]].clean,
         r.desired = "published" => pub[api[t]].desired = "published",
         Return(t) \/ Fail(t), job[t] \notin Withdrawing
  PROVE  Single' /\ Deed(t)
  <1>1. Deed(t) /\ (Withdrawn => Withdrawn')
    BY Edited
  <1>2. Leaving(t) => Withdrawn
    BY Deletes DEF Leaving
  <1>3. Single'
    BY <1>1, <1>2, EndAgrees DEF Withdrawing
  <1> QED
    BY <1>1, <1>3

\* The use case ends and nothing is saved.
LEMMA UnsavedEndAgrees ==
  ASSUME Inv, Single, NEW t \in Proc, Turn(t), Held(t), UNCHANGED pub,
         Fail(t) \/ (Return(t) /\ job[t] # "leave")
  PROVE  Single' /\ Deed(t)
  <1>1. Leaving(t) => Withdrawn
    BY Deletes DEF Leaving
  <1>2. Deed(t) /\ (Withdrawn => Withdrawn')
    BY Untouched
  <1>3. Single'
    BY <1>1, <1>2, EndAgrees
  <1> QED
    BY <1>2, <1>3

\* Another state of the copy is saved, and the use case ends.
LEMMA CopyEndAgrees ==
  ASSUME Inv, Single, NEW t \in Proc, Turn(t), Held(t),
         pc[t] \in Working \ {"stop", "choose", "drop", "validate"},
         NEW s \in PublicationState, Put(api[t], [mine[t][api[t]] EXCEPT !.state = s]),
         Return(t) \/ Fail(t), job[t] \notin Withdrawing
  PROVE  Single' /\ Deed(t)
  <1> DEFINE m == mine[t][api[t]]
             r == [m EXCEPT !.state = s]
  <1>1. api[t] \in Api /\ m \in Publication /\ m = pub[api[t]]
    BY Here, Copy
  <1>2. r \in Publication
    BY <1>1, Edits
  <1>3. r.app = m.app /\ r.clean = m.clean /\ r.desired = m.desired /\ Put(api[t], r)
    BY <1>1 DEF Publication
  <1> HIDE DEF r
  <1> QED
    BY <1>1, <1>2, <1>3, SavedEndAgrees

\* The state is saved before Cloudflare is called, or the failure is.
LEMMA ConfigureCheckedAgrees ==
  ASSUME Inv, Single, Undisturbed, NEW t \in Proc, Turn(t), NEW ok \in BOOLEAN,
         ConfigureChecked(t, ok)
  PROVE  Single' /\ Deed(t)
  <1> DEFINE a == api[t]
             m == mine[t][a]
             r == [m EXCEPT !.state = "configuring"]
  <1>1. /\ pc[t] = "check" /\ pc[t] \in Working \ {"stop", "choose", "drop", "validate"}
        /\ pc[t] \in Configuring
    BY DEF ConfigureChecked, Working, Inner, Configuring
  <1>2. a \in Api /\ m \in Publication /\ Held(t) /\ m = pub[a] /\ job[t] \notin Withdrawing
    BY <1>1, Here, Copy DEF Inner, JobAt, Withdrawing
  <1>3. m.desired = "published" /\ ~Leaving(t)
    BY <1>1, <1>2, Quieted DEF Single, Agrees
  <1>4. CASE /\ Savable(a, r) /\ SavePublication(a, r) /\ Goto(t, "app", r)
             /\ UNCHANGED <<grant, todo>>
    <2>1. r \in Publication
      BY <1>2, Edits DEF PublicationState
    <2>2. r.desired = "published" /\ r.app = m.app /\ r.clean = m.clean
      BY <1>2, <1>3 DEF Publication
    <2>3. [m EXCEPT !.state = r.state, !.desired = r.desired] = r
      BY <1>2 DEF Publication
    <2>4. Put(a, r)
      BY <1>2, <1>4, <2>3 DEF SavePublication
    <2> HIDE DEF r
    <2>5. pub'[a] = r
      BY <1>2, <2>4 DEF Put, Inv, StoresOK
    <2>6. Deed(t)
      BY <1>2, <1>3, <2>1, <2>2, <2>4, Edited
    <2>7. "app" \in Working /\ "app" # "validate"
      BY DEF Working, Inner
    <2>8. Single'
      BY <1>2, <1>3, <1>4, <2>1, <2>2, <2>5, <2>7, NoGrant, GotoAgrees
    <2> QED
      BY <2>6, <2>8
  <1>5. CASE Broken(t, m)
    BY <1>1, <1>2, <1>5, CopyEndAgrees DEF Broken, PublicationState
  <1> QED
    BY <1>4, <1>5 DEF ConfigureChecked

\* The ID of the application is taken down, or the answer lost.
LEMMA ConfigureAppAgrees ==
  ASSUME Inv, Single, Undisturbed, NEW t \in Proc, Turn(t), NEW told \in BOOLEAN,
         ConfigureApp(t, told)
  PROVE  Single' /\ Deed(t)
  <1> DEFINE a == api[t]
             m == mine[t][a]
  <1>1. /\ pc[t] = "app" /\ pc[t] \in Working \ {"stop", "choose", "drop", "validate"}
        /\ pc[t] \in Configuring
    BY DEF ConfigureApp, Working, Inner, Configuring
  <1>2. a \in Api /\ m \in Publication /\ Held(t) /\ m = pub[a] /\ job[t] \notin Withdrawing
    BY <1>1, Here, Copy DEF Inner, JobAt, Withdrawing
  <1>3. m.desired = "published" /\ ~Leaving(t)
    BY <1>1, <1>2, Quieted DEF Single, Agrees
  <1>4. PICK x \in Configured(t) :
          /\ x \in apps'
          /\ \/ Goto(t, "validate", [m EXCEPT !.app = x.id]) /\ UNCHANGED <<pub, grant, todo>>
             \/ Broken(t, m)
    BY DEF ConfigureApp
  <1>5. x.id \in AppId
    BY <1>1, <1>4, ConfiguredOK DEF AccessApp
  <1>6. CASE Goto(t, "validate", [m EXCEPT !.app = x.id]) /\ UNCHANGED <<pub, grant, todo>>
    <2> DEFINE r == [m EXCEPT !.app = x.id]
    <2>1. r \in Publication
      BY <1>2, <1>5, Edits
    <2>2. r.desired = "published"
      BY <1>2, <1>3 DEF Publication
    <2>3. "validate" \in Working
      BY DEF Working, Inner
    <2>4. pub'[a] # NoRecord /\ \E y \in apps' : r = [pub'[a] EXCEPT !.app = y.id]
      BY <1>2, <1>4, <1>6, Edits
    <2>5. Goto(t, "validate", r)
      BY <1>6
    <2> HIDE DEF r
    <2>6. Single'
      BY <1>2, <1>3, <1>6, <2>1, <2>2, <2>3, <2>4, <2>5, NoGrant, GotoAgrees
    <2> QED
      BY <1>6, <2>6, Untouched
  <1>7. CASE Broken(t, m)
    BY <1>1, <1>2, <1>7, CopyEndAgrees DEF Broken, PublicationState
  <1> QED
    BY <1>4, <1>6, <1>7

\* The record with the ID of the application is saved, whatever is stored.
LEMMA ConfigureDoneAgrees ==
  ASSUME Inv, Single, Undisturbed, NEW t \in Proc, Turn(t), NEW ok \in BOOLEAN, ConfigureDone(t, ok)
  PROVE  Single' /\ Deed(t)
  <1> DEFINE a == api[t]
             m == mine[t][a]
  <1>1. pc[t] = "validate" /\ pc[t] \in Working \ {"stop", "drop"} /\ pc[t] \in Configuring
    BY DEF ConfigureDone, Working, Inner, Configuring
  <1>2. a \in Api /\ m \in Publication /\ Held(t) /\ job[t] \notin Withdrawing
    BY <1>1, Here DEF Inner, JobAt, Withdrawing
  <1>3. Agrees(t) /\ ~Leaving(t)
    BY <1>1, <1>2, Quieted DEF Single
  <1>4. /\ pub[a] # NoRecord /\ (\E x \in apps : m = [pub[a] EXCEPT !.app = x.id])
        /\ m.desired = "published"
    BY <1>1, <1>3 DEF Agrees
  <1>5. pub[a] \in Publication
    BY <1>2, <1>4 DEF Inv, StoresOK
  <1>6. pub[a].desired = "published" /\ \E x \in apps : m.app = x.id
    BY <1>4, <1>5 DEF Publication
  <1>7. PICK s \in PublicationState : Put(a, [m EXCEPT !.state = s])
    BY DEF ConfigureDone, PublicationState
  <1> DEFINE r == [m EXCEPT !.state = s]
  <1>8. r.app = m.app
    BY <1>2 DEF Publication
  <1>9. Put(a, r)
    BY <1>7
  <1> HIDE DEF r
  <1>10. pub'[a] = r /\ \A b \in Api \ {a} : pub'[b] = pub[b]
    BY <1>2, <1>9 DEF Put, Inv, StoresOK
  <1>11. Deed(t)
    BY <1>1, <1>4, <1>6, <1>8, <1>10 DEF Deed
  <1>12. Single'
    BY <1>2, <1>3, EndAgrees DEF ConfigureDone, Withdrawing
  <1> QED
    BY <1>11, <1>12

\* The registration is read under the lock.
LEMMA RegisterEnterAgrees ==
  ASSUME Inv, Single, Undisturbed, NEW t \in Proc, Turn(t), RegisterEnter(t)
  PROVE  Single' /\ Deed(t)
  <1>1. Enter(t, {"register"}) /\ UNCHANGED pub
    BY DEF RegisterEnter
  <1>2. /\ Held(t) /\ job[t] = "register" /\ api[t] \in Api
        /\ pub[api[t]] \in Publication \cup {NoRecord}
    BY <1>1, Entered DEF Withdrawing
  <1>3. CASE Fail(t)
    BY <1>1, <1>2, <1>3, UnsavedEndAgrees
  <1>4. CASE /\ Granted /\ Goto(t, "choose", pub[api[t]])
             /\ grant' = [grant EXCEPT ![t] = cred] /\ UNCHANGED todo
    <2>1. Granting(t) /\ ~Leaving(t)
      BY <1>2, <1>4, Grant, Quieted
    <2>2. "choose" \in Working /\ "choose" \notin {"validate"} \cup Configuring \cup Refreshing
      BY DEF Working, Inner, Configuring, Refreshing
    <2>3. Single'
      BY <1>1, <1>2, <1>4, <2>1, <2>2, GotoAgrees DEF Withdrawing
    <2> QED
      BY <1>1, <2>3, Untouched
  <1> QED
    BY <1>3, <1>4 DEF RegisterEnter

\* The new record takes the place of the one that was read.
LEMMA RegisterChosenAgrees ==
  ASSUME Inv, Single, Undisturbed, NEW t \in Proc, Turn(t), NEW ok \in BOOLEAN,
         RegisterChosen(t, ok)
  PROVE  Single' /\ Deed(t)
  <1> DEFINE old == mine[t][api[t]]
             r == [owner |-> grant[t].owner, state |-> "checking", desired |-> "published",
                   clean |-> FALSE, app |-> IF old = NoRecord THEN NoApp ELSE old.app]
  <1>1. pc[t] = "choose" /\ pc[t] \in Working \ {"stop", "drop", "validate"}
    BY DEF RegisterChosen, Working, Inner
  <1>2. /\ api[t] \in Api /\ old \in Publication \cup {NoRecord} /\ Held(t)
        /\ grant[t].owner \in Owner /\ job[t] = "register" /\ old = pub[api[t]]
    BY <1>1, Here, Copy DEF Inner, JobAt
  <1>3. ~Leaving(t)
    BY <1>1, <1>2, Quieted
  <1>4. CASE Begin(t, r) /\ UNCHANGED <<grant, todo>>
    <2>1. old = NoRecord \/ old.app \in AppId \cup {NoApp}
      BY <1>2 DEF Publication
    <2>2. r \in Publication /\ r.app = IF old = NoRecord THEN NoApp ELSE old.app
      BY <1>2, <2>1 DEF Publication, PublicationState
    <2> HIDE DEF r
    <2>3. CASE old = NoRecord
      BY <1>1, <1>2, <1>3, <1>4, <2>2, <2>3, NoGrant, BeginAgrees
    <2>4. CASE old # NoRecord
      BY <1>1, <1>2, <1>3, <1>4, <2>2, <2>4, NoGrant, BeginAgrees
    <2> QED
      BY <2>3, <2>4
  <1>5. CASE Fail(t) /\ UNCHANGED <<pub, recent>>
    BY <1>2, <1>5, UnsavedEndAgrees
  <1> QED
    BY <1>4, <1>5 DEF RegisterChosen

\* A publication begins with what is stored.
LEMMA PublishEnterAgrees ==
  ASSUME Inv, Single, Undisturbed, NEW t \in Proc, Turn(t), PublishEnter(t)
  PROVE  Single' /\ Deed(t)
  <1>1. Enter(t, {"publish"})
    BY DEF PublishEnter
  <1>2. /\ Held(t) /\ job[t] = "publish" /\ api[t] \in Api
        /\ pub[api[t]] \in Publication \cup {NoRecord}
    BY <1>1, Entered DEF Withdrawing
  <1>3. CASE /\ Mine(api[t]) /\ Granted /\ Begin(t, pub[api[t]])
             /\ grant' = [grant EXCEPT ![t] = cred] /\ UNCHANGED todo
    <2>1. Granting(t) /\ ~Leaving(t)
      BY <1>2, <1>3, Grant, Quieted
    <2>2. pub[api[t]] \in Publication
      BY <1>2, <1>3 DEF Mine
    <2> QED
      BY <1>2, <1>3, <2>1, <2>2, BeginAgrees
  <1>4. CASE Fail(t) /\ UNCHANGED pub
    BY <1>2, <1>4, UnsavedEndAgrees
  <1> QED
    BY <1>3, <1>4 DEF PublishEnter

\* A removal begins with what is stored.
LEMMA RemovalAgrees ==
  ASSUME Inv, Single, NEW t \in Proc, Turn(t), Held(t), api[t] \in Api,
         job[t] \in {"unpublish", "remove", "sync"}, NEW r \in Publication, Removal(t, r),
         pub'[api[t]] = r, Withdrawn => Withdrawn', Leaving(t) => Clean(r)
  PROVE  Single'
  <1>1. job[t] \notin Withdrawing
    BY DEF Withdrawing
  <1>2. Leaving(t) => Withdrawn'
    BY Deletes DEF Leaving
  <1>3. ASSUME NEW p \in {"remote", "drop"}, Goto(t, p, r), UNCHANGED <<grant, todo>>,
               p = "remote" => ~Clean(r)
        PROVE  Single'
    <2>1. p \in Working /\ p \notin {"choose", "validate"} \cup Configuring \cup Refreshing
      BY DEF Working, Inner, Configuring, Refreshing
    <2>2. Leaving(t) => Withdrawn' /\ p \in {"stop", "drop"}
      BY <1>2, <1>3
    <2> QED
      BY <1>1, <1>3, <2>1, <2>2, NoGrant, GotoAgrees
  <1>4. CASE Return(t)
    BY <1>1, <1>2, <1>4, EndAgrees DEF Withdrawing
  <1> QED
    BY <1>3, <1>4 DEF Removal

\* A stop is stored before anything is removed.
LEMMA StopEnterAgrees ==
  ASSUME Inv, Single, Undisturbed, NEW t \in Proc, Turn(t), StopEnter(t)
  PROVE  Single' /\ Deed(t)
  <1> DEFINE m == pub[api[t]]
             d == IF job[t] = "remove" THEN "deleted" ELSE "unpublished"
             r == Stopped(m, d)
  <1>1. Enter(t, {"unpublish", "remove"})
    BY DEF StopEnter
  <1>2. /\ Held(t) /\ job[t] \in {"unpublish", "remove"}
        /\ api[t] \in Api /\ m \in Publication \cup {NoRecord}
    BY <1>1, Entered DEF Withdrawing
  <1>3. CASE Mine(api[t]) /\ Put(api[t], r) /\ Removal(t, r)
    <2>1. m \in Publication /\ m # NoRecord
      BY <1>2, <1>3 DEF Mine
    <2>2. r \in Publication /\ r.clean = m.clean /\ r.app = m.app /\ r.desired = d
      BY <2>1, Edits DEF Stopped, Publication
    <2> HIDE DEF r
    <2>3. Deed(t) /\ (Withdrawn => Withdrawn')
      BY <1>2, <1>3, <2>1, <2>2, Edited
    <2>4. pub'[api[t]] = r
      BY <1>2, <1>3 DEF Put, Inv, StoresOK
    <2>5. Leaving(t) => Clean(r)
      BY <1>2, <2>1, <2>2, Quieted DEF Withdrawn, Clean
    <2> QED
      BY <1>2, <1>3, <2>2, <2>3, <2>4, <2>5, RemovalAgrees
  <1>4. CASE Fail(t) /\ UNCHANGED pub
    BY <1>2, <1>4, UnsavedEndAgrees
  <1> QED
    BY <1>3, <1>4 DEF StopEnter

\* A refresh works on what is stored when it has the lock.
LEMMA RefreshEnterAgrees ==
  ASSUME Inv, Single, Undisturbed, NEW t \in Proc, Turn(t), RefreshEnter(t)
  PROVE  Single' /\ Deed(t)
  <1> DEFINE a == api[t]
             m == pub[a]
  <1>1. Enter(t, {"sync"})
    BY DEF RefreshEnter
  <1>2. Held(t) /\ job[t] = "sync" /\ a \in Api /\ m \in Publication \cup {NoRecord}
    BY <1>1, Entered DEF Withdrawing
  <1>3. CASE Return(t) /\ UNCHANGED pub
    BY <1>2, <1>3, UnsavedEndAgrees
  <1>4. CASE m # NoRecord /\ Removal(t, m) /\ UNCHANGED pub
    <2>1. Leaving(t) => Clean(m)
      BY <1>2, <1>4, Quieted DEF Withdrawn
    <2>2. Deed(t) /\ (Withdrawn => Withdrawn')
      BY <1>4, Untouched
    <2> QED
      BY <1>2, <1>4, <2>1, <2>2, RemovalAgrees
  <1>5. ASSUME m # NoRecord, NEW r, r = [m EXCEPT !.state = "disabled"] \/ r = Stopped(m, "deleted"),
               Return(t), Put(a, r)
        PROVE  Single' /\ Deed(t)
    <2>1. m \in Publication
      BY <1>2, <1>5
    <2>2. r \in Publication
      BY <1>5, <2>1, Edits DEF PublicationState
    <2>3. r.clean = m.clean /\ r.app = m.app /\ r.desired \in {m.desired, "deleted"}
      BY <1>5, <2>1 DEF Stopped, Publication
    <2> QED
      BY <1>2, <1>5, <2>1, <2>2, <2>3, SavedEndAgrees DEF Withdrawing
  <1>6. CASE /\ m # NoRecord /\ m.desired = "published" /\ cred # NoRecord /\ cred.is = "ready"
             /\ Goto(t, "f_validate", m)
             /\ grant' = [grant EXCEPT ![t] = cred] /\ UNCHANGED <<pub, todo>>
    <2>1. Granting(t)
      BY <1>6, Grant
    <2>2. ~Leaving(t)
      BY <1>2, <1>6, Quieted DEF Withdrawn
    <2>3. "f_validate" \in Working /\ "f_validate" # "validate"
      BY DEF Working, Inner
    <2>4. Single'
      BY <1>2, <1>6, <2>1, <2>2, <2>3, GotoAgrees DEF Withdrawing
    <2> QED
      BY <1>6, <2>4, Untouched
  <1> QED
    BY <1>3, <1>4, <1>5, <1>6 DEF RefreshEnter, Current

\* What a refresh has read is what is stored.
LEMMA RefreshedAgrees ==
  ASSUME Inv, Single, Undisturbed, NEW t \in Proc, pc[t] \in Refreshing
  PROVE  /\ api[t] \in Api /\ mine[t][api[t]] \in Publication /\ Held(t) /\ job[t] = "sync"
         /\ mine[t][api[t]] = pub[api[t]] /\ mine[t][api[t]].desired = "published" /\ ~Leaving(t)
         /\ pc[t] \in Working \ {"stop", "choose", "drop", "validate"}
  <1>1. pc[t] \in Working \ {"stop", "choose", "drop", "validate"}
    BY DEF Working, Inner, Refreshing
  <1>2. api[t] \in Api /\ mine[t][api[t]] \in Publication /\ Held(t) /\ job[t] = "sync"
    BY Refreshed
  <1>3. mine[t][api[t]] = pub[api[t]] /\ ~Leaving(t)
    BY <1>1, <1>2, Copy, Quieted
  <1> QED
    BY <1>1, <1>2, <1>3 DEF Single, Agrees

\* A refresh goes on with the record it has read.
LEMMA RefreshValidatedAgrees ==
  ASSUME Inv, Single, Undisturbed, NEW t \in Proc, Turn(t), NEW ok \in BOOLEAN,
         RefreshValidated(t, ok)
  PROVE  Single' /\ Deed(t)
  <1> DEFINE r == mine[t][api[t]]
  <1>1. pc[t] = "f_validate" /\ UNCHANGED <<grant, todo>>
    BY DEF RefreshValidated
  <1>2. /\ api[t] \in Api /\ r \in Publication /\ Held(t) /\ job[t] = "sync"
        /\ r = pub[api[t]] /\ r.desired = "published" /\ ~Leaving(t)
    BY <1>1, RefreshedAgrees DEF Refreshing
  <1>3. CASE (Goto(t, "f_restart", r) \/ Goto(t, "f_health", r)) /\ UNCHANGED pub
    <2>1. PICK p \in {"f_restart", "f_health"} : Goto(t, p, r)
      BY <1>3
    <2>2. p \in Working /\ p # "validate"
      BY DEF Working, Inner
    <2>3. Single'
      BY <1>1, <1>2, <1>3, <2>1, <2>2, NoGrant, GotoAgrees DEF Withdrawing
    <2> QED
      BY <1>3, <2>3, Untouched
  <1>4. CASE Begin(t, r)
    BY <1>1, <1>2, <1>4, NoGrant, BeginAgrees
  <1> QED
    BY <1>3, <1>4 DEF RefreshValidated

\* A refresh configures the record it has read, or saves it as disconnected.
LEMMA RefreshRestartedAgrees ==
  ASSUME Inv, Single, Undisturbed, NEW t \in Proc, Turn(t), NEW found \in BOOLEAN,
         RefreshRestarted(t, found)
  PROVE  Single' /\ Deed(t)
  <1> DEFINE m == mine[t][api[t]]
  <1>1. pc[t] = "f_restart"
    BY DEF RefreshRestarted
  <1>2. /\ api[t] \in Api /\ m \in Publication /\ Held(t) /\ job[t] = "sync"
        /\ m = pub[api[t]] /\ m.desired = "published" /\ ~Leaving(t)
        /\ pc[t] \in Working \ {"stop", "choose", "drop", "validate"}
    BY <1>1, RefreshedAgrees DEF Refreshing
  <1>3. CASE Begin(t, m) /\ UNCHANGED <<grant, todo>>
    BY <1>1, <1>2, <1>3, NoGrant, BeginAgrees
  <1>4. CASE Put(api[t], [m EXCEPT !.state = "disconnected"]) /\ Return(t)
    BY <1>2, <1>4, CopyEndAgrees DEF PublicationState, Withdrawing
  <1> QED
    BY <1>3, <1>4 DEF RefreshRestarted

\* A refresh saves the record it has read with another state.
LEMMA RefreshHealthAgrees ==
  ASSUME Inv, Single, Undisturbed, NEW t \in Proc, Turn(t), NEW ok \in BOOLEAN, RefreshHealth(t, ok)
  PROVE  Single' /\ Deed(t)
  <1>1. pc[t] = "f_health"
    BY DEF RefreshHealth
  <1>2. Held(t) /\ job[t] = "sync" /\ pc[t] \in Working \ {"stop", "choose", "drop", "validate"}
    BY <1>1, RefreshedAgrees DEF Refreshing
  <1>3. PICK s \in PublicationState : Put(api[t], [mine[t][api[t]] EXCEPT !.state = s])
    BY DEF RefreshHealth, PublicationState
  <1> QED
    BY <1>2, <1>3, CopyEndAgrees DEF RefreshHealth, Withdrawing

-----------------------------------------------------------------------------
(***************************************************************************)
(* So do the withdrawal of all registrations and the removals.             *)
(***************************************************************************)

\* All registrations are read at once.
LEMMA UnpublishEnterAgrees ==
  ASSUME Inv, Single, Undisturbed, NEW t \in Proc, Turn(t), UnpublishEnter(t)
  PROVE  Single' /\ Deed(t)
  <1>1. Enter(t, {"disable", "leave"})
    BY DEF UnpublishEnter
  <1>2. Held(t)
    BY <1>1, Entered
  <1>3. /\ pc' = [pc EXCEPT ![t] = "stop"] /\ mine' = [mine EXCEPT ![t] = pub]
        /\ todo' = [todo EXCEPT ![t] = Registered] /\ UNCHANGED <<pub, lock, job, api, grant>>
    BY DEF UnpublishEnter
  <1>4. Others(t) /\ pc'[t] = "stop" /\ mine'[t] = pub /\ todo'[t] = Registered
    BY <1>3 DEF Inv, ControlOK, Others, Same
  <1>5. Held(t)' /\ ~Departing(t)'
    BY <1>2, <1>3, <1>4 DEF Held, Departing, Deleting
  <1>6. Agrees(t)'
    BY <1>3, <1>4, <1>5 DEF Agrees, Registered, Configuring, Refreshing
  <1>7. Leaving(t) => Withdrawn
    BY Deletes DEF Leaving
  <1>8. Deed(t) /\ (Withdrawn => Withdrawn')
    BY <1>3, Untouched
  <1>9. Single'
    BY <1>2, <1>3, <1>4, <1>6, <1>7, <1>8, HolderAgrees
  <1> QED
    BY <1>8, <1>9

\* All are stopped before the first is removed.
LEMMA UnpublishAgrees ==
  ASSUME Inv, Single, Undisturbed, NEW t \in Proc, Turn(t), Unpublish(t)
  PROVE  Single' /\ Deed(t)
  <1>1. pc[t] = "stop" /\ pc[t] \in Working \ {"validate"}
    BY DEF Unpublish, Working, Inner
  <1>2. /\ Held(t) /\ job[t] \in Withdrawing /\ todo[t] \subseteq Api
        /\ \A a \in todo[t] : mine[t][a] \in Publication
    BY <1>1 DEF Inv, ControlOK, LocalOK, JobOK, JobAt, Inner
  <1>3. (\A a \in Api : mine[t][a] = pub[a]) /\ (\A a \in Api \ todo[t] : pub[a] = NoRecord)
    BY <1>1, <1>2 DEF Single, Agrees, Copied
  <1>4. Leaving(t) => Withdrawn
    BY Deletes DEF Leaving
  <1>5. ASSUME NEW a \in Unstopped(t), Put(a, Stopped(mine[t][a], "unpublished")),
               mine' = [mine EXCEPT ![t] = [mine[t] EXCEPT ![a] = Stopped(mine[t][a], "unpublished")]],
               UNCHANGED <<lock, running, job, pc, api, grant, todo>>
        PROVE  Single' /\ Deed(t)
    <2> DEFINE m == mine[t][a]
               r == Stopped(m, "unpublished")
    <2>1. a \in todo[t] /\ a \in Api /\ m \in Publication /\ m = pub[a]
      BY <1>2, <1>3 DEF Unstopped, Running
    <2>2. r \in Publication
      BY <2>1, Edits
    <2>3. r.clean = m.clean /\ r.app = m.app /\ r.desired = "unpublished"
      BY <2>1 DEF Stopped, Publication
    <2> HIDE DEF r
    <2>4. mine' = [mine EXCEPT ![t] = [mine[t] EXCEPT ![a] = r]] /\ Put(a, r)
      BY <1>5 DEF r
    <2>5. Deed(t) /\ (Withdrawn => Withdrawn')
      BY <2>1, <2>2, <2>3, <2>4, Edited
    <2>6. Others(t) /\ mine'[t] = [mine[t] EXCEPT ![a] = r]
      BY <1>5, <2>4 DEF Inv, ControlOK, Others, Same
    <2>7. \A b \in Api : mine'[t][b] = pub'[b]
      BY <1>3, <2>1, <2>4, <2>6 DEF Put, Inv, ControlOK, StoresOK
    <2>8. \A b \in Api \ todo[t] : pub'[b] = NoRecord
      BY <1>3, <2>1, <2>4 DEF Put, Inv, StoresOK
    <2>9. pc'[t] = "stop" /\ todo'[t] = todo[t] /\ Held(t)' /\ ~Departing(t)'
      BY <1>1, <1>2, <1>5 DEF Held, Departing, Deleting
    <2>10. Agrees(t)'
      BY <2>7, <2>8, <2>9 DEF Agrees, Configuring, Refreshing
    <2>11. Leaving(t) => Withdrawn' /\ pc'[t] \notin Working \ {"stop", "drop"}
      BY <1>4, <2>5, <2>9
    <2>12. Single'
      BY <1>2, <1>5, <2>6, <2>10, <2>11, HolderAgrees
    <2> QED
      BY <2>5, <2>12
  <1>6. CASE /\ Unstopped(t) = {} /\ {a \in todo[t] : ~Clean(mine[t][a])} = {}
             /\ Return(t) /\ UNCHANGED pub
    <2>1. ASSUME NEW a \in Api, pub[a] # NoRecord
          PROVE  Clean(pub[a]) /\ pub[a].desired # "published"
      <3>1. a \in todo[t] /\ pub[a] \in Publication /\ mine[t][a] = pub[a]
        BY <1>2, <1>3, <2>1
      <3>2. pub[a] = Stopped(pub[a], "unpublished")
        BY <1>6, <3>1 DEF Unstopped, Running
      <3>3. Stopped(pub[a], "unpublished").desired = "unpublished"
        BY <3>1 DEF Stopped, Publication
      <3> QED
        BY <1>6, <3>1, <3>2, <3>3
    <2>2. Withdrawn
      BY <2>1 DEF Withdrawn
    <2>3. Deed(t) /\ (Withdrawn => Withdrawn')
      BY <1>6, Untouched
    <2> QED
      BY <1>2, <1>6, <2>2, <2>3, EndAgrees
  <1>7. ASSUME Unstopped(t) = {}, NEW a \in todo[t], ~Clean(mine[t][a]),
               api' = [api EXCEPT ![t] = a], pc' = [pc EXCEPT ![t] = "remote"],
               UNCHANGED <<pub, lock, job, mine, grant, todo>>
        PROVE  Single' /\ Deed(t)
    <2>1. a \in Api /\ mine[t][a] = pub[a] /\ pub[a] # NoRecord
      BY <1>2, <1>3, Edits
    <2>2. ~Leaving(t)
      BY <1>4, <1>7, <2>1 DEF Withdrawn
    <2>3. ASSUME NEW b \in todo[t] PROVE mine[t][b].desired # "published"
      <3>1. mine[t][b] = Stopped(mine[t][b], "unpublished") /\ mine[t][b] \in Publication
        BY <1>2, <1>7 DEF Unstopped, Running
      <3>2. Stopped(mine[t][b], "unpublished").desired = "unpublished"
        BY <3>1 DEF Stopped, Publication
      <3> QED
        BY <3>1, <3>2
    <2>4. /\ Others(t) /\ pc'[t] = "remote" /\ job'[t] = job[t] /\ mine'[t] = mine[t]
          /\ api'[t] = a /\ todo'[t] = todo[t]
      BY <1>7 DEF Inv, ControlOK, Others, Same
    <2>5. Held(t)' /\ ~Departing(t)'
      BY <1>2, <1>7, <2>4 DEF Held, Departing, Deleting
    <2>6. Agrees(t)'
      BY <1>3, <1>7, <2>3, <2>4, <2>5 DEF Agrees, Configuring, Refreshing
    <2>7. Single'
      BY <1>2, <1>7, <2>2, <2>4, <2>6, HolderAgrees
    <2> QED
      BY <1>7, <2>7, Untouched
  <1> QED
    BY <1>5, <1>6, <1>7 DEF Unpublish

\* The record forgets the application, under the lock.
LEMMA RemoveRemoteAgrees ==
  ASSUME Inv, Single, Undisturbed, NEW t \in Proc, Turn(t), NEW told \in BOOLEAN,
         RemoveRemote(t, told)
  PROVE  Single' /\ Deed(t)
  <1> DEFINE a == api[t]
             m == mine[t][a]
             r == [m EXCEPT !.app = NoApp, !.clean = TRUE]
  <1>1. pc[t] = "remote" /\ pc[t] \in Working \ {"stop", "drop", "validate", "choose"}
    BY DEF RemoveRemote, Working, Inner
  <1>2. a \in Api /\ m \in Publication /\ Held(t) /\ ~Departing(t)
    <2>1. ~Departing(t)
      BY <1>1, Deletes
    <2> QED
      BY <1>1, <2>1, Here DEF Departing, Deleting
  <1>3. m = pub[a] /\ ~Leaving(t)
    BY <1>1, <1>2, Copy, Quieted
  <1>4. CASE ~told /\ Fail(t) /\ UNCHANGED pub
    BY <1>2, <1>4, UnsavedEndAgrees
  <1>5. r \in Publication
    BY <1>2, Edits
  <1>6. r.app = NoApp /\ r.clean /\ r.desired = m.desired
    BY <1>2 DEF Publication
  <1> HIDE DEF r
  <1>7. ASSUME Put(a, r) PROVE Deed(t) /\ (Withdrawn => Withdrawn')
    BY <1>2, <1>3, <1>5, <1>6, <1>7, Edited
  <1>8. ASSUME Put(a, r) PROVE pub'[a] = r /\ \A b \in Api \ {a} : pub'[b] = pub[b]
    BY <1>2, <1>8 DEF Put, Inv, StoresOK
  <1>9. CASE told /\ Put(a, r) /\ AfterRemoval(t) = "over" /\ Return(t)
    <2>1. job[t] # "leave"
      BY <1>2, <1>9 DEF AfterRemoval
    <2>2. Single'
      BY <1>2, <1>3, <1>9, <2>1, EndAgrees
    <2> QED
      BY <1>7, <1>9, <2>2
  <1>10. CASE /\ told /\ Put(a, r) /\ AfterRemoval(t) = "drop" /\ Goto(t, "drop", r)
              /\ UNCHANGED <<grant, todo>>
    <2>1. /\ job[t] \notin Withdrawing /\ "drop" \in Working
          /\ "drop" \notin {"validate"} \cup Configuring \cup Refreshing
      BY <1>2, <1>10 DEF AfterRemoval, Withdrawing, Working, Inner, Configuring, Refreshing
    <2>2. Single'
      BY <1>2, <1>3, <1>5, <1>8, <1>10, <2>1, NoGrant, GotoAgrees
    <2> QED
      BY <1>7, <1>10, <2>2
  <1>11. CASE /\ told /\ Put(a, r) /\ AfterRemoval(t) = "stop" /\ Goto(t, "stop", r)
              /\ UNCHANGED <<grant, todo>>
    <2>1. job[t] \in Withdrawing /\ "stop" \in Awaiting \cup Elsewhere
      BY <1>11 DEF AfterRemoval, Withdrawing, Elsewhere
    <2>2. /\ Others(t) /\ lock' = lock /\ pc'[t] = "stop" /\ job'[t] = job[t] /\ todo'[t] = todo[t]
          /\ mine'[t] = [mine[t] EXCEPT ![a] = r]
      BY <1>2, <1>5, <1>11, <2>1, NoGrant, GotoFacts
    <2>3. a \in todo[t] /\ (\A b \in Api \ todo[t] : pub[b] = NoRecord)
            /\ \A b \in Api : mine[t][b] = pub[b]
      BY <1>1, <1>2, <2>1 DEF Single, Agrees, Copied
    <2>4. \A b \in Api : mine'[t][b] = pub'[b]
      BY <1>2, <1>8, <1>11, <2>2, <2>3 DEF Inv, ControlOK
    <2>5. \A b \in Api \ todo[t] : pub'[b] = NoRecord
      BY <1>8, <1>11, <2>3
    <2>6. Held(t)' /\ ~Departing(t)'
      BY <1>2, <2>2 DEF Held, Departing, Deleting
    <2>7. Agrees(t)'
      BY <2>2, <2>4, <2>5, <2>6 DEF Agrees, Configuring, Refreshing
    <2>8. Single'
      BY <1>2, <1>3, <2>2, <2>7, HolderAgrees
    <2> QED
      BY <1>7, <1>11, <2>8
  <1> QED
    <2>1. AfterRemoval(t) \in {"stop", "drop", "over"}
      BY DEF AfterRemoval
    <2> QED
      BY <1>4, <1>9, <1>10, <1>11, <2>1 DEF RemoveRemote, r

\* A call fails, and the failure of a configuration is saved.
LEMMA CloudflareFailsAgrees ==
  ASSUME Inv, Single, Undisturbed, NEW t \in Proc, Turn(t), CloudflareFails(t)
  PROVE  Single' /\ Deed(t)
  <1>1. CASE pc[t] = "app" /\ Broken(t, mine[t][api[t]])
    <2>1. /\ pc[t] \in Working \ {"stop", "choose", "drop", "validate"} /\ Held(t)
          /\ job[t] \notin Withdrawing
      BY <1>1, Here DEF Working, Inner, JobAt, Configuring, Withdrawing
    <2> QED
      BY <1>1, <2>1, CopyEndAgrees DEF Broken, PublicationState
  <1>2. CASE pc[t] = "remote" /\ Fail(t) /\ UNCHANGED pub
    <2>1. ~Departing(t)
      BY <1>2, Deletes
    <2>2. Held(t)
      BY <1>2, <2>1, Here DEF Departing, Deleting, Working
    <2> QED
      BY <1>2, <2>2, UnsavedEndAgrees
  <1> QED
    BY <1>1, <1>2 DEF CloudflareFails

-----------------------------------------------------------------------------
(***************************************************************************)
(* So do a deletion and what happens outside the lock.                     *)
(***************************************************************************)

\* The deletion of the records goes its way alone.
LEMMA AloneAgrees ==
  ASSUME Inv, Single, NEW t \in Proc, Turn(t), Deleting(t), Others(t), lock' = lock,
         pc'[t] \in {"drop", "next", "idle"}, \A a \in Api : pub'[a] \in {pub[a], NoRecord}
  PROVE  Single' /\ Deed(t)
  <1>1. Departing(t) /\ ~Held(t)
    BY DEF Departing, Deleting
  <1>2. Withdrawn /\ \A u \in Proc \ {t} : pc[u] \notin Working
    BY <1>1, Deletes, TurnOK
  <1>3. Deed(t) /\ Withdrawn'
    BY <1>2, Untouched
  <1>4. \A u \in Proc \ {t} : pc'[u] \notin Working
    BY <1>2 DEF Others, Same
  <1>5. pc'[t] \notin Working \ {"stop", "drop"} /\ pc'[t] # "remote" /\ ~Held(t)'
    BY <1>1 DEF Working, Inner, Held
  <1>6. ASSUME NEW u \in Proc PROVE Agrees(u)'
    <2>1. /\ ~(pc'[u] \in Working /\ Held(u)')
          /\ pc'[u] \notin {"validate"} \cup Configuring \cup Refreshing
      BY <1>4, <1>5 DEF Working, Inner, Configuring, Refreshing
    <2>2. pc'[u] # "remote" /\ \A v \in Proc \ {u} : pc'[v] \notin Working \ {"stop", "drop"}
      BY <1>4, <1>5 DEF Working
    <2> QED
      BY <1>3, <2>1, <2>2 DEF Agrees
  <1> QED
    BY <1>3, <1>6 DEF Single

\* A registration is deleted, by the holder of the lock or by the deletion of the account.
LEMMA DropAgrees ==
  ASSUME Inv, Single, Undisturbed, NEW t \in Proc, Turn(t), Drop(t)
  PROVE  Single' /\ Deed(t)
  <1>1. pc[t] = "drop" /\ Put(api[t], NoRecord)
    BY DEF Drop
  <1>2. api[t] \in Api /\ (Held(t) \/ Deleting(t))
    BY <1>1, Here DEF Working
  <1>3. \A a \in Api : pub'[a] \in {pub[a], NoRecord}
    BY <1>1, <1>2 DEF Put, Inv, StoresOK
  <1>4. CASE Deleting(t) /\ Goto(t, "next", NoRecord) /\ UNCHANGED <<grant, todo>>
    <2>1. "next" \in Awaiting \cup Elsewhere
      BY DEF Elsewhere
    <2>2. Others(t) /\ lock' = lock /\ pc'[t] = "next"
      BY <1>2, <1>4, <2>1, NoGrant, GotoFacts
    <2> QED
      BY <1>3, <1>4, <2>2, AloneAgrees
  <1>5. CASE ~Deleting(t) /\ Return(t)
    <2>1. Held(t) /\ job[t] # "leave"
      BY <1>1, <1>2, <1>5, Behind, First
    <2>2. Deed(t) /\ (Withdrawn => Withdrawn')
      BY <1>3, Untouched
    <2>3. Leaving(t) => Withdrawn
      BY Deletes DEF Leaving
    <2>4. Single'
      BY <1>5, <2>1, <2>2, <2>3, EndAgrees
    <2> QED
      BY <2>2, <2>4
  <1> QED
    BY <1>4, <1>5 DEF Drop

\* What a deletion takes up is clean.
LEMMA DeleteNextAgrees ==
  ASSUME Inv, Single, Undisturbed, NEW t \in Proc, Turn(t), DeleteNext(t)
  PROVE  Single' /\ Deed(t)
  <1>1. pc[t] = "next" /\ UNCHANGED pub
    BY DEF DeleteNext
  <1>2. Deleting(t) /\ Departing(t) /\ ~Held(t)
    BY <1>1, Behind DEF Departing, Deleting
  <1>3. \A a \in Api : pub'[a] \in {pub[a], NoRecord}
    BY <1>1
  <1>4. CASE Return(t) \/ Fail(t)
    <2>1. PICK j \in Job \cup {"sync", "none"} : Leave(t, j)
      BY <1>2, <1>4 DEF Return, Fail, Inv, ControlOK, Job
    <2>2. Others(t) /\ lock' = lock /\ pc'[t] = "idle"
      BY <1>2, <2>1, LeaveFacts DEF Deleting
    <2> QED
      BY <1>2, <1>3, <2>2, AloneAgrees
  <1>5. ASSUME NEW a \in todo[t], pub[a] # NoRecord, api' = [api EXCEPT ![t] = a],
               mine' = [mine EXCEPT ![t] = [mine[t] EXCEPT ![a] = pub[a]]],
               todo' = [todo EXCEPT ![t] = todo[t] \ {a}],
               pc' = [pc EXCEPT ![t] = IF Clean(pub[a]) THEN "drop" ELSE "remote"],
               UNCHANGED <<lock, job, grant>>
        PROVE  Single' /\ Deed(t)
    <2>1. a \in Api
      BY DEF Inv, ControlOK
    <2>2. Clean(pub[a])
      BY <1>2, <1>5, <2>1, Deletes DEF Withdrawn
    <2>3. pc' = [pc EXCEPT ![t] = "drop"]
      BY <1>5, <2>2
    <2>4. \A u \in Proc \ {t} : mine'[u] = mine[u]
      BY <1>5 DEF Inv, ControlOK
    <2>5. Others(t) /\ lock' = lock /\ pc'[t] = "drop"
      BY <1>5, <2>3, <2>4 DEF Inv, ControlOK, Others, Same
    <2> QED
      BY <1>2, <1>3, <2>5, AloneAgrees
  <1> QED
    BY <1>4, <1>5 DEF DeleteNext

\* Outside the lock, only a revocation leads further into a deletion.
LEMMA OutsideDeparts ==
  ASSUME Inv, NEW t \in Proc, Outside(t), Departing(t)'
  PROVE  Departing(t)
  <1>1. job \in [Proc -> Job \cup {"sync", "none"}] /\ pc \in [Proc -> Awaiting \cup Elsewhere]
    BY DEF Inv, ControlOK
  <1>2. job'[t] = "leave" /\ pc'[t] \in {"revoke", "userdel", "gone", "next", "remote", "drop"}
    BY DEF Departing, Deleting
  <1>3. ASSUME NEW j, NEW p \in {"idle", "wait", "deny", "rows"}, NEW q, Outward(t, j, p, q)
        PROVE FALSE
    BY <1>1, <1>2, <1>3 DEF Outward
  <1>4. ASSUME NEW p \in {"userdel", "next"}, Outward(t, job[t], p, lock),
               pc[t] \in {"revoke", "userdel", "gone"}
        PROVE  Departing(t)
    BY <1>1, <1>2, <1>4 DEF Outward, Departing
  <1>5. CASE DisableDeny(t)
    BY <1>3, <1>5 DEF DisableDeny
  <1>6. CASE DeleteEnter(t)
    BY <1>3, <1>4, <1>6 DEF DeleteEnter
  <1>7. CASE DeleteLinuxUser(t)
    BY <1>2, <1>7 DEF DeleteLinuxUser, Departing
  <1>8. ASSUME NEW ok \in BOOLEAN, Revoke(t, ok) PROVE Departing(t)
    <2>1. pc[t] = "revoke"
      BY <1>8 DEF Revoke
    <2>2. CASE UNCHANGED <<lock, running, job, pc>>
      BY <1>2, <2>1, <2>2 DEF Departing
    <2>3. CASE \E p \in {"userdel", "idle"} : Outward(t, job[t], p, lock)
      BY <1>3, <1>4, <2>1, <2>3
    <2> QED
      BY <1>8, <2>2, <2>3 DEF Revoke
  <1>9. ASSUME NEW j \in Job, NEW a \in Api \cup {NoApi}, Submit(t, j, a) PROVE FALSE
    BY <1>3, <1>9 DEF Submit
  <1>10. CASE t = Sync /\ (SyncStart \/ SyncSweep)
    BY <1>3, <1>10 DEF SyncStart, SyncSweep
  <1>11. CASE t = Sync /\ SyncNext
    <2>1. pc[t] = "rows"
      BY <1>11 DEF SyncNext
    <2>2. CASE pc' = pc
      BY <1>2, <2>1, <2>2
    <2> QED
      BY <1>3, <1>11, <2>2 DEF SyncNext
  <1> QED
    BY <1>5, <1>6, <1>7, <1>8, <1>9, <1>10, <1>11 DEF Outside

\* Outside the lock nothing is written.
LEMMA OutsideAgrees ==
  ASSUME Inv, Single, NEW t \in Proc, Outside(t)
  PROVE  Single' /\ UNCHANGED <<pub, apps>>
  <1>1. Idly(t) /\ (Departing(t)' => Departing(t))
    BY OutsideStep, OutsideDeparts
  <1>2. UNCHANGED <<pub, apps>> /\ Others(t) /\ pc[t] \notin Working /\ pc'[t] \notin Working
    BY <1>1 DEF Idly
  <1>3. \A u \in Proc \ {t} : Held(u)' <=> Held(u)
    <2>1. lock \in Seq(Proc) /\ Len(lock) \in Nat
      BY DEF Inv, ControlOK
    <2>2. CASE lock' = Append(lock, t)
      <3>1. /\ Len(lock') = Len(lock) + 1 /\ lock'[Len(lock) + 1] = t
            /\ \A i \in 1 .. Len(lock) : lock'[i] = lock[i]
        BY <2>1, <2>2
      <3> QED
        BY <2>1, <2>2, <3>1 DEF Held
    <2> QED
      BY <1>1, <2>2 DEF Idly, Held
  <1>4. ASSUME NEW u \in Proc PROVE Agrees(u)'
    <2>1. Agrees(u)
      BY DEF Single
    <2>2. \A v \in Proc : pc'[v] \in Working => pc'[v] = pc[v]
      BY <1>2 DEF Others, Same
    <2>3. Withdrawn => Withdrawn'
      BY <1>2 DEF Withdrawn
    <2>4. CASE u = t
      <3>1. pc'[t] \notin {"remote", "validate"} \cup Configuring \cup Refreshing
        BY <1>2 DEF Working, Inner, Configuring, Refreshing
      <3> QED
        BY <1>1, <1>2, <2>1, <2>2, <2>3, <2>4, <3>1 DEF Agrees
    <2>5. CASE u # t
      <3>1. Same(u) /\ (Held(u)' <=> Held(u))
        BY <1>2, <1>3, <2>5 DEF Others
      <3>2. Departing(u)' => Departing(u)
        BY <3>1 DEF Same, Departing, Deleting
      <3>3. Copied(u)' = Copied(u)
        BY <3>1 DEF Same, Copied
      <3> QED
        BY <1>2, <2>1, <2>2, <2>3, <3>1, <3>2, <3>3 DEF Agrees, Same
    <2> QED
      BY <2>4, <2>5
  <1> QED
    BY <1>2, <1>4 DEF Single

\* What happens around the coroutines has nothing to do with it.
LEMMA AsideAgrees ==
  ASSUME Single, UNCHANGED <<control, pub, apps>>
  PROVE  Single'
  <1>1. UNCHANGED <<pub, apps, lock, job, pc, api, mine, todo>>
    BY DEF control
  <1>2. \A t, u \in Proc : (Held(u)' <=> Held(u)) /\ (Departing(u)' <=> Departing(u))
          /\ Copied(u)' = Copied(u)
    BY <1>1 DEF Held, Departing, Deleting, Copied
  <1>3. Withdrawn' <=> Withdrawn
    BY <1>1 DEF Withdrawn
  <1> QED
    BY <1>1, <1>2, <1>3 DEF Single, Agrees

\* At rest there are no copies.
LEMMA RestedAgrees == Rested => Single
  BY DEF Rested, Single, Agrees, Departing, Deleting, Working, Inner, Configuring, Refreshing

\* A coroutine takes its turn.
LEMMA CoroutineAgrees ==
  ASSUME Inv, Single, Undisturbed, NEW t \in Proc, Coroutine(t)
  PROVE  Single' /\ (Deed(t) \/ UNCHANGED pub)
  <1>1. CASE Configure(t)
    BY <1>1, ConfigureCheckedAgrees, ConfigureAppAgrees, ConfigureDoneAgrees DEF Coroutine,
       Configure
  <1>2. CASE Change(t)
    BY <1>2, RegisterEnterAgrees, PublishEnterAgrees, StopEnterAgrees, DropAgrees,
       RegisterChosenAgrees,
       RemoveRemoteAgrees
    DEF Coroutine, Change
  <1>3. CASE Refresh(t)
    BY <1>3, RefreshEnterAgrees, RefreshValidatedAgrees, RefreshRestartedAgrees, RefreshHealthAgrees
    DEF Coroutine, Refresh
  <1>4. CASE Disable(t)
    BY <1>4, UnpublishEnterAgrees, UnpublishAgrees, DeleteNextAgrees, OutsideAgrees
    DEF Coroutine, Disable, Outside
  <1>5. CASE CloudflareFails(t)
    BY <1>5, CloudflareFailsAgrees DEF Coroutine
  <1> QED
    BY <1>1, <1>2, <1>3, <1>4, <1>5 DEF Coroutine

\* Whatever happens, copies agree with what is stored, and a step is a deed or writes nothing.
LEMMA NextAgrees ==
  ASSUME Inv, Single, Undisturbed, [Next]_vars
  PROVE  Single' /\ (UNCHANGED pub \/ \E t \in Proc : Deed(t))
  <1>1. ASSUME NEW t \in Proc, DeleteLinuxUser(t) PROVE Single' /\ UNCHANGED pub
    BY <1>1, OutsideAgrees DEF Outside
  <1>2. ASSUME NEW t \in Request, Handle(t) PROVE Single' /\ UNCHANGED pub
    BY <1>2, OutsideAgrees DEF Handle, Outside, Proc
  <1>3. CASE Synchronise
    BY <1>3, OutsideAgrees DEF Synchronise, Outside, Proc
  <1>4. CASE Surroundings
    <2>1. UNCHANGED <<control, pub, apps>>
      BY <1>4 DEF Surroundings, Credentials, AccountChanges, Expire
    <2> QED
      BY <2>1, AsideAgrees
  <1>5. CASE UNCHANGED vars
    BY <1>5, AsideAgrees DEF vars
  <1>6. CASE Crash
    <2>1. Rested' /\ UNCHANGED pub
      BY <1>6 DEF Crash, Rested
    <2> QED
      BY <2>1, RestedAgrees, PTL
  <1> QED
    BY <1>1, <1>2, <1>3, <1>4, <1>5, <1>6, CoroutineAgrees DEF Next

\* At the beginning there are no copies.
LEMMA InitAgrees == Init => Single
  BY RestedAgrees DEF Init, Rested

\* What the user has stopped or deleted comes back by a request only: a coroutine that works on a
\* copy cannot bring it back, whatever answers were lost and whenever the portal restarted, as
\* long as nobody asks for a publication while an account is deleted (publication_lock,
\* RefreshApiPublicationUseCase, DeleteUserApiRecords).
THEOREM StopIsRespected == Spec /\ []Undisturbed => StopStands
  <1> DEFINE Allowed ==
        \A a \in Api :
          /\ pub[a] # NoRecord /\ pub[a].desired # "published"
                /\ pub'[a] # NoRecord /\ pub'[a].desired = "published"
             => \E t \in Request :
                   /\ api[t] = a
                   /\ (Held(t) /\ job[t] \in {"register", "publish"}) \/ Deleting(t)
          /\ pub[a] = NoRecord /\ pub'[a] # NoRecord
             => \E t \in Request : pc[t] = "choose" /\ api[t] = a
  <1>1. ASSUME Inv, Single, Undisturbed, [Next]_vars PROVE Allowed
    <2>1. CASE UNCHANGED pub
      BY <2>1
    <2>2. ASSUME NEW t \in Proc, Deed(t) PROVE Allowed
      <3>1. job[t] \in {"register", "publish"} \/ pc[t] = "choose" => t \in Request
        BY <1>1 DEF Inv, LocalOK, JobOK, JobAt, Proc
      <3> QED
        BY <2>2, <3>1 DEF Deed
    <2> QED
      BY <1>1, <2>1, <2>2, NextAgrees
  <1>2. Inv /\ Single /\ Undisturbed /\ [Next]_vars => Single' /\ Allowed
    BY <1>1, NextAgrees
  <1>3. Inv /\ Single /\ Undisturbed /\ [Next]_vars => [Allowed]_vars
    BY <1>2
  <1> HIDE DEF Allowed
  <1>4. Spec /\ []Undisturbed => [][Allowed]_vars
    BY <1>2, <1>3, InitAgrees, Invariance, PTL DEF Spec
  <1> QED
    BY <1>4, PTL DEF StopStands, Allowed

-----------------------------------------------------------------------------
(***************************************************************************)
(* One lost answer, or one restart: what Cloudflare has done by then is    *)
(* found again by the ID on record or, where there is none, by the name.   *)
(***************************************************************************)

\* No application goes or comes but by a configuration, a removal or a restart.
LEMMA AppsChange ==
  ASSUME [Next]_vars, ~Crash
  PROVE  \/ UNCHANGED apps
         \/ \E t \in Proc, told \in BOOLEAN :
               Turn(t) /\ (ConfigureApp(t, told) \/ RemoveRemote(t, told))
  <1>1. ASSUME NEW t \in Proc, Turn(t), Configure(t)
        PROVE  UNCHANGED apps \/ \E told \in BOOLEAN : Turn(t) /\ ConfigureApp(t, told)
    BY <1>1 DEF Configure, ConfigureChecked, ConfigureDone
  <1>2. ASSUME NEW t \in Proc, Turn(t), Change(t)
        PROVE  UNCHANGED apps \/ \E told \in BOOLEAN : Turn(t) /\ RemoveRemote(t, told)
    BY <1>2 DEF Change, RegisterEnter, PublishEnter, StopEnter, Drop, RegisterChosen
  <1>3. ASSUME NEW t \in Proc, Refresh(t) PROVE UNCHANGED apps
    BY <1>3 DEF Refresh, RefreshEnter, RefreshValidated, RefreshRestarted, RefreshHealth
  <1>4. ASSUME NEW t \in Proc, Disable(t) PROVE UNCHANGED apps
    BY <1>4 DEF Disable, DisableDeny, UnpublishEnter, Unpublish, DeleteEnter, DeleteNext, Revoke
  <1>5. ASSUME NEW t \in Proc, CloudflareFails(t) PROVE UNCHANGED apps
    BY <1>5 DEF CloudflareFails
  <1>6. ASSUME NEW t \in Proc, DeleteLinuxUser(t) PROVE UNCHANGED apps
    BY <1>6 DEF DeleteLinuxUser
  <1>7. CASE Synchronise
    BY <1>7 DEF Synchronise, SyncStart, SyncSweep, SyncNext
  <1>8. CASE Surroundings
    BY <1>8 DEF Surroundings, Credentials, AccountChanges, Expire
  <1>9. ASSUME NEW t \in Request, Handle(t) PROVE UNCHANGED apps
    BY <1>9 DEF Handle, Submit
  <1>10. CASE UNCHANGED vars
    BY <1>10 DEF vars
  <1> QED
    BY <1>1, <1>2, <1>3, <1>4, <1>5, <1>6, <1>7, <1>8, <1>9, <1>10 DEF Next, Coroutine

\* With all applications kept, those on record are there.
LEMMA KeptExact ==
  ASSUME Exact, UNCHANGED pub \/ (\E t \in Proc : Deed(t)),
         \A x \in apps : \E y \in apps' : y.id = x.id
  PROVE  Exact'
  <1>1. ASSUME NEW a \in Api, pub'[a] # NoRecord, pub'[a].app # NoApp
        PROVE  \E x \in apps : pub'[a].app = x.id
    <2>1. pub[a] # NoRecord /\ pub[a].app # NoApp => \E x \in apps : pub[a].app = x.id
      BY DEF Exact, Known
    <2>2. CASE UNCHANGED pub
      BY <1>1, <2>1, <2>2
    <2>3. ASSUME NEW t \in Proc, Deed(t) PROVE \E x \in apps : pub'[a].app = x.id
      BY <1>1, <2>1, <2>3 DEF Deed
    <2> QED
      BY <2>2, <2>3
  <1>2. ASSUME NEW a \in Api, pub'[a] # NoRecord, pub'[a].app # NoApp
        PROVE  \E y \in apps' : y.id = pub'[a].app
    BY <1>1, <1>2
  <1>3. \A a \in Api : pub'[a] # NoRecord /\ pub'[a].app # NoApp => Known(pub[a])' # {}
    BY <1>2 DEF Known
  <1> QED
    BY <1>3 DEF Exact

\* A removal that is confirmed is recorded.
LEMMA RemovedExact ==
  ASSUME Inv, Single, Data, Exact, NEW t \in Proc, RemoveRemote(t, TRUE)
  PROVE  Exact'
  <1> DEFINE a == api[t]
             m == mine[t][a]
             r == [m EXCEPT !.app = NoApp, !.clean = TRUE]
  <1>1. pc[t] = "remote" /\ apps' = apps \ Doomed(t) /\ Put(a, r)
    BY DEF RemoveRemote
  <1>2. a \in Api /\ m \in Publication
    BY <1>1, Here DEF Working
  <1>3. apps' = {x \in apps : x.name # a}
    BY <1>1, Removed
  <1>4. r.app = NoApp
    BY <1>2 DEF Publication
  <1> HIDE DEF r
  <1>5. pub'[a] = r /\ \A b \in Api \ {a} : pub'[b] = pub[b]
    BY <1>1, <1>2 DEF Put, Inv, StoresOK
  <1>6. ASSUME NEW b \in Api, pub'[b] # NoRecord, pub'[b].app # NoApp
        PROVE  \E x \in apps' : x.id = pub'[b].app
    <2>1. b # a /\ pub'[b] = pub[b]
      BY <1>4, <1>5, <1>6
    <2>2. PICK x \in apps : x.id = pub[b].app
      BY <1>6, <2>1 DEF Exact, Known
    <2>3. x.name = b
      BY <1>6, <2>1, <2>2 DEF Data, NamesOK, Cited
    <2> QED
      BY <1>3, <2>1, <2>2, <2>3
  <1>7. \A b \in Api : pub'[b] # NoRecord /\ pub'[b].app # NoApp => Known(pub[b])' # {}
    BY <1>6 DEF Known
  <1> QED
    BY <1>7 DEF Exact

\* While no answer is lost, the applications on record are there.
LEMMA NextExact ==
  ASSUME Inv, Single, Data, Exact, Undisturbed, [Next]_vars, ~Crash, lost' = lost
  PROVE  Exact'
  <1>1. UNCHANGED pub \/ \E t \in Proc : Deed(t)
    BY NextAgrees
  <1>2. CASE UNCHANGED apps
    BY <1>1, <1>2, KeptExact
  <1>3. ASSUME NEW t \in Proc, NEW told \in BOOLEAN, ConfigureApp(t, told) PROVE Exact'
    <2>1. PICK x : apps' = {y \in apps : y.id # x.id} \cup {x}
      BY <1>3 DEF ConfigureApp
    <2>2. \A y \in apps : \E z \in apps' : z.id = y.id
      BY <2>1
    <2> QED
      BY <1>1, <2>2, KeptExact
  <1>4. ASSUME NEW t \in Proc, NEW told \in BOOLEAN, RemoveRemote(t, told) PROVE Exact'
    <2>1. ~Lose
      BY DEF Lose, Inv, StoresOK
    <2>2. told = TRUE
      BY <1>4, <2>1 DEF RemoveRemote
    <2> QED
      BY <1>4, <2>2, RemovedExact
  <1> QED
    BY <1>2, <1>3, <1>4, AppsChange

\* Every stored record tells the truth, one whose application is about to be recorded too.
LEMMA StoredAll ==
  ASSUME Inv, Single, Data, Exact, NEW a \in Api
  PROVE  Truthful(a, pub[a])
  <1>1. CASE ~Unrecorded(a)
    BY <1>1, StoredTruth
  <1>2. CASE Unrecorded(a)
    <2>1. PICK u \in Proc : pc[u] = "validate" /\ api[u] = a
      BY <1>2 DEF Unrecorded
    <2>2. mine[u][a] \in Publication /\ mine[u][a] # NoRecord /\ Held(u)
      BY <2>1, Here, Edits DEF Working, Inner
    <2>3. pub[a] # NoRecord /\ \E x \in apps : mine[u][a] = [pub[a] EXCEPT !.app = x.id]
      BY <2>1 DEF Single, Agrees
    <2>4. pub[a] \in Publication
      BY <2>3 DEF Inv, StoresOK
    <2>5. mine[u][a].owner = pub[a].owner /\ mine[u][a].clean = pub[a].clean
      BY <2>3, <2>4 DEF Publication
    <2>6. Sound(a, mine[u][a], apps) /\ ~mine[u][a].clean
      BY <2>1, <2>2 DEF Data, CopySound, Copied, Working, Inner, Configuring
    <2>7. pub[a].app # NoApp => \E x \in apps : x.id = pub[a].app
      BY <2>3 DEF Exact, Known
    <2>8. Sound(a, pub[a], apps)
      BY <2>5, <2>6, <2>7 DEF Sound, Clean
    <2> QED
      BY <2>3, <2>8 DEF Truthful, Data, NamesOK
  <1> QED
    BY <1>1, <1>2

\* A configuration, whether the answer comes or not, leaves the stored records true.
LEMMA Unanswered ==
  ASSUME Inv, Single, Data, Exact, NEW t \in Proc, pc[t] = "app", NEW x \in Configured(t),
         apps' = {y \in apps : y.id # x.id} \cup {x}
  PROVE  /\ Unique'
         /\ \A b \in Api : IF pub[b] = NoRecord THEN \A y \in apps' : y.name # b
                           ELSE /\ Sound(b, pub[b], apps')
                                /\ \A y \in apps' : y.id = pub[b].app => y.name = b
         /\ \A u \in Proc, b \in Api :
               mine[u][b] # NoRecord => \A y \in apps' : y.id = mine[u][b].app => y.name = b
  <1> DEFINE a == api[t]
             m == mine[t][a]
  <1>1. /\ x.name = a /\ x.owner = grant[t].owner
        /\ \A y \in apps' : y.name = a => y = x
        /\ \A y, z \in apps' : y.id = z.id \/ y.name = z.name => y = z
        /\ \A y \in apps : y.name # a => y \in apps'
        /\ \A b \in Api : pub[b] # NoRecord /\ pub[b].app = x.id => b = a
        /\ \A u \in Proc, b \in Api : mine[u][b] # NoRecord /\ mine[u][b].app = x.id => b = a
    BY Appears
  <1>2. /\ pc[t] \in Working \ {"stop", "choose", "drop", "validate"} /\ pc[t] \in Inner
        /\ pc[t] \in Configuring
    BY DEF Working, Inner, Configuring
  <1>3. a \in Api /\ m \in Publication /\ m # NoRecord /\ Held(t) /\ m = pub[a]
    BY <1>2, Here, Edits, Copy
  <1>4. m.owner = grant[t].owner /\ ~m.clean
    BY <1>2 DEF Data, CopySound
  <1>5. \A y \in apps' : y \in apps \/ y = x
    OBVIOUS
  <1>6. m.app # NoApp => x.id = m.app
    <2> SUFFICES ASSUME m.app # NoApp PROVE x.id = m.app
      OBVIOUS
    <2>1. Existing(m, a) = Known(m) /\ Known(m) # {}
      BY <1>3 DEF Existing, Exact
    <2>2. x.id \in {y.id : y \in Known(m)}
      BY <2>1 DEF Configured
    <2> QED
      BY <2>2 DEF Known
  <1>7. Sound(a, m, apps')
    BY <1>1, <1>4, <1>6 DEF Sound, Clean
  <1>8. ASSUME NEW b \in Api, b # a
        PROVE  IF pub[b] = NoRecord THEN \A y \in apps' : y.name # b ELSE Sound(b, pub[b], apps')
    <2>1. Truthful(b, pub[b])
      BY StoredAll
    <2>2. \A y \in apps' : y.name = b => y \in apps
      BY <1>1, <1>5, <1>8
    <2>3. CASE pub[b] = NoRecord
      BY <2>1, <2>2, <2>3 DEF Truthful, Named
    <2>4. CASE pub[b] # NoRecord
      <3>1. Sound(b, pub[b], apps) /\ \A y \in apps : y.id = pub[b].app => y \in apps'
        BY <1>1, <1>8, <2>1, <2>4 DEF Truthful, Cited
      <3> QED
        BY <2>2, <2>4, <3>1 DEF Sound
    <2> QED
      BY <2>3, <2>4
  <1>9. \A b \in Api : pub[b] # NoRecord => \A y \in apps' : y.id = pub[b].app => y.name = b
    BY <1>1, <1>5 DEF Data, NamesOK, Cited
  <1>10. \A u \in Proc, b \in Api :
            mine[u][b] # NoRecord => \A y \in apps' : y.id = mine[u][b].app => y.name = b
    BY <1>1, <1>5 DEF Data, NamesOK, Cited
  <1>11. Unique'
    BY <1>1 DEF Unique
  <1> QED
    BY <1>3, <1>7, <1>8, <1>9, <1>10, <1>11

\* The answer to a configuration is lost.
LEMMA LostSound ==
  ASSUME Inv, Single, Data, Exact, NEW t \in Proc, Turn(t), NEW told \in BOOLEAN,
         ConfigureApp(t, told), lost' # lost
  PROVE  Data'
  <1> DEFINE a == api[t]
             m == mine[t][a]
             r == [m EXCEPT !.state = "error"]
  <1>1. /\ pc[t] = "app" /\ pc[t] \in Working \ {"stop", "choose", "drop", "validate"}
        /\ pc[t] \in Inner
        /\ Put(a, r) /\ Fail(t)
    BY DEF ConfigureApp, Broken, Working, Inner
  <1>2. PICK x \in Configured(t) : apps' = {y \in apps : y.id # x.id} \cup {x}
    BY DEF ConfigureApp
  <1>3. /\ Unique'
        /\ \A b \in Api : IF pub[b] = NoRecord THEN \A y \in apps' : y.name # b
                          ELSE /\ Sound(b, pub[b], apps')
                               /\ \A y \in apps' : y.id = pub[b].app => y.name = b
        /\ \A u \in Proc, b \in Api :
              mine[u][b] # NoRecord => \A y \in apps' : y.id = mine[u][b].app => y.name = b
    BY <1>1, <1>2, Unanswered
  <1>4. a \in Api /\ m \in Publication /\ m # NoRecord /\ Held(t) /\ m = pub[a]
    BY <1>1, Here, Edits, Copy
  <1>5. r \in Publication /\ r # NoRecord
    BY <1>4, Edits DEF PublicationState
  <1>6. r.owner = m.owner /\ r.clean = m.clean /\ r.app = m.app
    BY <1>4 DEF Publication
  <1> HIDE DEF r
  <1>7. pub'[a] = r /\ \A b \in Api \ {a} : pub'[b] = pub[b]
    BY <1>1, <1>4 DEF Put, Inv, StoresOK, r
  <1>8. Sound(a, r, apps') /\ \A y \in apps' : y.id = r.app => y.name = a
    BY <1>3, <1>4, <1>5, <1>6, Alike
  <1>9. \A b \in Api : IF pub'[b] = NoRecord THEN \A y \in apps' : y.name # b
                       ELSE /\ Sound(b, pub'[b], apps')
                            /\ \A y \in apps' : y.id = pub'[b].app => y.name = b
    BY <1>3, <1>5, <1>7, <1>8
  <1>10. \A b \in Api : StoreSound(b)' /\ Cited(b, pub[b])'
    BY <1>9 DEF StoreSound, Cited, Named
  <1>11. PICK j \in Job \cup {"sync", "none"} : Leave(t, j)
    BY <1>1 DEF Fail, Inv, ControlOK, Job
  <1>12. /\ Others(t) /\ lock' = Tail(lock) /\ pc'[t] \in {"idle", "rows", "revoke"}
         /\ mine'[t] = [b \in Api |-> NoRecord]
    BY <1>4, <1>11, LeaveFacts
  <1>13. CopySound(t)'
    BY <1>12 DEF CopySound, Working, Inner, Configuring, Refreshing
  <1>14. ASSUME NEW u \in Proc, NEW b \in Api PROVE Cited(b, mine[u][b])'
    <2>1. mine'[u][b] \in {NoRecord, mine[u][b]}
      BY <1>12 DEF Others, Same
    <2> QED
      BY <1>3, <2>1 DEF Cited
  <1> QED
    BY <1>3, <1>4, <1>10, <1>12, <1>13, <1>14, HolderSound

\* The portal restarts, and a call on its way may have its effect.
LEMMA CrashSound ==
  ASSUME Inv, Single, Data, Exact, Crash
  PROVE  Data'
  <1>1. Rested' /\ UNCHANGED pub
    BY DEF Crash, Rested
  <1>2. /\ Unique'
        /\ \A b \in Api : IF pub[b] = NoRecord THEN \A y \in apps' : y.name # b
                          ELSE /\ Sound(b, pub[b], apps')
                               /\ \A y \in apps' : y.id = pub[b].app => y.name = b
    <2>1. CASE UNCHANGED apps
      <3>1. Unique'
        BY <2>1 DEF Data, NamesOK, Unique
      <3>2. \A b \in Api : Truthful(b, pub[b])
        BY StoredAll
      <3> QED
        BY <2>1, <3>1, <3>2 DEF Truthful, Named, Cited
    <2>2. ASSUME NEW t \in Proc, pc[t] = "app", NEW x \in Configured(t),
                 apps' = {y \in apps : y.id # x.id} \cup {x}
          PROVE  /\ Unique'
                 /\ \A b \in Api : IF pub[b] = NoRecord THEN \A y \in apps' : y.name # b
                                   ELSE /\ Sound(b, pub[b], apps')
                                        /\ \A y \in apps' : y.id = pub[b].app => y.name = b
      BY <2>2, Unanswered
    <2>3. ASSUME NEW t \in Proc, pc[t] = "remote", apps' = apps \ Doomed(t)
          PROVE  /\ Unique'
                 /\ \A b \in Api : IF pub[b] = NoRecord THEN \A y \in apps' : y.name # b
                                   ELSE /\ Sound(b, pub[b], apps')
                                        /\ \A y \in apps' : y.id = pub[b].app => y.name = b
      <3>1. api[t] \in Api /\ apps' = {x \in apps : x.name # api[t]}
        BY <2>3, Here, Removed DEF Working
      <3>2. /\ Unique' /\ apps' \subseteq apps
            /\ \A b, m : Cited(b, m) => \A y \in apps' : m # NoRecord /\ y.id = m.app => y.name = b
            /\ \A b, m : m # NoRecord /\ Cited(b, m) /\ Sound(b, m, apps) => Sound(b, m, apps')
        BY <3>1, Gone
      <3>3. \A b \in Api : Truthful(b, pub[b])
        BY StoredAll
      <3> QED
        BY <3>2, <3>3 DEF Truthful, Named
    <2> QED
      BY <2>1, <2>2, <2>3 DEF Crash
  <1>3. TrueStore'
    BY <1>1, <1>2 DEF TrueStore, Truthful, Named, Cited
  <1> QED
    BY <1>1, <1>2, <1>3, RestedSound, PTL

\* At most one was counted if at most one is.
LEMMA AtMost ==
  \A l, c, k, d \in Nat : k \in {l, l + 1} /\ d \in {c, c + 1} /\ k + d <= 1 => l + c <= 1
  OBVIOUS

\* The first to be counted.
LEMMA FirstOne ==
  \A l, c, k, d \in Nat :
     k \in {l, l + 1} /\ d \in {c, c + 1} /\ k + d <= 1 /\ (k # l \/ d # c) => l + c = 0
  OBVIOUS

\* None was counted if none is.
LEMMA None ==
  \A l, c, k, d \in Nat :
     k \in {l, l + 1} /\ d \in {c, c + 1} /\ k + d = 0 => l + c = 0 /\ l + c <= 1 /\ k = l /\ d = c
  OBVIOUS

\* One lost answer or one restart leaves the records true.
LEMMA NextOneLost ==
  ASSUME Inv, Inv', Single, OneLost, Undisturbed, [Next]_vars
  PROVE  OneLost'
  <1>1. lost \in Nat /\ crashes \in Nat /\ lost' \in Nat /\ crashes' \in Nat
    BY ConstantsAssumption DEF Inv, StoresOK
  <1>2. lost' \in {lost, lost + 1} /\ crashes' \in {crashes, crashes + 1}
    BY Counters DEF Lose
  <1>3. ASSUME lost' + crashes' = 0 PROVE Exact'
    <2>1. lost + crashes = 0 /\ lost + crashes <= 1 /\ lost' = lost /\ crashes' = crashes
      BY <1>1, <1>2, <1>3, None
    <2>2. ~Crash
      BY <1>1, <2>1 DEF Crash
    <2> QED
      BY <2>1, <2>2, NextExact DEF OneLost
  <1>4. ASSUME lost' + crashes' <= 1 PROVE Data'
    <2>1. lost + crashes <= 1 /\ (lost' # lost \/ crashes' # crashes => lost + crashes = 0)
      <3>1. lost + crashes <= 1
        BY <1>1, <1>2, <1>4, AtMost
      <3>2. lost' # lost \/ crashes' # crashes => lost + crashes = 0
        BY <1>1, <1>2, <1>4, FirstOne
      <3> QED
        BY <3>1, <3>2
    <2>2. CASE Crash
      <3>1. crashes' # crashes
        BY <1>1, <2>2 DEF Crash
      <3> QED
        BY <2>1, <2>2, <3>1, CrashSound DEF OneLost
    <2>3. ASSUME NEW t \in Proc, Turn(t), NEW told \in BOOLEAN, ConfigureApp(t, told), lost' # lost
          PROVE  Data'
      BY <2>1, <2>3, LostSound DEF OneLost
    <2>4. CASE ~Crash /\ \A t \in Proc, told \in BOOLEAN : Turn(t)
                 /\ ConfigureApp(t, told) => lost' = lost
      BY <2>1, <2>4, NextSound DEF OneLost
    <2> QED
      BY <2>2, <2>3, <2>4
  <1> QED
    BY <1>3, <1>4 DEF OneLost

\* At the beginning nothing is on record.
LEMMA InitOneLost == Init => OneLost
  BY InitSound DEF Init, OneLost, Exact

\* The same is true after one lost answer or one restart of the portal, as long as nobody asks for
\* a publication while an account is deleted: the application that nobody heard of is found again
\* by its name, and the one on record by its ID (CloudflareAccessClient.app, remove_app).
THEOREM TrueAfterOneFault ==
  Spec /\ []Undisturbed => [](lost + crashes <= 1 => CleanIsClean /\ AppAdmitsOwner)
  <1>1. Init => Inv /\ Single /\ OneLost
    BY InitOK, InitAgrees, InitOneLost
  <1>2. Inv /\ Inv' /\ Single /\ OneLost /\ Undisturbed /\ [Next]_vars => Single' /\ OneLost'
    BY NextAgrees, NextOneLost
  <1>3. Inv /\ OneLost => (lost + crashes <= 1 => CleanIsClean /\ AppAdmitsOwner)
    BY SoundStores DEF OneLost
  <1> QED
    BY <1>1, <1>2, <1>3, Invariance, PTL DEF Spec
=============================================================================
