-------------------------- MODULE ApiGatewayProofs --------------------------
(***************************************************************************)
(* Theorems about ApiGateway, for any users, ports and calls.              *)
(***************************************************************************)
EXTENDS ApiGateway, SequenceTheorems, TLAPS

\* Points at which a coroutine has the guard's lock, and not only waits for it.
Inside ==
    {"previous", "install", "confirm", "scanning", "look", "forget", "restore"}

\* Points that are reached only after a check of the guard.
Trusting == Relaying \cup {"configure", "recheck"}

\* The queue q holds coroutines that want the lock, each once, and whoever is
\* inside is its head.
Ordered(q, at) ==
    /\ \A i \in 1 .. Len(q) : at[q[i]] \in Guarding
    /\ \A i, j \in 1 .. Len(q) : q[i] = q[j] => i = j
    /\ \A t \in Task : at[t] \in Inside => q # <<>> /\ Head(q) = t

LockOK == Ordered(lock, pc)

\* The kernel's rule for listeners on one port.
Exclusive == \A l, m \in listening : l.port = m.port => l.uid = m.uid

\* Whom a coroutine works for, and what it has in hand.
TargetsOK ==
    /\ \A p \in Port : guards[p] # None => guards[p].port = p
    /\ \A u \in Owner : pub[u] # None => pub[u].target.uid = u
    /\ \A t \in Call \cup Owner : pc[t] # "idle" =>
          /\ api[t] \in Owner /\ tgt[t] \in Listener /\ tgt[t].uid = api[t]
          /\ t \in Owner => api[t] = t
    /\ \A t \in Task : pc[t] = "confirm" => guards[tgt[t].port] = tgt[t]
    /\ pc[Sync] \in {"idle", "scan", "scanning", "look", "forget", "restore"}
    /\ pc[Sync] \in {"look", "forget"} =>
          tgt[Sync] \in Listener /\ guards[tgt[Sync].port] = tgt[Sync]
    /\ pc[Sync] \in {"scanning", "look", "forget"} => \A p \in todo : guards[p] # None
    /\ pc[Sync] \in {"look", "forget"} => tgt[Sync].port \notin todo

\* Who accepted the connection.
ConnOK ==
    \A t \in Call \cup Owner :
        pc[t] \in {"verify", "open"} =>
            /\ conn[t] \in Listener /\ conn[t].port = tgt[t].port
            /\ pc[t] = "open" \/ tgt[t] \in listening => conn[t].uid = tgt[t].uid

\* Somebody relies on the guard of l.
Relies(l) ==
    \/ \E t \in Task : pc[t] \in Trusting /\ tgt[t] = l
    \/ \E t \in Task : pc[t] = "open" /\ conn[t] = l
    \/ \E u \in Registered : pub[u].state = "published" /\ pub[u].target = l

Guarded(l) ==
    /\ nft[l.port] = l.uid
    /\ guards[l.port] # None /\ guards[l.port].uid = l.uid

GuardOK ==
    /\ \A l \in listening : Relies(l) => Guarded(l)
    /\ \A t \in Task : pc[t] = "previous" =>
          \A l \in listening : Relies(l) /\ l.port = tgt[t].port => l.uid = tgt[t].uid
    /\ pc[Sync] = "forget" =>
          \A l \in listening : Relies(l) => l.port # tgt[Sync].port

Inv == TypeOK /\ LockOK /\ Exclusive /\ TargetsOK /\ ConnOK /\ GuardOK

-----------------------------------------------------------------------------
(***************************************************************************)
(* The queue of the lock.                                                  *)
(***************************************************************************)

\* The holder goes on inside.
LEMMA QueueStays ==
  ASSUME NEW q \in Seq(Task), NEW at \in [Task -> Place], Ordered(q, at),
         NEW t \in Task, q # <<>>, Head(q) = t, NEW p \in Guarding
  PROVE  Ordered(q, [at EXCEPT ![t] = p])
  BY DEF Ordered

\* Somebody moves outside the lock.
LEMMA QueueApart ==
  ASSUME NEW q \in Seq(Task), NEW at \in [Task -> Place], Ordered(q, at),
         NEW t \in Task, at[t] \notin Guarding, NEW p \in Place, p \notin Inside
  PROVE  Ordered(q, [at EXCEPT ![t] = p])
  BY DEF Ordered, Place, Guarding, Inside

\* Somebody joins the queue.
LEMMA QueueJoin ==
  ASSUME NEW q \in Seq(Task), NEW at \in [Task -> Place], Ordered(q, at),
         NEW t \in Task, at[t] \notin Guarding, NEW p \in Guarding, p \notin Inside
  PROVE  Ordered(Append(q, t), [at EXCEPT ![t] = p])
  <1>1. \A i \in 1 .. Len(q) : q[i] # t
    BY DEF Ordered
  <1>2. /\ Append(q, t) # <<>> /\ Len(q) \in Nat
        /\ Len(Append(q, t)) = Len(q) + 1 /\ Append(q, t)[Len(q) + 1] = t
        /\ \A i \in 1 .. Len(q) : Append(q, t)[i] = q[i]
    BY AppendProperties
  <1>3. q # <<>> => Head(Append(q, t)) = Head(q)
    BY HeadTailAppend
  <1>4. \A i \in 1 .. Len(q) : q[i] \in Task
    OBVIOUS
  <1>5. \A i \in 1 .. Len(Append(q, t)) :
           \/ i \in 1 .. Len(q) /\ Append(q, t)[i] = q[i]
           \/ i = Len(q) + 1 /\ Append(q, t)[i] = t
    BY <1>2
  <1>6. \A i \in 1 .. Len(Append(q, t)) :
           [at EXCEPT ![t] = p][Append(q, t)[i]] \in Guarding
    BY <1>1, <1>4, <1>5 DEF Ordered
  <1>7. \A i, j \in 1 .. Len(Append(q, t)) :
           Append(q, t)[i] = Append(q, t)[j] => i = j
    BY <1>1, <1>2, <1>5 DEF Ordered
  <1>8. \A u \in Task : [at EXCEPT ![t] = p][u] \in Inside =>
           Append(q, t) # <<>> /\ Head(Append(q, t)) = u
    BY <1>2, <1>3 DEF Ordered
  <1> QED
    BY <1>6, <1>7, <1>8 DEF Ordered

\* The holder leaves it.
LEMMA QueueLeave ==
  ASSUME NEW q \in Seq(Task), NEW at \in [Task -> Place], Ordered(q, at),
         NEW t \in Task, q # <<>>, Head(q) = t, NEW p \in Place, p \notin Guarding
  PROVE  Ordered(Tail(q), [at EXCEPT ![t] = p])
  <1>1. /\ Len(q) \in Nat \ {0} /\ q[1] = t
        /\ Tail(q) \in Seq(Task) /\ Len(Tail(q)) = Len(q) - 1
        /\ \A i \in 1 .. Len(Tail(q)) : Tail(q)[i] = q[i + 1] /\ q[i + 1] \in Task
    OBVIOUS
  <1>2. \A i \in 1 .. Len(Tail(q)) : Tail(q)[i] # t
    BY <1>1 DEF Ordered
  <1>3. \A u \in Task : u # t => at[u] \notin Inside
    BY DEF Ordered
  <1>4. p \notin Inside
    BY DEF Inside, Guarding
  <1> QED
    BY <1>1, <1>2, <1>3, <1>4 DEF Ordered

\* The four ways in which steps use the lock: t goes on where it is, ...
LEMMA LockGoto ==
  ASSUME TypeOK, LockOK, NEW t \in Task, NEW p \in Place, Goto(t, p), lock' = lock,
         \/ Held(t) /\ p \in Guarding
         \/ pc[t] \notin Guarding /\ p \notin Inside
  PROVE  LockOK' /\ pc' \in [Task -> Place] /\ lock' \in Seq(Task)
  BY QueueStays, QueueApart DEF TypeOK, LockOK, Goto, Held

\* ... it goes on and waits for the lock if it wants it, ...
LEMMA LockStart ==
  ASSUME TypeOK, LockOK, NEW t \in Task, pc[t] \notin Guarding,
         NEW p \in Place, p \notin Inside, NEW l, Start(t, p, l)
  PROVE  LockOK' /\ pc' \in [Task -> Place] /\ lock' \in Seq(Task)
  <1>1. CASE p \in Guarding
    <2>1. Ordered(Append(lock, t), [pc EXCEPT ![t] = p])
      BY <1>1, QueueJoin DEF TypeOK, LockOK
    <2>2. Append(lock, t) \in Seq(Task)
      BY AppendProperties DEF TypeOK
    <2> QED
      BY <1>1, <2>1, <2>2 DEF TypeOK, LockOK, Start, Goto
  <1>2. CASE p \notin Guarding
    BY <1>2, QueueApart DEF TypeOK, LockOK, Start, Goto
  <1> QED
    BY <1>1, <1>2

\* ... it leaves the lock if it has it, ...
LEMMA LockLeave ==
  ASSUME TypeOK, LockOK, NEW t \in Task, pc[t] \in Guarding => Held(t),
         NEW p \in Place, p \notin Guarding, Goto(t, p),
         lock' = IF Held(t) THEN Tail(lock) ELSE lock
  PROVE  LockOK' /\ pc' \in [Task -> Place] /\ lock' \in Seq(Task)
  <1>1. CASE Held(t)
    <2>1. Ordered(Tail(lock), [pc EXCEPT ![t] = p])
      BY <1>1, QueueLeave DEF TypeOK, LockOK, Held
    <2>2. Tail(lock) \in Seq(Task)
      BY <1>1 DEF TypeOK, Held
    <2> QED
      BY <1>1, <2>1, <2>2 DEF TypeOK, LockOK, Goto
  <1>2. CASE ~Held(t)
    BY <1>2, QueueApart DEF TypeOK, LockOK, Goto, Inside, Guarding
  <1> QED
    BY <1>1, <1>2

\* ... or it leaves the lock and waits for it again.
LEMMA LockAgain ==
  ASSUME TypeOK, LockOK, NEW t \in Task, Held(t),
         NEW p \in Guarding, p \notin Inside, Goto(t, p), lock' = Append(Tail(lock), t)
  PROVE  LockOK' /\ pc' \in [Task -> Place] /\ lock' \in Seq(Task)
  <1> DEFINE away == [pc EXCEPT ![t] = "idle"]
  <1>1. "idle" \in Place /\ "idle" \notin Guarding
    BY DEF Place, Guarding
  <1>2. Ordered(Tail(lock), away)
    BY <1>1, QueueLeave DEF TypeOK, LockOK, Held
  <1>3. Tail(lock) \in Seq(Task) /\ away \in [Task -> Place]
    BY <1>1 DEF TypeOK, Held
  <1>4. pc' = [away EXCEPT ![t] = p] /\ away[t] \notin Guarding
    BY <1>1 DEF TypeOK, Goto
  <1>5. Ordered(lock', pc')
    BY <1>2, <1>3, <1>4, QueueJoin
  <1>6. p \in Place
    BY DEF Place
  <1> QED
    BY <1>3, <1>4, <1>5, <1>6 DEF LockOK, TypeOK, Goto

\* One coroutine at a time is inside.
LEMMA LockAlone ==
  ASSUME LockOK, NEW t \in Task, NEW u \in Task, pc[t] \in Inside, pc[u] \in Inside
  PROVE  t = u
  BY DEF LockOK, Ordered

-----------------------------------------------------------------------------
(***************************************************************************)
(* What steps have in common.                                              *)
(***************************************************************************)

\* A guard that somebody relies on stays if nobody begins to rely on one.
LEMMA GuardKept ==
  ASSUME TypeOK, GuardOK,
         \A l \in listening' : Relies(l)' => l \in listening /\ Relies(l),
         guards' = guards, nft' = nft \/ nft' = Ruleset,
         \A t \in Task : pc'[t] = "previous" => pc[t] = "previous" /\ tgt'[t] = tgt[t],
         pc'[Sync] = "forget" => pc[Sync] = "forget" /\ tgt'[Sync] = tgt[Sync]
  PROVE  GuardOK'
  <1>1. \A l \in listening' : Relies(l)' => Guarded(l)'
    BY ConstantsAssumption DEF GuardOK, Guarded, TypeOK, Ruleset
  <1>2. \A t \in Task : pc'[t] = "previous" =>
          \A l \in listening' : Relies(l)' /\ l.port = tgt'[t].port => l.uid = tgt'[t].uid
    BY DEF GuardOK
  <1>3. pc'[Sync] = "forget" =>
          \A l \in listening' : Relies(l)' => l.port # tgt'[Sync].port
    BY DEF GuardOK
  <1> QED
    BY <1>1, <1>2, <1>3 DEF GuardOK

\* A coroutine comes to rest, having relied on what it publishes.
LEMMA RestKeeps ==
  ASSUME Inv, NEW t \in Task, pc[t] # "idle", pc[t] \in Guarding => Held(t), Rest(t),
         \/ pub' = pub
         \/ t \in Owner /\ \E s \in PublicationState :
               Save(t, tgt[t], s) /\ (s = "published" => pc[t] \in Trusting),
         UNCHANGED <<listening, guards, crashes>>, nft' = nft \/ nft' = Ruleset
  PROVE  Inv'
  <1> USE DEF Inv
  <1>1. LockOK' /\ pc' \in [Task -> Place] /\ lock' \in Seq(Task)
    <2>1. "idle" \in Place /\ "idle" \notin Guarding
      BY DEF Place, Guarding
    <2> QED
      BY <2>1, LockLeave DEF Rest
  <1>2. pub' \in [Owner -> Publication \cup {None}]
    BY DEF TypeOK, TargetsOK, Save, Publication, Task
  <1>3. nft' \in [Port -> User \cup {None}]
    BY ConstantsAssumption DEF TypeOK, Ruleset
  <1>4. TypeOK'
    BY <1>1, <1>2, <1>3 DEF TypeOK, Rest
  <1>5. Exclusive'
    BY DEF Exclusive
  <1>6. TargetsOK'
    BY ConstantsAssumption DEF TargetsOK, TypeOK, Rest, Goto, Save, Task, Publication
  <1>7. ConnOK'
    BY DEF ConnOK, TypeOK, Rest, Goto, Task
  <1>8. GuardOK'
    <2>1. \A l \in listening' : Relies(l)' => l \in listening /\ Relies(l)
      BY DEF Relies, Registered, TypeOK, Rest, Goto, Save, Trusting, Relaying, Publication, Task
    <2> QED
      BY <2>1, GuardKept DEF Rest, Goto, TypeOK
  <1> QED
    BY <1>1, <1>4, <1>5, <1>6, <1>7, <1>8

\* An exception.
LEMMA AbortKeeps ==
  ASSUME Inv, NEW t \in Task, pc[t] # "idle", pc[t] \in Guarding => Held(t), Abort(t),
         UNCHANGED <<listening, guards, crashes>>, nft' = nft \/ nft' = Ruleset
  PROVE  Inv'
  <1>1. CASE t \in Owner
    <2>1. PICK s \in {"error", "disconnected"} : Save(t, tgt[t], s)
      BY <1>1 DEF Abort
    <2>2. s \in PublicationState /\ s # "published"
      BY DEF PublicationState
    <2> QED
      BY <1>1, <2>1, <2>2, RestKeeps DEF Abort
  <1>2. CASE t \notin Owner
    BY <1>2, RestKeeps DEF Abort
  <1> QED
    BY <1>1, <1>2

\* A coroutine goes on with what it has.
LEMMA MoveKeeps ==
  ASSUME Inv, NEW t \in Task, t # Sync, NEW p \in Place, Goto(t, p),
         \/ Held(t) /\ p \in Guarding
         \/ pc[t] \notin Guarding /\ p \notin Inside,
         pc[t] # "idle", p = "confirm" => guards[tgt[t].port] = tgt[t],
         p \notin {"verify", "open"},
         p = "previous" => tgt[t] \in listening,
         p \in Trusting => pc[t] \in Trusting,
         UNCHANGED <<listening, nft, stores, lock, api, tgt, job, todo, crashes>>,
         conn' = conn \/ conn' = [conn EXCEPT ![t] = None]
  PROVE  Inv'
  <1> USE DEF Inv, stores
  <1>1. LockOK' /\ pc' \in [Task -> Place] /\ lock' \in Seq(Task)
    BY LockGoto
  <1>2. TypeOK'
    BY <1>1 DEF TypeOK
  <1>3. Exclusive'
    BY DEF Exclusive
  <1>4. TargetsOK'
    BY ConstantsAssumption DEF TargetsOK, TypeOK, Goto, Task
  <1>5. ConnOK'
    BY DEF ConnOK, TypeOK, Goto, Task
  <1>6. \A l \in listening' : Relies(l)' => l \in listening /\ Relies(l)
    BY DEF Relies, Registered, TypeOK, Goto, Trusting, Relaying
  <1>7. GuardOK'
    <2>1. CASE p # "previous"
      BY <1>6, <2>1, GuardKept DEF Goto, TypeOK, Task
    <2>2. CASE p = "previous"
      <3>1. \A l \in listening' : Relies(l)' => Guarded(l)'
        BY <1>6 DEF GuardOK, Guarded
      <3>2. \A v \in Task : pc'[v] = "previous" =>
              \A l \in listening' : Relies(l)' /\ l.port = tgt'[v].port => l.uid = tgt'[v].uid
        BY <1>6, <2>2 DEF GuardOK, Goto, TypeOK, Exclusive
      <3>3. pc'[Sync] = "forget" =>
              \A l \in listening' : Relies(l)' => l.port # tgt'[Sync].port
        BY <1>6 DEF GuardOK, Goto, TypeOK, Task
      <3> QED
        BY <3>1, <3>2, <3>3 DEF GuardOK
    <2> QED
      BY <2>1, <2>2
  <1> QED
    BY <1>1, <1>2, <1>3, <1>4, <1>5, <1>7

\* The owner's coroutine takes up a listener of the owner.
LEMMA BeginKeeps ==
  ASSUME Inv, NEW u \in Owner, pc[u] \notin Guarding,
         NEW p \in {"register", "restart", "protect", "check"},
         NEW l \in Listener, l.uid = u, NEW j \in {"configure", "refresh"},
         Begin(u, p, l, j), pub' = pub \/ Save(u, l, "checking")
  PROVE  Inv'
  <1> USE DEF Inv
  <1>1. u \in Task /\ u # Sync /\ u \notin Call
    BY ConstantsAssumption DEF Task
  <1>2. p \in Place /\ p \notin Inside /\ p \notin Trusting
    BY DEF Place, Inside, Trusting, Relaying, Guarding
  <1>3. LockOK' /\ pc' \in [Task -> Place] /\ lock' \in Seq(Task)
    BY <1>1, <1>2, LockStart DEF Begin
  <1>4. pub' \in [Owner -> Publication \cup {None}]
    BY DEF TypeOK, Save, Publication, PublicationState
  <1>5. TypeOK'
    BY <1>1, <1>3, <1>4 DEF TypeOK, Begin, Start
  <1>6. Exclusive'
    BY DEF Exclusive, Begin
  <1>7. TargetsOK'
    <2>1. \A v \in Owner : pub'[v] # None => pub'[v].target.uid = v
      BY DEF TargetsOK, TypeOK, Save, Publication
    <2> QED
      BY <1>1, <2>1 DEF TargetsOK, TypeOK, Begin, Start, Goto, Task
  <1>8. ConnOK'
    BY <1>1 DEF ConnOK, TypeOK, Begin, Start, Goto, Task
  <1>9. GuardOK'
    <2>1. \A m \in listening' : Relies(m)' => m \in listening /\ Relies(m)
      BY <1>1, <1>2 DEF Relies, Registered, TypeOK, Begin, Start, Goto, Save, Trusting, Relaying, Publication
    <2>2. /\ \A t \in Task : pc'[t] = "previous" => pc[t] = "previous" /\ tgt'[t] = tgt[t]
          /\ pc'[Sync] = "forget" => pc[Sync] = "forget" /\ tgt'[Sync] = tgt[Sync]
      BY <1>1, <1>2 DEF Begin, Start, Goto, TypeOK, Task, Inside
    <2> QED
      BY <2>1, <2>2, GuardKept DEF Begin
  <1> QED
    BY <1>3, <1>5, <1>6, <1>7, <1>8, <1>9

-----------------------------------------------------------------------------
(***************************************************************************)
(* Steps of the processes and of the guard.                                *)
(***************************************************************************)

LEMMA ListenKeeps ==
  ASSUME Inv, NEW u \in User, NEW p \in Port, Listen(u, p)
  PROVE  Inv'
  <1> USE DEF Inv
  <1>1. PICK l \in New(u, p) : listening' = listening \cup {l}
    BY DEF Listen
  <1>2. l \in Listener /\ l.uid = u /\ l.port = p /\ l \notin References
    BY DEF New
  <1>3. UNCHANGED <<nft, guards, pub, lock, pc, api, tgt, conn, job, todo, crashes>>
    BY DEF Listen, stores, control
  <1>4. TypeOK'
    BY <1>1, <1>2, <1>3 DEF TypeOK
  <1>5. LockOK' /\ TargetsOK'
    BY <1>3 DEF LockOK, TargetsOK
  <1>6. Exclusive'
    BY <1>1, <1>2 DEF Exclusive, Listen, On
  <1>7. ConnOK'
    BY <1>1, <1>2, <1>3 DEF ConnOK, References, Task
  <1>8. GuardOK'
    <2>1. \A m \in listening' : Relies(m)' => m \in listening /\ Relies(m)
      BY <1>1, <1>2, <1>3 DEF Relies, Registered, References
    <2> QED
      BY <1>3, <2>1, GuardKept
  <1> QED
    BY <1>4, <1>5, <1>6, <1>7, <1>8

LEMMA EndKeeps ==
  ASSUME Inv, NEW l \in listening, End(l)
  PROVE  Inv'
  <1> USE DEF Inv
  <1>1. UNCHANGED <<nft, guards, pub, lock, pc, api, tgt, conn, job, todo, crashes>>
    BY DEF End, stores, control
  <1>2. TypeOK' /\ LockOK' /\ TargetsOK'
    BY <1>1 DEF TypeOK, LockOK, TargetsOK, End
  <1>3. Exclusive' /\ ConnOK'
    BY <1>1 DEF Exclusive, ConnOK, End
  <1>4. GuardOK'
    <2>1. \A m \in listening' : Relies(m)' => m \in listening /\ Relies(m)
      BY <1>1 DEF Relies, Registered, End
    <2> QED
      BY <1>1, <2>1, GuardKept
  <1> QED
    BY <1>2, <1>3, <1>4

LEMMA ApplyKeeps ==
  ASSUME Inv, NEW t \in Task, Apply(t)
  PROVE  Inv'
  <1> USE DEF Inv
  <1>1. PICK o \in Outcome :
           /\ nft' = o[1]
           /\ IF ~o[2] THEN Abort(t)
              ELSE IF pc[t] = "restore" THEN Rest(t) /\ UNCHANGED pub
              ELSE /\ Goto(t, IF pc[t] = "install" THEN "check" ELSE "validate")
                   /\ lock' = IF pc[t] = "install" THEN Append(Tail(lock), t) ELSE Tail(lock)
                   /\ UNCHANGED <<pub, api, tgt, conn, job, todo>>
    BY DEF Apply
  <1>2. pc[t] \in {"install", "confirm", "restore"} /\ Held(t) /\ pc[t] \in Inside
    BY DEF Apply, At, Guarding, Inside
  <1>3. (nft' = nft \/ nft' = Ruleset) /\ (o[2] => nft' = Ruleset)
    <2>1. CASE o = <<Ruleset, TRUE>>
      BY <1>1, <2>1
    <2>2. CASE o = <<nft, FALSE>>
      BY <1>1, <2>2
    <2>3. CASE o = <<Ruleset, FALSE>>
      BY <1>1, <2>3
    <2> QED
      BY <2>1, <2>2, <2>3 DEF Outcome
  <1>4. UNCHANGED <<listening, guards, crashes>>
    BY DEF Apply
  <1>5. CASE ~o[2] \/ pc[t] = "restore"
    BY <1>1, <1>2, <1>3, <1>4, <1>5, AbortKeeps, RestKeeps
  <1>6. CASE o[2] /\ pc[t] \in {"install", "confirm"}
    <2> DEFINE p == IF pc[t] = "install" THEN "check" ELSE "validate"
    <2>1. Goto(t, p) /\ UNCHANGED <<pub, api, tgt, conn, job, todo>> /\ t # Sync
      BY <1>1, <1>6 DEF TargetsOK
    <2>2. LockOK' /\ pc' \in [Task -> Place] /\ lock' \in Seq(Task)
      <3>1. CASE pc[t] = "install"
        <4>1. "check" \in Guarding /\ "check" \notin Inside
          BY DEF Guarding, Inside
        <4> QED
          BY <1>1, <1>2, <1>6, <3>1, <4>1, LockAgain
      <3>2. CASE pc[t] = "confirm"
        <4>1. "validate" \in Place /\ "validate" \notin Guarding
          BY DEF Place, Guarding, Relaying
        <4> QED
          BY <1>1, <1>2, <1>6, <3>2, <4>1, LockLeave
      <3> QED
        BY <1>6, <3>1, <3>2
    <2>3. nft' \in [Port -> User \cup {None}]
      BY <1>3, ConstantsAssumption DEF TypeOK, Ruleset
    <2>4. TypeOK'
      BY <1>4, <2>1, <2>2, <2>3 DEF TypeOK
    <2>5. Exclusive'
      BY <1>4 DEF Exclusive
    <2>6. TargetsOK'
      BY <1>4, <1>6, <2>1 DEF TargetsOK, TypeOK, Goto
    <2>7. ConnOK'
      BY <1>4, <2>1 DEF ConnOK, TypeOK, Goto, Task
    <2>8. \A l \in listening' : Relies(l)' =>
             l \in listening /\ (Relies(l) \/ (pc[t] = "confirm" /\ l = tgt[t]))
      <3>1. \A v \in Task : v # t => pc'[v] = pc[v]
        BY <2>1 DEF Goto, TypeOK
      <3>2. pc'[t] \in Trusting => pc[t] = "confirm"
        BY <1>6, <2>1 DEF Goto, TypeOK, Trusting, Relaying
      <3>3. pc'[t] # "open"
        BY <1>6, <2>1 DEF Goto, TypeOK
      <3> QED
        BY <1>4, <2>1, <3>1, <3>2, <3>3 DEF Relies, Registered
    <2>9. \A l \in listening' : Relies(l)' => Guarded(l)'
      <3> SUFFICES ASSUME NEW l \in listening,
                          Relies(l) \/ (pc[t] = "confirm" /\ l = tgt[t])
                   PROVE  Guarded(l)'
        BY <2>8
      <3>1. guards[l.port] # None /\ guards[l.port].uid = l.uid
        BY ConstantsAssumption DEF GuardOK, Guarded, TargetsOK, TypeOK
      <3>2. l.port \in Port
        BY ConstantsAssumption DEF TypeOK
      <3> QED
        BY <1>3, <1>4, <1>6, <3>1, <3>2 DEF Guarded, Ruleset
    <2>10. \A u \in Task : pc'[u] \notin {"previous", "forget"}
      BY <1>2, <2>1, LockAlone DEF Goto, TypeOK, Inside
    <2>11. GuardOK'
      BY <2>9, <2>10 DEF GuardOK, Task
    <2> QED
      BY <2>2, <2>4, <2>5, <2>6, <2>7, <2>11
  <1> QED
    BY <1>2, <1>5, <1>6

LEMMA ProtectValidateKeeps ==
  ASSUME Inv, NEW t \in Task, ProtectValidate(t)
  PROVE  Inv'
  <1>1. pc[t] = "protect" /\ Held(t) /\ t # Sync
    BY DEF ProtectValidate, At, Guarding, Inv, TargetsOK
  <1>2. "previous" \in Place /\ "previous" \in Guarding /\ "previous" \notin Trusting
    BY DEF Place, Guarding, Trusting, Relaying
  <1>3. CASE tgt[t] \in listening
    BY <1>1, <1>2, <1>3, MoveKeeps DEF ProtectValidate, stores
  <1>4. CASE tgt[t] \notin listening
    BY <1>1, <1>4, AbortKeeps DEF ProtectValidate
  <1> QED
    BY <1>3, <1>4

LEMMA ProtectSaveKeeps ==
  ASSUME Inv, NEW t \in Task, ProtectSave(t)
  PROVE  Inv'
  <1> USE DEF Inv
  <1>1. pc[t] = "previous" /\ Held(t) /\ t # Sync /\ pc[t] \in Inside
    BY DEF ProtectSave, At, Guarding, TargetsOK, Inside
  <1>2. CASE Conflict(guards[tgt[t].port], tgt[t])
    BY <1>1, <1>2, AbortKeeps DEF ProtectSave
  <1>3. CASE ~Conflict(guards[tgt[t].port], tgt[t])
    <2>1. /\ guards' = [guards EXCEPT ![tgt[t].port] = tgt[t]]
          /\ Goto(t, "install")
          /\ UNCHANGED <<pub, lock, api, tgt, conn, job, todo, listening, nft, crashes>>
      BY <1>3 DEF ProtectSave
    <2>2. tgt[t] \in Listener /\ tgt[t].port \in Port /\ tgt[t] # None
      BY <1>1, ConstantsAssumption DEF TargetsOK, Task
    <2>3. "install" \in Place /\ "install" \in Guarding
      BY DEF Place, Guarding
    <2>4. LockOK' /\ pc' \in [Task -> Place] /\ lock' \in Seq(Task)
      BY <1>1, <2>1, <2>3, LockGoto
    <2>5. TypeOK'
      BY <2>1, <2>2, <2>4 DEF TypeOK
    <2>6. Exclusive'
      BY <2>1 DEF Exclusive
    <2>7. \A u \in Task : u # t => pc[u] \notin Inside
      BY <1>1, LockAlone
    <2>8. TargetsOK'
      BY <1>1, <2>1, <2>2, <2>7 DEF TargetsOK, TypeOK, Goto, Task, Inside
    <2>9. ConnOK'
      BY <2>1 DEF ConnOK, TypeOK, Goto, Task
    <2>10. \A l \in listening' : Relies(l)' => l \in listening /\ Relies(l)
      BY <2>1 DEF Relies, Registered, TypeOK, Goto, Trusting, Relaying
    <2>11. \A l \in listening' : Relies(l)' => Guarded(l)'
      BY <1>1, <2>1, <2>2, <2>10, ConstantsAssumption DEF GuardOK, Guarded, TypeOK
    <2>12. \A u \in Task : pc'[u] \notin {"previous", "forget"}
      BY <2>1, <2>7 DEF Goto, TypeOK, Inside
    <2>13. GuardOK'
      BY <2>11, <2>12 DEF GuardOK, Task
    <2> QED
      BY <2>4, <2>5, <2>6, <2>8, <2>9, <2>13
  <1> QED
    BY <1>2, <1>3

LEMMA CheckKeeps ==
  ASSUME Inv, NEW t \in Task, Check(t)
  PROVE  Inv'
  <1>1. pc[t] = "check" /\ Held(t) /\ t # Sync
    BY DEF Check, At, Guarding, Inv, TargetsOK
  <1>2. "confirm" \in Place /\ "confirm" \in Guarding /\ "confirm" \notin Trusting
    BY DEF Place, Guarding, Trusting, Relaying
  <1>3. CASE Entry(t)
    BY <1>1, <1>2, <1>3, MoveKeeps DEF Check, Entry, stores
  <1>4. CASE ~Entry(t)
    BY <1>1, <1>4, AbortKeeps DEF Check
  <1> QED
    BY <1>3, <1>4

\* A step of the reconciliation that changes neither guards nor nftables.
LEMMA SyncKeeps ==
  ASSUME Inv, UNCHANGED <<listening, nft, stores, api, conn, job, crashes>>,
         LockOK', lock' \in Seq(Task), pc' \in [Task -> Place],
         NEW p \in {"scan", "scanning", "look", "restore"}, Goto(Sync, p),
         NEW l \in Listener \cup {None}, tgt' = [tgt EXCEPT ![Sync] = l],
         p = "look" => l # None /\ guards[l.port] = l /\ l.port \notin todo',
         todo' \subseteq Port,
         p \in {"scanning", "look"} => \A q \in todo' : guards[q] # None
  PROVE  Inv'
  <1> USE DEF Inv, stores
  <1>1. Sync \in Task /\ Sync \notin Call \cup Owner
    BY ConstantsAssumption DEF Task
  <1>2. TypeOK'
    BY DEF TypeOK
  <1>3. Exclusive'
    BY DEF Exclusive
  <1>4. TargetsOK'
    BY <1>1, ConstantsAssumption DEF TargetsOK, TypeOK, Goto
  <1>5. ConnOK'
    BY <1>1 DEF ConnOK, TypeOK, Goto, Task
  <1>6. GuardOK'
    <2>1. \A m \in listening' : Relies(m)' => m \in listening /\ Relies(m)
      BY <1>1 DEF Relies, Registered, TypeOK, Goto, Trusting, Relaying
    <2>2. /\ \A t \in Task : pc'[t] = "previous" => pc[t] = "previous" /\ tgt'[t] = tgt[t]
          /\ pc'[Sync] # "forget"
      BY <1>1 DEF Goto, TypeOK
    <2> QED
      BY <2>1, <2>2, GuardKept
  <1> QED
    BY <1>2, <1>3, <1>4, <1>5, <1>6

LEMMA ReconcileStartKeeps ==
  ASSUME Inv, ReconcileStart
  PROVE  Inv'
  <1>1. Sync \in Task /\ "scan" \in Place /\ "scan" \notin Inside /\ pc[Sync] \notin Guarding
    BY DEF Task, Place, Guarding, Inside, ReconcileStart
  <1>2. LockOK' /\ pc' \in [Task -> Place] /\ lock' \in Seq(Task)
    BY <1>1, LockStart DEF ReconcileStart, Inv
  <1>3. /\ UNCHANGED <<listening, nft, stores, api, conn, job, todo, crashes>>
        /\ Goto(Sync, "scan") /\ tgt' = [tgt EXCEPT ![Sync] = None]
    BY DEF ReconcileStart, Start
  <1>4. todo' \subseteq Port
    BY <1>3 DEF Inv, TypeOK
  <1> QED
    BY <1>2, <1>3, <1>4, SyncKeeps

LEMMA ReconcileEntriesKeeps ==
  ASSUME Inv, ReconcileEntries
  PROVE  Inv'
  <1>1. /\ Sync \in Task /\ Held(Sync) /\ "scanning" \in Place /\ "scanning" \in Guarding
    BY DEF Task, Place, Guarding, ReconcileEntries, At
  <1>2. /\ UNCHANGED <<listening, nft, stores, lock, api, tgt, conn, job, crashes>>
        /\ Goto(Sync, "scanning") /\ todo' = {p \in Port : guards[p] # None}
    BY DEF ReconcileEntries
  <1>3. LockOK' /\ pc' \in [Task -> Place] /\ lock' \in Seq(Task)
    BY <1>1, <1>2, LockGoto DEF Inv
  <1>4. tgt[Sync] \in Listener \cup {None} /\ tgt' = [tgt EXCEPT ![Sync] = tgt[Sync]]
    BY <1>1, <1>2 DEF Inv, TypeOK
  <1> QED
    BY <1>2, <1>3, <1>4, SyncKeeps

LEMMA ReconcileNextKeeps ==
  ASSUME Inv, ReconcileNext
  PROVE  Inv'
  <1>1. /\ Sync \in Task /\ pc[Sync] = "scanning" /\ Held(Sync)
        /\ {"scanning", "look", "restore"} \subseteq Place
        /\ {"scanning", "look", "restore"} \subseteq Guarding
    BY DEF Task, Place, Guarding, ReconcileNext, At
  <1>2. UNCHANGED <<listening, nft, stores, lock, api, conn, job, crashes>>
    BY DEF ReconcileNext
  <1>3. tgt[Sync] \in Listener \cup {None} /\ tgt = [tgt EXCEPT ![Sync] = tgt[Sync]]
    BY <1>1 DEF Inv, TypeOK
  <1>4. \A q \in todo : guards[q] \in Listener /\ guards[q].port = q
    BY <1>1, ConstantsAssumption DEF Inv, TypeOK, TargetsOK
  <1>5. CASE todo = {}
    <2>1. Goto(Sync, "restore") /\ UNCHANGED <<tgt, todo>>
      BY <1>5 DEF ReconcileNext
    <2>2. LockOK' /\ pc' \in [Task -> Place] /\ lock' \in Seq(Task)
      BY <1>1, <1>2, <2>1, LockGoto DEF Inv
    <2> QED
      BY <1>2, <1>3, <1>5, <2>1, <2>2, SyncKeeps
  <1>6. CASE todo # {}
    <2>1. PICK p \in todo :
             /\ todo' = todo \ {p}
             /\ IF guards[p] \in listening
                THEN UNCHANGED <<pc, tgt>>
                ELSE Goto(Sync, "look") /\ tgt' = [tgt EXCEPT ![Sync] = guards[p]]
      BY <1>6 DEF ReconcileNext
    <2>2. todo' \subseteq Port /\ \A q \in todo' : q \in todo
      BY <2>1 DEF Inv, TypeOK
    <2>3. \A q \in todo' : guards[q] # None
      BY <1>1, <2>2 DEF Inv, TargetsOK
    <2>4. CASE guards[p] \in listening
      <3>1. Goto(Sync, "scanning") /\ tgt' = tgt
        BY <1>1, <2>1, <2>4 DEF Goto, Inv, TypeOK
      <3>2. LockOK' /\ pc' \in [Task -> Place] /\ lock' \in Seq(Task)
        BY <1>1, <1>2, <3>1, LockGoto DEF Inv
      <3> QED
        BY <1>2, <1>3, <2>2, <2>3, <3>1, <3>2, SyncKeeps
    <2>5. CASE guards[p] \notin listening
      <3>1. Goto(Sync, "look") /\ tgt' = [tgt EXCEPT ![Sync] = guards[p]]
        BY <2>1, <2>5
      <3>2. LockOK' /\ pc' \in [Task -> Place] /\ lock' \in Seq(Task)
        BY <1>1, <1>2, <3>1, LockGoto DEF Inv
      <3>3. guards[p] \in Listener /\ guards[p] # None /\ guards[p].port = p /\ p \notin todo'
        BY <1>4, <2>1, ConstantsAssumption
      <3> QED
        BY <1>2, <2>2, <2>3, <3>1, <3>2, <3>3, SyncKeeps
    <2> QED
      BY <2>4, <2>5
  <1> QED
    BY <1>5, <1>6

LEMMA ReconcileLookKeeps ==
  ASSUME Inv, ReconcileLook
  PROVE  Inv'
  <1>1. /\ Sync \in Task /\ pc[Sync] = "look" /\ Held(Sync) /\ pc[Sync] \in Inside
        /\ {"scanning", "forget"} \subseteq Place
        /\ {"scanning", "forget"} \subseteq Guarding
    BY DEF Task, Place, Guarding, Inside, ReconcileLook, At
  <1>2. UNCHANGED <<listening, nft, stores, lock, api, tgt, conn, job, todo, crashes>>
    BY DEF ReconcileLook
  <1>3. /\ tgt[Sync] \in Listener /\ tgt' = [tgt EXCEPT ![Sync] = tgt[Sync]]
        /\ guards[tgt[Sync].port] = tgt[Sync] /\ tgt[Sync].port \notin todo
        /\ todo \subseteq Port /\ \A q \in todo : guards[q] # None
    BY <1>1, <1>2 DEF Inv, TypeOK, TargetsOK
  <1>4. CASE Siblings(tgt[Sync]) # {}
    <2>1. Goto(Sync, "scanning")
      BY <1>4 DEF ReconcileLook
    <2>2. LockOK' /\ pc' \in [Task -> Place] /\ lock' \in Seq(Task)
      BY <1>1, <1>2, <2>1, LockGoto DEF Inv
    <2> QED
      BY <1>2, <1>3, <2>1, <2>2, SyncKeeps
  <1>5. CASE Siblings(tgt[Sync]) = {}
    <2> USE DEF Inv, stores
    <2>1. Goto(Sync, "forget")
      BY <1>5 DEF ReconcileLook
    <2>2. LockOK' /\ pc' \in [Task -> Place] /\ lock' \in Seq(Task)
      BY <1>1, <1>2, <2>1, LockGoto
    <2>3. TypeOK' /\ Exclusive'
      BY <1>2, <2>2 DEF TypeOK, Exclusive
    <2>4. TargetsOK'
      BY <1>1, <1>2, <1>3, <2>1, ConstantsAssumption DEF TargetsOK, TypeOK, Goto, Task
    <2>5. ConnOK'
      BY <1>2, <2>1 DEF ConnOK, TypeOK, Goto, Task
    <2>6. \A l \in listening' : Relies(l)' => l \in listening /\ Relies(l)
      BY <1>1, <1>2, <2>1 DEF Relies, Registered, TypeOK, Goto, Trusting, Relaying
    <2>7. \A l \in listening' : Relies(l)' => Guarded(l)'
      BY <1>2, <2>6 DEF GuardOK, Guarded
    <2>8. \A t \in Task : pc'[t] # "previous"
      BY <1>1, <2>1, LockAlone DEF Goto, TypeOK, Inside
    <2>9. \A l \in listening : Relies(l) => l.port # tgt[Sync].port
      BY <1>3, <1>5 DEF GuardOK, Guarded, Siblings, On
    <2>10. GuardOK'
      BY <1>2, <2>6, <2>7, <2>8, <2>9 DEF GuardOK
    <2> QED
      BY <2>2, <2>3, <2>4, <2>5, <2>10
  <1> QED
    BY <1>4, <1>5

LEMMA ReconcileForgetKeeps ==
  ASSUME Inv, ReconcileForget
  PROVE  Inv'
  <1> USE DEF Inv
  <1>1. /\ Sync \in Task /\ pc[Sync] = "forget" /\ Held(Sync) /\ pc[Sync] \in Inside
        /\ "scanning" \in Place /\ "scanning" \in Guarding
    BY DEF Task, Place, Guarding, Inside, ReconcileForget, At
  <1>2. /\ UNCHANGED <<listening, nft, pub, lock, api, tgt, conn, job, todo, crashes>>
        /\ guards' = [guards EXCEPT ![tgt[Sync].port] = None]
        /\ Goto(Sync, "scanning")
    BY DEF ReconcileForget
  <1>3. LockOK' /\ pc' \in [Task -> Place] /\ lock' \in Seq(Task)
    BY <1>1, <1>2, LockGoto
  <1>4. tgt[Sync] \in Listener /\ tgt[Sync].port \in Port
    BY <1>1, ConstantsAssumption DEF TargetsOK
  <1>5. TypeOK' /\ Exclusive'
    BY <1>2, <1>3, <1>4 DEF TypeOK, Exclusive
  <1>6. \A t \in Task : t # Sync => pc[t] \notin Inside
    BY <1>1, LockAlone
  <1>7. TargetsOK'
    BY <1>1, <1>2, <1>4, <1>6 DEF TargetsOK, TypeOK, Goto, Task, Inside
  <1>8. ConnOK'
    BY <1>2 DEF ConnOK, TypeOK, Goto, Task
  <1>9. \A l \in listening' : Relies(l)' => l \in listening /\ Relies(l)
    BY <1>1, <1>2 DEF Relies, Registered, TypeOK, Goto, Trusting, Relaying
  <1>10. \A l \in listening' : Relies(l)' => Guarded(l)'
    BY <1>1, <1>2, <1>4, <1>9, ConstantsAssumption DEF GuardOK, Guarded, TypeOK
  <1>11. \A t \in Task : pc'[t] \notin {"previous", "forget"}
    BY <1>1, <1>2, <1>6 DEF Goto, TypeOK, Inside
  <1>12. GuardOK'
    BY <1>1, <1>10, <1>11 DEF GuardOK
  <1> QED
    BY <1>3, <1>5, <1>7, <1>8, <1>12

-----------------------------------------------------------------------------
(***************************************************************************)
(* Steps of calls and of health checks.                                    *)
(***************************************************************************)

LEMMA ArriveKeeps ==
  ASSUME Inv, NEW c \in Call, NEW u \in Owner, Arrive(c, u)
  PROVE  Inv'
  <1> USE DEF Inv, stores
  <1>1. /\ c \in Task /\ c \notin Owner /\ c # Sync /\ pc[c] \notin Guarding
        /\ "token" \in Place /\ "token" \notin Inside /\ "token" \notin Trusting
    BY ConstantsAssumption DEF Task, Arrive, Guarding, Place, Inside, Trusting, Relaying
  <1>2. /\ Start(c, "token", pub[u].target) /\ api' = [api EXCEPT ![c] = u]
        /\ UNCHANGED <<listening, nft, guards, pub, conn, job, todo, crashes>>
    BY DEF Arrive
  <1>3. pub[u].target \in Listener /\ pub[u].target.uid = u
    BY DEF TypeOK, TargetsOK, Arrive, Publication
  <1>4. LockOK' /\ pc' \in [Task -> Place] /\ lock' \in Seq(Task)
    BY <1>1, <1>2, LockStart
  <1>5. TypeOK' /\ Exclusive'
    BY <1>1, <1>2, <1>3, <1>4 DEF TypeOK, Exclusive, Start
  <1>6. TargetsOK'
    BY <1>1, <1>2, <1>3 DEF TargetsOK, TypeOK, Start, Goto, Task
  <1>7. ConnOK'
    BY <1>2 DEF ConnOK, TypeOK, Start, Goto, Task
  <1>8. GuardOK'
    <2>1. \A l \in listening' : Relies(l)' => l \in listening /\ Relies(l)
      BY <1>1, <1>2 DEF Relies, Registered, TypeOK, Start, Goto, Trusting, Relaying
    <2>2. /\ \A t \in Task : pc'[t] = "previous" => pc[t] = "previous" /\ tgt'[t] = tgt[t]
          /\ pc'[Sync] = "forget" => pc[Sync] = "forget" /\ tgt'[Sync] = tgt[Sync]
      BY <1>1, <1>2 DEF Start, Goto, TypeOK, Task
    <2> QED
      BY <1>2, <2>1, <2>2, GuardKept
  <1> QED
    BY <1>4, <1>5, <1>6, <1>7, <1>8

LEMMA AuthorizeKeeps ==
  ASSUME Inv, NEW c \in Call, Authorize(c)
  PROVE  Inv'
  <1>1. /\ c \in Task /\ c \notin Owner /\ c # Sync /\ pc[c] = "token" /\ pc[c] \notin Guarding
        /\ "check" \in Place /\ "check" \notin Inside /\ "check" \notin Trusting
    BY ConstantsAssumption DEF Task, Authorize, Guarding, Place, Inside, Trusting, Relaying
  <1>2. UNCHANGED <<listening, nft, guards, crashes>>
    BY DEF Authorize
  <1>3. CASE Abort(c)
    BY <1>1, <1>2, <1>3, AbortKeeps
  <1>4. CASE Start(c, "check", tgt[c]) /\ UNCHANGED <<pub, api, conn, job, todo>>
    <2> USE DEF Inv
    <2>1. LockOK' /\ pc' \in [Task -> Place] /\ lock' \in Seq(Task)
      BY <1>1, <1>4, LockStart
    <2>2. tgt' = tgt
      BY <1>1, <1>4 DEF TypeOK, Start
    <2>3. TypeOK' /\ Exclusive'
      BY <1>2, <1>4, <2>1, <2>2 DEF TypeOK, Exclusive
    <2>4. TargetsOK'
      BY <1>1, <1>2, <1>4, <2>2 DEF TargetsOK, TypeOK, Start, Goto, Task
    <2>5. ConnOK'
      BY <1>1, <1>2, <1>4, <2>2 DEF ConnOK, TypeOK, Start, Goto, Task
    <2>6. GuardOK'
      <3>1. \A l \in listening' : Relies(l)' => l \in listening /\ Relies(l)
        BY <1>1, <1>2, <1>4, <2>2
           DEF Relies, Registered, TypeOK, Start, Goto, Trusting, Relaying
      <3>2. /\ \A t \in Task : pc'[t] = "previous" => pc[t] = "previous"
            /\ pc'[Sync] = pc[Sync]
        BY <1>1, <1>4 DEF Start, Goto, TypeOK, Task
      <3> QED
        BY <1>2, <2>2, <3>1, <3>2, GuardKept
    <2> QED
      BY <2>1, <2>3, <2>4, <2>5, <2>6
  <1> QED
    BY <1>3, <1>4 DEF Authorize

LEMMA ValidateKeeps ==
  ASSUME Inv, NEW t \in Task, Validate(t)
  PROVE  Inv'
  <1>1. /\ pc[t] = "validate" /\ pc[t] \notin Guarding /\ t # Sync /\ pc[t] \in Trusting
        /\ "connect" \in Place /\ "connect" \notin Inside
    BY DEF Validate, Guarding, Inside, Place, Trusting, Relaying, Inv, TargetsOK
  <1>2. CASE tgt[t] \in listening
    BY <1>1, <1>2, MoveKeeps DEF Validate, stores
  <1>3. CASE tgt[t] \notin listening
    BY <1>1, <1>3, AbortKeeps DEF Validate
  <1> QED
    BY <1>2, <1>3

LEMMA ConnectKeeps ==
  ASSUME Inv, NEW t \in Task, Connect(t)
  PROVE  Inv'
  <1>1. /\ pc[t] = "connect" /\ pc[t] \notin Guarding /\ t # Sync /\ pc[t] \in Trusting
        /\ "verify" \in Place /\ "verify" \notin Inside
        /\ UNCHANGED <<listening, nft, guards, crashes>>
    BY DEF Connect, Guarding, Inside, Place, Trusting, Relaying, Inv, TargetsOK
  <1>2. CASE Abort(t)
    BY <1>1, <1>2, AbortKeeps
  <1>3. CASE ~Abort(t)
    <2> USE DEF Inv
    <2>1. PICK l \in On(tgt[t].port) :
             /\ conn' = [conn EXCEPT ![t] = l]
             /\ Goto(t, "verify")
             /\ UNCHANGED <<pub, lock, api, tgt, job, todo>>
      BY <1>3 DEF Connect
    <2>2. l \in listening /\ l \in Listener /\ l.port = tgt[t].port
      BY DEF On, TypeOK
    <2>3. LockOK' /\ pc' \in [Task -> Place] /\ lock' \in Seq(Task)
      BY <1>1, <2>1, LockGoto
    <2>4. TypeOK' /\ Exclusive'
      BY <1>1, <2>1, <2>2, <2>3 DEF TypeOK, Exclusive
    <2>5. TargetsOK'
      BY <1>1, <2>1 DEF TargetsOK, TypeOK, Goto, Task
    <2>6. ConnOK'
      BY <1>1, <2>1, <2>2 DEF ConnOK, TypeOK, Goto, Task, Exclusive
    <2>7. GuardOK'
      <3>1. \A m \in listening' : Relies(m)' => m \in listening /\ Relies(m)
        BY <1>1, <2>1 DEF Relies, Registered, TypeOK, Goto
      <3>2. \A v \in Task : pc'[v] \in {"previous", "forget"} => pc'[v] = pc[v]
        BY <2>1 DEF Goto, TypeOK
      <3> QED
        BY <1>1, <2>1, <3>1, <3>2, GuardKept DEF Task
    <2> QED
      BY <2>3, <2>4, <2>5, <2>6, <2>7
  <1> QED
    BY <1>2, <1>3

\* Who accepted the connection is the registered process, or a worker of the
\* same user: the registered process is there now, so it was there then.
LEMMA SendKeeps ==
  ASSUME Inv, NEW t \in Task, Send(t)
  PROVE  Inv'
  <1>1. /\ pc[t] = "verify" /\ pc[t] \notin Guarding /\ t # Sync /\ pc[t] \in Trusting
        /\ "open" \in Place /\ "open" \notin Inside
        /\ UNCHANGED <<listening, nft, guards, crashes>>
    BY DEF Send, Guarding, Inside, Place, Trusting, Relaying, Inv, TargetsOK
  <1>2. CASE ~Unchanged(t)
    BY <1>1, <1>2, AbortKeeps DEF Send
  <1>3. CASE Unchanged(t)
    <2> USE DEF Inv
    <2>1. Goto(t, "open") /\ UNCHANGED <<pub, lock, api, tgt, conn, job, todo>>
      BY <1>3 DEF Send
    <2>2. t \in Call \cup Owner
      BY <1>1 DEF Task
    <2>3. /\ tgt[t] \in listening /\ conn[t] \in Listener
          /\ conn[t].port = tgt[t].port /\ conn[t].uid = tgt[t].uid
      BY <1>1, <1>3, <2>2 DEF Unchanged, ConnOK
    <2>4. LockOK' /\ pc' \in [Task -> Place] /\ lock' \in Seq(Task)
      BY <1>1, <2>1, LockGoto
    <2>5. TypeOK' /\ Exclusive'
      BY <1>1, <2>1, <2>4 DEF TypeOK, Exclusive
    <2>6. TargetsOK'
      BY <1>1, <2>1 DEF TargetsOK, TypeOK, Goto, Task
    <2>7. ConnOK'
      BY <1>1, <2>1, <2>3 DEF ConnOK, TypeOK, Goto, Task
    <2>8. Relies(tgt[t])
      BY <1>1 DEF Relies
    <2>9. \A l \in listening' : Relies(l)' => l \in listening /\ (Relies(l) \/ l = conn[t])
      BY <1>1, <2>1 DEF Relies, Registered, TypeOK, Goto
    <2>10. \A l \in listening' : Relies(l)' => Guarded(l)'
      BY <1>1, <2>3, <2>8, <2>9 DEF GuardOK, Guarded
    <2>11. \A v \in Task : pc'[v] = "previous" =>
              \A l \in listening' : Relies(l)' /\ l.port = tgt'[v].port => l.uid = tgt'[v].uid
      BY <2>1, <2>3, <2>8, <2>9 DEF GuardOK, Goto, TypeOK
    <2>12. pc'[Sync] = "forget" =>
              \A l \in listening' : Relies(l)' => l.port # tgt'[Sync].port
      BY <1>1, <2>1, <2>3, <2>8, <2>9 DEF GuardOK, Goto, TypeOK, Task
    <2>13. GuardOK'
      BY <2>10, <2>11, <2>12 DEF GuardOK
    <2> QED
      BY <2>4, <2>5, <2>6, <2>7, <2>13
  <1> QED
    BY <1>2, <1>3

LEMMA BreakKeeps ==
  ASSUME Inv, NEW t \in Task, Break(t)
  PROVE  Inv'
  <1>1. pc[t] # "idle" /\ pc[t] \notin Guarding
    BY DEF Break, Relaying, Guarding
  <1> QED
    BY <1>1, AbortKeeps DEF Break

LEMMA AnswerKeeps ==
  ASSUME Inv, NEW t \in Task, Answer(t)
  PROVE  Inv'
  <1>1. /\ pc[t] = "open" /\ pc[t] \notin Guarding /\ t # Sync /\ pc[t] \in Trusting
        /\ "configure" \in Place /\ "configure" \notin Inside
        /\ UNCHANGED <<listening, nft, guards, crashes>>
    BY DEF Answer, Guarding, Inside, Place, Trusting, Relaying, Inv, TargetsOK
  <1>2. CASE t \in Owner /\ job[t] = "configure"
    BY <1>1, <1>2, MoveKeeps DEF Answer, stores
  <1>3. CASE ~(t \in Owner /\ job[t] = "configure")
    <2>1. Rest(t) /\ (pub' = pub \/ (t \in Owner /\ Save(t, tgt[t], "published")))
      BY <1>3 DEF Answer
    <2>2. "published" \in PublicationState
      BY DEF PublicationState
    <2> QED
      BY <1>1, <2>1, <2>2, RestKeeps
  <1> QED
    BY <1>2, <1>3

-----------------------------------------------------------------------------
(***************************************************************************)
(* Steps of publications, and restarts.                                    *)
(***************************************************************************)

LEMMA RequestKeeps ==
  ASSUME Inv, NEW u \in Owner, Request(u)
  PROVE  Inv'
  <1>1. pc[u] = "idle" /\ pc[u] \notin Guarding
    BY DEF Request, Register, Publish, Stop, Guarding
  <1>2. CASE Register(u)
    <2>1. PICK l \in listening : l.uid = u /\ Begin(u, "register", l, "configure")
      BY <1>2 DEF Register
    <2>2. l \in Listener
      BY DEF Inv, TypeOK
    <2> QED
      BY <1>1, <1>2, <2>1, <2>2, BeginKeeps DEF Register
  <1>3. CASE Publish(u)
    <2>1. pub[u].target \in Listener /\ pub[u].target.uid = u
      BY <1>3 DEF Inv, TypeOK, TargetsOK, Publish, Publication
    <2> QED
      BY <1>1, <1>3, <2>1, BeginKeeps DEF Publish, Republish
  <1>4. CASE Stop(u)
    <2> USE DEF Inv
    <2>1. UNCHANGED <<listening, nft, guards, lock, pc, api, tgt, conn, job, todo, crashes>>
      BY <1>4 DEF Stop, control
    <2>2. /\ pub' \in [Owner -> Publication \cup {None}]
          /\ \A v \in Owner : pub'[v] # None => pub[v] # None /\ pub'[v].target = pub[v].target
          /\ \A v \in Owner : pub'[v] # None /\ pub'[v].state = "published" => pub'[v] = pub[v]
      BY <1>4 DEF Stop, Save, TypeOK, Publication, PublicationState
    <2>3. TypeOK' /\ LockOK' /\ Exclusive' /\ ConnOK'
      BY <2>1, <2>2 DEF TypeOK, LockOK, Exclusive, ConnOK
    <2>4. TargetsOK'
      BY <2>1, <2>2 DEF TargetsOK
    <2>5. \A l \in listening' : Relies(l)' => l \in listening /\ Relies(l)
      BY <2>1, <2>2 DEF Relies, Registered
    <2>6. GuardOK'
      BY <2>1, <2>5, GuardKept
    <2> QED
      BY <2>3, <2>4, <2>6
  <1> QED
    BY <1>2, <1>3, <1>4 DEF Request

LEMMA RefreshKeeps ==
  ASSUME Inv, NEW u \in Owner, Refresh(u)
  PROVE  Inv'
  <1>1. pc[u] = "idle" /\ pc[u] \notin Guarding
    BY DEF Refresh, Guarding
  <1>2. pub[u].target \in Listener /\ pub[u].target.uid = u
    BY DEF Inv, TypeOK, TargetsOK, Refresh, Wanted, Publication
  <1>3. CASE Republish(u)
    BY <1>1, <1>2, <1>3, BeginKeeps DEF Republish
  <1>4. CASE ~Republish(u)
    <2>1. PICK p \in {"check", "restart"} : Begin(u, p, pub[u].target, "refresh") /\ UNCHANGED pub
      BY <1>4 DEF Refresh
    <2> QED
      BY <1>1, <1>2, <2>1, BeginKeeps
  <1> QED
    BY <1>3, <1>4

LEMMA PublishingKeeps ==
  ASSUME Inv, NEW u \in Owner, Publishing(u)
  PROVE  Inv'
  <1>1. u \in Task /\ u # Sync
    BY ConstantsAssumption DEF Task
  <1>2. pc[u] # "idle" => tgt[u] \in Listener /\ tgt[u].uid = u
    BY DEF Inv, TargetsOK
  <1>3. CASE RegisterSave(u)
    <2>1. pc[u] = "register" /\ pc[u] \notin Guarding
      BY <1>3 DEF RegisterSave, Guarding
    <2> QED
      BY <1>2, <1>3, <2>1, BeginKeeps DEF RegisterSave
  <1>4. CASE RefreshRestarted(u)
    <2>1. pc[u] = "restart" /\ pc[u] \notin Guarding
      BY <1>4 DEF RefreshRestarted, Guarding
    <2>2. CASE Abort(u) /\ UNCHANGED <<listening, nft, guards, crashes>>
      BY <1>1, <2>1, <2>2, AbortKeeps
    <2>3. CASE \E l \in Restarted(tgt[u]) :
                  Save(u, l, "checking") /\ Begin(u, "protect", l, "configure")
      <3>1. PICK l \in Restarted(tgt[u]) :
                  Save(u, l, "checking") /\ Begin(u, "protect", l, "configure")
        BY <2>3
      <3>2. l \in Listener /\ l.uid = u
        BY <1>2, <2>1 DEF Restarted, Siblings, On, Inv, TypeOK
      <3> QED
        BY <2>1, <3>1, <3>2, BeginKeeps
    <2> QED
      BY <1>4, <2>2, <2>3 DEF RefreshRestarted
  <1>5. CASE Complete(u)
    <2>1. pc[u] = "recheck" /\ pc[u] \notin Guarding /\ pc[u] \in Trusting
      BY <1>5 DEF Complete, Guarding, Trusting
    <2>2. "published" \in PublicationState
      BY DEF PublicationState
    <2> QED
      BY <1>1, <1>5, <2>1, <2>2, AbortKeeps, RestKeeps DEF Complete
  <1>6. ASSUME NEW ok \in BOOLEAN, Configure(u, ok) PROVE Inv'
    <2>1. /\ pc[u] = "configure" /\ pc[u] \notin Guarding /\ pc[u] \in Trusting
          /\ "recheck" \in Place /\ "recheck" \notin Inside
      BY <1>6 DEF Configure, Guarding, Trusting, Place, Inside
    <2>2. CASE ok
      BY <1>1, <1>6, <2>1, <2>2, MoveKeeps DEF Configure, stores
    <2>3. CASE ~ok
      BY <1>1, <1>6, <2>1, <2>3, AbortKeeps DEF Configure
    <2> QED
      BY <2>2, <2>3
  <1> QED
    BY <1>3, <1>4, <1>5, <1>6 DEF Publishing

LEMMA CrashKeeps ==
  ASSUME Inv, Crash
  PROVE  Inv'
  <1> USE DEF Inv
  <1>1. /\ lock' = <<>> /\ pc' = [t \in Task |-> "idle"] /\ api' = [t \in Task |-> None]
        /\ tgt' = [t \in Task |-> None] /\ conn' = [t \in Task |-> None] /\ todo' = {}
        /\ UNCHANGED <<guards, pub, job>>
        /\ UNCHANGED <<listening, nft>> \/ (listening' = {} /\ nft' = [p \in Port |-> None])
    BY DEF Crash, stores
  <1>2. crashes' \in 0 .. MaxCrashes
    BY ConstantsAssumption DEF Crash, TypeOK
  <1>3. TypeOK'
    BY <1>1, <1>2 DEF TypeOK, Place
  <1>4. LockOK'
    BY <1>1 DEF LockOK, Ordered, Inside
  <1>5. Exclusive' /\ TargetsOK' /\ ConnOK'
    BY <1>1 DEF Exclusive, TargetsOK, ConnOK, Task
  <1>6. GuardOK'
    <2>1. \A l \in listening' : Relies(l)' => l \in listening /\ Relies(l)
      BY <1>1 DEF Relies, Registered, Trusting, Relaying
    <2>2. \A t \in Task : pc'[t] \notin {"previous", "forget"}
      BY <1>1
    <2>3. CASE UNCHANGED <<listening, nft>>
      BY <1>1, <2>1, <2>2, <2>3, GuardKept DEF Task
    <2>4. CASE listening' = {}
      BY <2>2, <2>4 DEF GuardOK, Task
    <2> QED
      BY <1>1, <2>3, <2>4
  <1> QED
    BY <1>3, <1>4, <1>5, <1>6

-----------------------------------------------------------------------------
(***************************************************************************)
(* The theorems.                                                           *)
(***************************************************************************)

LEMMA InitInv == Init => Inv
  <1> SUFFICES ASSUME Init PROVE Inv
    OBVIOUS
  <1>1. TypeOK
    BY ConstantsAssumption DEF Init, TypeOK, Place
  <1>2. LockOK /\ Exclusive
    BY DEF Init, LockOK, Ordered, Inside, Exclusive
  <1>3. TargetsOK /\ ConnOK
    BY DEF Init, TargetsOK, ConnOK, Task
  <1>4. GuardOK
    BY DEF Init, GuardOK, Task
  <1> QED
    BY <1>1, <1>2, <1>3, <1>4 DEF Inv

LEMMA NextInv == Inv /\ [Next]_vars => Inv'
  <1> SUFFICES ASSUME Inv, [Next]_vars PROVE Inv'
    OBVIOUS
  <1>1. CASE Processes
    BY <1>1, ListenKeeps, EndKeeps DEF Processes
  <1>2. ASSUME NEW t \in Task, Guard(t) PROVE Inv'
    BY <1>2, ApplyKeeps, ProtectValidateKeeps, ProtectSaveKeeps, CheckKeeps DEF Guard
  <1>3. ASSUME NEW t \in Task, Relay(t) PROVE Inv'
    BY <1>3, ValidateKeeps, ConnectKeeps, SendKeeps, BreakKeeps, AnswerKeeps DEF Relay
  <1>4. ASSUME NEW u \in Owner, Request(u) \/ Refresh(u) \/ Publishing(u) PROVE Inv'
    BY <1>4, RequestKeeps, RefreshKeeps, PublishingKeeps
  <1>5. ASSUME NEW c \in Call, Authorize(c) \/ \E u \in Owner : Arrive(c, u) PROVE Inv'
    BY <1>5, AuthorizeKeeps, ArriveKeeps
  <1>6. CASE ReconcileStart \/ Reconcile
    BY <1>6, ReconcileStartKeeps, ReconcileEntriesKeeps, ReconcileNextKeeps,
       ReconcileLookKeeps, ReconcileForgetKeeps DEF Reconcile
  <1>7. CASE Crash
    BY <1>7, CrashKeeps
  <1>8. CASE UNCHANGED vars
    <2>1. UNCHANGED <<listening, nft, guards, pub, lock, pc, api, tgt, conn, job, todo, crashes>>
      BY <1>8 DEF vars, stores, control
    <2>2. TypeOK' /\ LockOK' /\ Exclusive' /\ TargetsOK' /\ ConnOK'
      BY <2>1 DEF Inv, TypeOK, LockOK, Exclusive, TargetsOK, ConnOK
    <2>3. GuardOK'
      BY <2>1 DEF Inv, GuardOK, Guarded, Relies, Registered
    <2> QED
      BY <2>2, <2>3 DEF Inv
  <1> QED
    BY <1>1, <1>2, <1>3, <1>4, <1>5, <1>6, <1>7, <1>8 DEF Next

LEMMA Invariance == Spec => []Inv
  BY InitInv, NextInv, PTL DEF Spec

\* Variables keep their types.
THEOREM TypeCorrect == Spec => []TypeOK
  <1>1. Inv => TypeOK
    BY DEF Inv
  <1> QED
    BY <1>1, Invariance, PTL

\* Calls and health checks are sent to processes of the API's owner only.
THEOREM OwnerOnly == Spec => []ReachesOwner
  <1>1. Inv => ReachesOwner
    BY DEF Inv, ConnOK, TargetsOK, ReachesOwner
  <1> QED
    BY <1>1, Invariance, PTL

\* The port of a process that serves a call is closed to other users.
THEOREM Served == Spec => []ServedIsGuarded
  <1>1. Inv => ServedIsGuarded
    BY DEF Inv, GuardOK, Guarded, Relies, ServedIsGuarded, Task
  <1> QED
    BY <1>1, Invariance, PTL

\* So is the port of a published API.
THEOREM Published == Spec => []PublishedIsGuarded
  <1>1. Inv => PublishedIsGuarded
    BY DEF Inv, GuardOK, Guarded, Relies, Registered, TargetsOK, PublishedIsGuarded
  <1> QED
    BY <1>1, Invariance, PTL
=============================================================================
