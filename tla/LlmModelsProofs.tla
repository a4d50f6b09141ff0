-------------------------- MODULE LlmModelsProofs --------------------------
(***************************************************************************)
(* Proofs about LlmModels, for any number of models, requests, calls,      *)
(* failures and crashes.                                                   *)
(*                                                                         *)
(* Who works on a model's deployments holds its lock (Locked), and what it *)
(* counted or read there stays true until it goes on (Fits): the other     *)
(* actors hold locks of other models (Bystander).  A deletion therefore    *)
(* ends with no deployment, and nobody on the way to offer a model that is *)
(* gone for good comes after it (GoneForGood).                             *)
(*                                                                         *)
(* That a pulled model is registered or being watched rests on who writes  *)
(* what in the state directory of the script: as long as nothing disturbed *)
(* it there is only one worker (Sole), and a    *)
(* model with a worker or a good result is registered, or its request is   *)
(* being started, or its watcher is on its way to register it (Cared).     *)
(*                                                                         *)
(* Most steps have an actor go on with a new record: they owe Goes, Keeps  *)
(* and Heeds, and CallInv or GoParts concludes.                            *)
(***************************************************************************)
EXTENDS LlmModels, TLAPS

\* Records of actors.
Record == [op : Op \cup {"none"}, at : Place, model : Model \cup {Nobody},
           todo : 0..2, rest : SUBSET Model, second : BOOLEAN]

\* Places under the lock of the model.
Holding == Registering \cup Unregistering

\* Places on the way to offer a model that was seen to be installed.
Offering == {"show", "info", "new", "verify", "drop"}

\* Places of a watcher that still cares for its model.
Watching == {"poll", "files", "lock", "failed"} \cup Registering

\* How many deployments model m has, by those C and the earlier ones G.
Deployed(C, G, m) == C[m] + (IF m \in G THEN 1 ELSE 0)

\* What the record p of actor a says of deployments C and G and of the models d
\* whose pull was disturbed.
Fits(a, p, C, G, d) ==
    /\ p.at = "idle" => p.op = "none"
    /\ p.at # "idle" => p.model \in Model
    /\ a \in Model /\ p.at # "idle" => p.op = "watch" /\ p.model = a
    /\ p.at \in Unregistering \cup {"unlist", "erase", "tags"} => p.op = "delete"
    /\ p.at \in {"names", "exists", "cancel", "clean", "progress", "pull", "sweep", "mkdir",
                "started"}
          => p.op # "delete"
    /\ p.at = "new" => C[p.model] = 0
    /\ p.at = "drop" => C[p.model] = 1
    /\ p.at = "remove" => p.todo = Deployed(C, G, p.model) /\ p.todo # 0
    /\ a \in Task /\ p.op = "delete" => p.model \in d

\* The record of every actor fits.
Actors == \A a \in Actor : Fits(a, proc[a], chat, legacy, disturbed)

\* Who works on a model holds its lock.
Locked == \A a \in Actor : proc[a].at \in Holding => lock[proc[a].model] = a

\* A model that a deletion removed is not installed, has no deployment, and nobody is
\* about to offer it.
GoneForGood ==
    \A m \in gone :
        /\ m \notin installed /\ Deployed(chat, legacy, m) = 0
        /\ \A a \in Actor : proc[a].model = m => proc[a].at \notin Offering

\* As long as nothing disturbed it, a worker is the only one.
Sole ==
    \A m \in Model \ disturbed : worker[m] # "none" =>
        /\ pulling /\ result[m] = "none"
        /\ \A w \in Model \ {m} : worker[w] = "none"

\* Model m is being pulled, or was, and nobody disturbed that or noted a failure.
Due(m, w, r, d, n) == m \notin d \cup n /\ (w[m] # "none" \/ r[m] = "ok")

\* Somebody registers model m or has done so.
Cared(m, P, C, G) ==
    \/ C[m] # 0 \/ m \in G
    \/ \E t \in Task : P[t].at = "started" /\ P[t].model = m
    \/ P[m].at \in Watching

\* A model due is cared for.
Watched ==
    \A m \in Model : Due(m, worker, result, disturbed, noted \cup misread)
                        => Cared(m, proc, chat, legacy)

\* The inductive invariant.
Inv == TypeOK /\ Actors /\ Locked /\ GoneForGood /\ Sole /\ Watched

\* Tasks, models and Nobody are different things.
LEMMA Distinct ==
    /\ Task \cap Model = {} /\ Nobody \notin Task /\ Nobody \notin Model
    /\ Task \subseteq Actor /\ Model \subseteq Actor
    /\ \A a \in Actor : a \in Task \/ a \in Model
    /\ Nobody \notin Actor
BY ConstantsAssumption DEF Actor

\* What a CHOOSE from a set that is not empty returns is in it.
LEMMA Chosen == ASSUME NEW S, S # {} PROVE (CHOOSE x \in S : TRUE) \in S
OBVIOUS

\* The changes of a step to deployments: only to a model whose lock a holds.
Owned(a) ==
    /\ chat' \in [Model -> 0..1] /\ legacy' \subseteq Model
    /\ \A m \in Model :
          \/ chat'[m] = chat[m] /\ (m \in legacy' <=> m \in legacy)
          \/ m = proc[a].model /\ lock[m] = a

\* The record, the locks and the models gone after an actor goes on with q.
LEMMA MoveProc ==
    ASSUME TypeOK, NEW a \in Actor, NEW q \in Record, Go(a, q),
           q.at # "idle" => q.model \in Model
    PROVE  /\ proc' \in [Actor -> Record] /\ proc'[a] = q
           /\ \A b \in Actor : b # a => proc'[b] = proc[b]
           /\ lock' \in [Model -> Actor \cup {Nobody}]
           /\ gone' \subseteq Model
           /\ \A m \in Model : lock'[m] = lock[m] \/ (lock[m] = a /\ q.at \notin Holding)
<1>1. proc \in [Actor -> Record] /\ lock \in [Model -> Actor \cup {Nobody}] /\ gone \subseteq Model
  BY DEF TypeOK, Record
<1>2. proc' = [proc EXCEPT ![a] = q]
  BY DEF Go
<1>3. lock' = [m \in Model |-> IF lock[m] = a /\ q.at \notin Holding THEN Nobody ELSE lock[m]]
  BY DEF Go, Holding
<1>4. gone' \subseteq Model
  <2>1. CASE q.op = "delete" /\ q.at = "done"
    <3>2. gone' = gone \cup ({q.model} \ installed)
      BY <2>1 DEF Go
    <3> QED BY <1>1, <2>1, <3>2
  <2>2. CASE ~(q.op = "delete" /\ q.at = "done")
    BY <2>2, <1>1 DEF Go
  <2> QED BY <2>1, <2>2
<1> QED BY <1>1, <1>2, <1>3, <1>4


\* A model that is being deleted stays disturbed.
Recalls == \A t \in Task : proc[t].op = "delete" => proc[t].model \in disturbed'

\* The model a deletion works on stays disturbed.
LEMMA Recall == ASSUME Actors, disturbed \subseteq disturbed' PROVE Recalls
BY Distinct DEF Actors, Fits, Recalls

\* What an actor does at its own place leaves the others where they fit.
LEMMA Bystander ==
    ASSUME TypeOK, Actors, Locked, NEW a \in Actor, NEW b \in Actor, b # a,
           Owned(a), Recalls
    PROVE  Fits(b, proc[b], chat', legacy', disturbed')
<1>0. proc[b] \in Record /\ Fits(b, proc[b], chat, legacy, disturbed)
  BY DEF TypeOK, Record, Actors
<1>1. proc[b].at \in Holding => lock[proc[b].model] = b /\ proc[b].model \in Model
  BY <1>0 DEF Locked, Fits, Holding, Registering, Unregistering
<1>2. proc[b].at \in Holding => chat'[proc[b].model] = chat[proc[b].model]
                             /\ (proc[b].model \in legacy' <=> proc[b].model \in legacy)
  BY <1>1 DEF Owned
<1>3. proc[b].at \in {"new", "drop", "remove"} => proc[b].at \in Holding
  BY DEF Holding, Registering, Unregistering
<1>4. proc[b].at = "remove"
        => Deployed(chat', legacy', proc[b].model) = Deployed(chat, legacy, proc[b].model)
  BY <1>2, <1>3 DEF Deployed
<1> QED BY <1>0, <1>2, <1>3, <1>4 DEF Fits, Recalls

\* An actor that goes on with a record that fits keeps all records and locks right.
LEMMA MoveActors ==
    ASSUME TypeOK, Actors, Locked, NEW a \in Actor, NEW q \in Record, Go(a, q), Owned(a),
           Fits(a, q, chat', legacy', disturbed'), Recalls,
           q.at \in Holding => lock[q.model] = a
    PROVE  Actors' /\ Locked'
<1>0. q.at # "idle" => q.model \in Model
  BY DEF Fits
<1>1. /\ proc'[a] = q /\ \A b \in Actor : b # a => proc'[b] = proc[b]
      /\ \A m \in Model : lock'[m] = lock[m] \/ (lock[m] = a /\ q.at \notin Holding)
  BY <1>0, MoveProc
<1>2. Actors'
  <2> SUFFICES ASSUME NEW b \in Actor PROVE Fits(b, proc'[b], chat', legacy', disturbed')
    BY DEF Actors
  <2>1. CASE b = a
    BY <1>1, <2>1
  <2>2. CASE b # a
    BY <1>1, <2>2, Bystander
  <2> QED BY <2>1, <2>2
<1>3. Locked'
  <2> SUFFICES ASSUME NEW b \in Actor, proc'[b].at \in Holding
               PROVE lock'[proc'[b].model] = b
    BY DEF Locked
  <2>1. CASE b = a
    <3>1. q.model \in Model
      BY <1>0, <1>1, <2>1 DEF Holding, Registering, Unregistering
    <3> QED BY <1>1, <2>1, <3>1
  <2>2. CASE b # a
    <3>1. proc[b].at \in Holding /\ lock[proc[b].model] = b
      BY <1>1, <2>2 DEF Locked
    <3>2. proc[b].model \in Model
      BY <3>1 DEF Actors, Fits, Holding, Registering, Unregistering
    <3> QED BY <1>1, <2>2, <3>1, <3>2
  <2> QED BY <2>1, <2>2
<1> QED BY <1>2, <1>3

\* A deletion ends with no deployment left, and nobody offers what is gone.
LEMMA MoveGone ==
    ASSUME TypeOK, Actors, Locked, GoneForGood, NEW a \in Actor, NEW q \in Record, Go(a, q),
           Fits(a, q, chat', legacy', disturbed'), installed' \subseteq installed,
           q.op = "delete" /\ q.at = "done"
              => lock[q.model] = a /\ Deployed(chat', legacy', q.model) = 0,
           q.at \in Offering => q.model \notin gone,
           \A m \in gone : Deployed(chat', legacy', m) = 0
    PROVE  GoneForGood'
<1>0. q.at # "idle" => q.model \in Model
  BY DEF Fits
<1>1. /\ proc'[a] = q /\ \A b \in Actor : b # a => proc'[b] = proc[b]
      /\ gone \subseteq Model /\ gone' \subseteq Model
  BY <1>0, MoveProc DEF TypeOK
<1> SUFFICES ASSUME NEW m \in gone'
             PROVE  /\ m \notin installed' /\ Deployed(chat', legacy', m) = 0
                    /\ \A b \in Actor : proc'[b].model = m => proc'[b].at \notin Offering
  BY DEF GoneForGood
<1>2. CASE m \in gone
  <2>1. m \notin installed' /\ Deployed(chat', legacy', m) = 0
    BY <1>2 DEF GoneForGood
  <2>2. ASSUME NEW b \in Actor, proc'[b].model = m PROVE proc'[b].at \notin Offering
    BY <1>1, <1>2, <2>2 DEF GoneForGood
  <2> QED BY <2>1, <2>2
<1>3. CASE m \notin gone
  <2>1. q.op = "delete" /\ q.at = "done" /\ m = q.model /\ m \notin installed
    BY <1>3 DEF Go
  <2>2. ASSUME NEW b \in Actor, proc'[b].model = m PROVE proc'[b].at \notin Offering
    <3>1. CASE b = a
      BY <1>1, <2>1, <3>1 DEF Offering
    <3>2. CASE b # a
      <4>1. proc[b].at \in Offering => proc[b].at \in Holding
        BY DEF Offering, Holding, Registering
      <4> QED BY <1>1, <2>1, <2>2, <3>2, <4>1 DEF Locked
    <3> QED BY <3>1, <3>2
  <2> QED BY <2>1, <2>2
<1> QED BY <1>2, <1>3

\* A model due stays cared for when the actor that goes on heeds it.
LEMMA MoveWatched ==
    ASSUME TypeOK, Watched, NEW a \in Actor, NEW q \in Record, Go(a, q),
           q.at # "idle" => q.model \in Model, proc[a].at # "started",
           \A m \in Model : Due(m, worker', result', disturbed', noted' \cup misread')
              => \/ Due(m, worker, result, disturbed, noted \cup misread)
                 \/ Cared(m, proc', chat', legacy'),
           \A m \in Model \ disturbed' : chat[m] # 0 \/ m \in legacy
                                           => chat'[m] # 0 \/ m \in legacy',
           a \in Model /\ proc[a].at \in Watching
              => (Due(a, worker', result', disturbed', noted' \cup misread')
                    => q.at \in Watching \/ chat'[a] # 0 \/ a \in legacy')
    PROVE  Watched'
<1>1. proc'[a] = q /\ \A b \in Actor : b # a => proc'[b] = proc[b]
  BY MoveProc
<1> SUFFICES ASSUME NEW m \in Model, Due(m, worker', result', disturbed', noted' \cup misread')
             PROVE  Cared(m, proc', chat', legacy')
  BY DEF Watched
<1> SUFFICES ASSUME Due(m, worker, result, disturbed, noted \cup misread)
             PROVE  Cared(m, proc', chat', legacy')
  OBVIOUS
<1>2. Cared(m, proc, chat, legacy) /\ m \notin disturbed'
  BY DEF Watched, Due
<1>3. CASE chat[m] # 0 \/ m \in legacy
  BY <1>2, <1>3 DEF Cared
<1>4. CASE \E t \in Task : proc[t].at = "started" /\ proc[t].model = m
  <2>1. PICK t \in Task : proc[t].at = "started" /\ proc[t].model = m
    BY <1>4
  <2>2. t # a /\ t \in Actor
    BY <2>1, Distinct
  <2> QED BY <1>1, <2>1, <2>2 DEF Cared
<1>5. CASE proc[m].at \in Watching
  BY <1>1, <1>5, Distinct DEF Cared
<1> QED BY <1>2, <1>3, <1>4, <1>5 DEF Cared

\* What a step owes when it goes on with q, so that the invariant holds on.
Goes(a, q) ==
    /\ q \in Record /\ Go(a, q) /\ proc[a].at # "started"
    /\ Fits(a, q, chat', legacy', disturbed')
    /\ q.at \in Holding => lock[q.model] = a
    /\ q.op = "delete" /\ q.at = "done"
          => lock[q.model] = a /\ Deployed(chat', legacy', q.model) = 0
    /\ q.at \in Offering => q.model \notin gone

\* What a step owes to the models of others.
Keeps(a) ==
    /\ Owned(a) /\ installed' \subseteq installed /\ Recalls
    /\ \A m \in gone : Deployed(chat', legacy', m) = 0
    /\ \A m \in Model \ disturbed' : chat[m] # 0 \/ m \in legacy
                                        => chat'[m] # 0 \/ m \in legacy'

\* A watcher goes on watching until its model is registered.
Heeds(a, q) ==
    a \in Model /\ proc[a].at \in Watching
       => (Due(a, worker', result', disturbed', noted' \cup misread')
             => q.at \in Watching \/ chat'[a] # 0 \/ a \in legacy')

\* What does not touch the script's state keeps its worker sole.
LEMMA ScriptKept ==
    ASSUME TypeOK, Sole, UNCHANGED <<script, disturbed>>
    PROVE  Sole'
BY DEF Sole, script

\* Types, for steps that do not touch the script's state.
LEMMA TypeKept ==
    ASSUME TypeOK, proc' \in [Actor -> Record], lock' \in [Model -> Actor \cup {Nobody}],
           gone' \subseteq Model, chat' \in [Model -> 0..1], legacy' \subseteq Model,
           installed' \subseteq Model, UNCHANGED script, calls' \in 0..MaxCalls,
           faults' \in 0..MaxFaults, crashes' \in 0..MaxCrashes,
           noted' \subseteq Model, misread' \subseteq Model, disturbed' \subseteq Model
    PROVE  TypeOK'
BY DEF TypeOK, Record, script

\* A step that owes nothing keeps all parts but those of the script.
LEMMA GoParts ==
    ASSUME Inv, NEW a \in Actor, NEW q, Goes(a, q), Keeps(a), Heeds(a, q),
           \A m \in Model : Due(m, worker', result', disturbed', noted' \cup misread')
              => \/ Due(m, worker, result, disturbed, noted \cup misread)
                 \/ Cared(m, proc', chat', legacy')
    PROVE  /\ Actors' /\ Locked' /\ GoneForGood' /\ Watched'
           /\ proc' \in [Actor -> Record] /\ lock' \in [Model -> Actor \cup {Nobody}]
           /\ gone' \subseteq Model
           /\ chat' \in [Model -> 0..1] /\ legacy' \subseteq Model /\ installed' \subseteq Model
<1> USE DEF Inv
<1>1. /\ q \in Record /\ Go(a, q) /\ Fits(a, q, chat', legacy', disturbed')
      /\ Owned(a) /\ Recalls
  BY DEF Goes, Keeps
<1>2. q.at # "idle" => q.model \in Model
  BY <1>1 DEF Fits
<1>3. Actors' /\ Locked'
  BY <1>1, MoveActors DEF Goes
<1>4. GoneForGood'
  BY <1>1, MoveGone DEF Goes, Keeps
<1>5. Watched'
  BY <1>1, <1>2, MoveWatched DEF Goes, Keeps, Heeds
<1>6. /\ proc' \in [Actor -> Record] /\ lock' \in [Model -> Actor \cup {Nobody}]
      /\ gone' \subseteq Model
  BY <1>1, <1>2, MoveProc
<1>7. chat' \in [Model -> 0..1] /\ legacy' \subseteq Model /\ installed' \subseteq Model
  BY <1>1 DEF Owned, Keeps, TypeOK
<1> QED BY <1>3, <1>4, <1>5, <1>6, <1>7

\* A step of an actor that does not touch the script keeps the invariant.
LEMMA CallInv ==
    ASSUME Inv, NEW a \in Actor, NEW q, Goes(a, q), Keeps(a), Heeds(a, q), Unchanged,
           faults' \in 0..MaxFaults
    PROVE  Inv'
<1>1. UNCHANGED <<script, calls, crashes, noted, misread, disturbed>>
  BY DEF Unchanged
<1>2. \A m \in Model : Due(m, worker', result', disturbed', noted' \cup misread')
                            => Due(m, worker, result, disturbed, noted \cup misread)
  BY <1>1 DEF Due, script
<1>3. /\ Actors' /\ Locked' /\ GoneForGood' /\ Watched'
      /\ proc' \in [Actor -> Record] /\ lock' \in [Model -> Actor \cup {Nobody}]
      /\ gone' \subseteq Model
      /\ chat' \in [Model -> 0..1] /\ legacy' \subseteq Model /\ installed' \subseteq Model
  BY <1>2, GoParts
<1>4. Sole'
  BY <1>1, ScriptKept DEF Inv
<1>5. TypeOK'
  <2>1. /\ calls' \in 0..MaxCalls /\ crashes' \in 0..MaxCrashes
        /\ noted' \subseteq Model /\ misread' \subseteq Model /\ disturbed' \subseteq Model
    BY <1>1 DEF Inv, TypeOK
  <2> QED BY <1>1, <1>3, <2>1, TypeKept DEF Inv
<1> QED BY <1>3, <1>4, <1>5 DEF Inv

\* A request that changes nothing at Ollama and LiteLLM.
LEMMA SameKeeps ==
    ASSUME Inv, NEW a \in Actor, UNCHANGED <<installed, chat, legacy>>,
           disturbed \subseteq disturbed'
    PROVE  Keeps(a)
BY Recall DEF Inv, TypeOK, Keeps, Owned, GoneForGood

\* An answer yes or no changes nothing but the record of the one who asked.
LEMMA QueryCases ==
    ASSUME NEW a, NEW yes, NEW no, Query(a, yes, no), TypeOK
    PROVE  /\ Go(a, yes) \/ Go(a, no)
           /\ Unchanged /\ UNCHANGED <<installed, chat, legacy>> /\ faults' \in 0..MaxFaults
BY ConstantsAssumption DEF Query, Request, TypeOK, deployments

\* What an actor's record says of it.
LEMMA Standing ==
    ASSUME Inv, NEW a \in Actor, proc[a].at # "idle"
    PROVE  /\ proc[a] \in Record /\ proc[a].model \in Model
           /\ Fits(a, proc[a], chat, legacy, disturbed)
           /\ a \in Model => proc[a].op = "watch" /\ proc[a].model = a
           /\ proc[a].at \in Holding => lock[proc[a].model] = a
           /\ proc[a].at \in Offering => proc[a].model \notin gone
BY DEF Inv, TypeOK, Record, Actors, Locked, Fits, GoneForGood

\* The record after a registration.
LEMMA RegisteredFits ==
    ASSUME Inv, NEW a \in Actor, proc[a].at \in Registering, NEW good \in BOOLEAN, NEW q,
           q = Registered(a, good), NEW C, NEW G, NEW d, disturbed \subseteq d
    PROVE  /\ q \in Record /\ Fits(a, q, C, G, d)
           /\ q.at \in {"lock", "done", "failed"}
           /\ q.at = "done" => good /\ q.op # "delete"
           /\ a \in Model /\ ~good => q.at = "failed"
<1>1. /\ proc[a] \in Record /\ proc[a].model \in Model
      /\ Fits(a, proc[a], chat, legacy, disturbed)
      /\ a \in Model => proc[a].op = "watch" /\ proc[a].model = a
  BY Standing DEF Registering
<1>2. CASE proc[a].op = "sync" /\ proc[a].rest # {}
  <2> DEFINE m == CHOOSE x \in proc[a].rest : TRUE
  <2>1. m \in proc[a].rest
    BY <1>2, Chosen
  <2>2. m \in Model /\ proc[a].rest \ {m} \subseteq Model
    BY <1>1, <2>1 DEF Record
  <2>3. q = [At(a, "lock") EXCEPT !.model = m, !.rest = @ \ {m}]
    BY <1>2 DEF Registered
  <2> HIDE DEF m
  <2>4. q = [op |-> proc[a].op, at |-> "lock", model |-> m, todo |-> proc[a].todo,
             rest |-> proc[a].rest \ {m}, second |-> proc[a].second]
    BY <1>1, <2>3 DEF At, Record
  <2>5. q \in Record
    BY <1>1, <2>2, <2>4 DEF Record, Place
  <2>6. a \notin Model
    BY <1>1, <1>2
  <2> QED BY <1>2, <2>2, <2>4, <2>5, <2>6 DEF Fits, Unregistering
<1>3. CASE ~(proc[a].op = "sync" /\ proc[a].rest # {})
  <2> DEFINE p == IF proc[a].op # "delete" /\ good THEN "done" ELSE "failed"
  <2>1. q = At(a, p)
    BY <1>3 DEF Registered
  <2>2. p \in {"done", "failed"} /\ (p = "done" => good /\ proc[a].op # "delete")
    OBVIOUS
  <2> HIDE DEF p
  <2>3. q = [proc[a] EXCEPT !.at = p]
    BY <2>1 DEF At
  <2>4. q \in Record /\ q.at = p /\ q.op = proc[a].op /\ q.model = proc[a].model
    BY <1>1, <2>2, <2>3 DEF Record, Place
  <2>5. a \in Task /\ q.op = "delete" => q.model \in d
    BY <1>1, <2>4 DEF Fits
  <2>6. Fits(a, q, C, G, d)
    BY <1>1, <2>2, <2>4, <2>5 DEF Fits, Unregistering
  <2>7. ~good => p = "failed"
    BY <2>2
  <2> QED BY <2>2, <2>4, <2>6, <2>7
<1> QED BY <1>2, <1>3

\* Leaving a registration: the record fits, and a watcher still heeds its model.
LEMMA Leaves ==
    ASSUME Inv, NEW a \in Actor, proc[a].at \in Registering, NEW good \in BOOLEAN,
           Go(a, Registered(a, good)), disturbed \subseteq disturbed',
           good /\ a \in Model => chat'[a] # 0 \/ a \in legacy'
    PROVE  Goes(a, Registered(a, good)) /\ Heeds(a, Registered(a, good))
<1> DEFINE q == Registered(a, good)
<1>1. /\ q \in Record /\ Fits(a, q, chat', legacy', disturbed')
      /\ q.at \in {"lock", "done", "failed"}
      /\ q.at = "done" => good /\ q.op # "delete"
      /\ a \in Model /\ ~good => q.at = "failed"
  BY RegisteredFits
<1>2. Go(a, q)
  OBVIOUS
<1> HIDE DEF q
<1>3. Goes(a, q)
  BY <1>1, <1>2 DEF Goes, Holding, Registering, Unregistering, Offering
<1>4. Heeds(a, q)
  BY <1>1 DEF Heeds, Watching
<1> QED BY <1>3, <1>4 DEF q

\* Going on within a registration.
LEMMA Stays ==
    ASSUME Inv, NEW a \in Actor, proc[a].at \in Registering, NEW p \in Registering,
           Go(a, At(a, p)), disturbed \subseteq disturbed',
           p \in Offering => proc[a].model \notin gone,
           p = "new" => chat'[proc[a].model] = 0,
           p = "drop" => chat'[proc[a].model] = 1
    PROVE  Goes(a, At(a, p)) /\ Heeds(a, At(a, p))
<1> DEFINE q == At(a, p)
<1>1. /\ proc[a] \in Record /\ proc[a].model \in Model
      /\ Fits(a, proc[a], chat, legacy, disturbed)
      /\ a \in Model => proc[a].op = "watch" /\ proc[a].model = a
      /\ lock[proc[a].model] = a
  BY Standing DEF Registering, Holding
<1>2. q \in Record /\ q.at = p /\ q.op = proc[a].op /\ q.model = proc[a].model
  BY <1>1 DEF At, Record, Place
<1>3. Go(a, q)
  OBVIOUS
<1> HIDE DEF q
<1>4. Fits(a, q, chat', legacy', disturbed')
  BY <1>1, <1>2 DEF Fits, Registering, Unregistering
<1>5. Goes(a, q)
  BY <1>1, <1>2, <1>3, <1>4 DEF Goes, Holding, Registering
<1>6. Heeds(a, q)
  BY <1>2 DEF Heeds, Watching
<1> QED BY <1>5, <1>6 DEF q

\* A request of a registration that goes on with one of two records.
LEMMA RegistrationQuery ==
    ASSUME Inv, NEW a \in Actor, proc[a].at \in Registering, NEW yes, NEW no,
           Query(a, yes, no),
           Go(a, yes) /\ UNCHANGED <<chat, legacy, disturbed>>
              => Goes(a, yes) /\ Heeds(a, yes),
           Go(a, no) /\ UNCHANGED <<chat, legacy, disturbed>>
              => Goes(a, no) /\ Heeds(a, no)
    PROVE  Inv'
<1>1. /\ Go(a, yes) \/ Go(a, no)
      /\ Unchanged /\ UNCHANGED <<installed, chat, legacy>> /\ faults' \in 0..MaxFaults
  BY QueryCases DEF Inv
<1>2. UNCHANGED disturbed
  BY <1>1 DEF Unchanged
<1>3. Keeps(a)
  BY <1>1, <1>2, SameKeeps
<1> QED BY <1>1, <1>2, <1>3, CallInv

\* Ollama has the model, or does not.
LEMMA HasModelInv == ASSUME Inv, NEW a \in Actor, HasModel(a) PROVE Inv'
<1>1. proc[a].at = "has" /\ proc[a].at \in Registering
  BY DEF HasModel, Registering
<1>2. Go(a, Registered(a, FALSE)) /\ UNCHANGED <<chat, legacy, disturbed>>
         => Goes(a, Registered(a, FALSE)) /\ Heeds(a, Registered(a, FALSE))
  BY <1>1, Leaves
<1>3. CASE proc[a].model \in installed
  <2>1. proc[a].model \notin gone
    BY <1>3 DEF Inv, GoneForGood
  <2>2. Go(a, At(a, "show")) /\ UNCHANGED <<chat, legacy, disturbed>>
         => Goes(a, At(a, "show")) /\ Heeds(a, At(a, "show"))
    BY <1>1, <2>1, Stays DEF Registering
  <2>3. Query(a, At(a, "show"), Registered(a, FALSE))
    BY <1>3 DEF HasModel
  <2> QED BY <1>1, <1>2, <2>2, <2>3, RegistrationQuery
<1>4. CASE proc[a].model \notin installed
  <2>1. Query(a, Registered(a, FALSE), Registered(a, FALSE))
    BY <1>4 DEF HasModel
  <2> QED BY <1>1, <1>2, <2>1, RegistrationQuery
<1> QED BY <1>3, <1>4

\* Ollama shows the model, or does not.
LEMMA ShowInv == ASSUME Inv, NEW a \in Actor, Show(a) PROVE Inv'
<1>1. proc[a].at = "show" /\ proc[a].at \in Registering
  BY DEF Show, Registering
<1>2. Go(a, Registered(a, FALSE)) /\ UNCHANGED <<chat, legacy, disturbed>>
         => Goes(a, Registered(a, FALSE)) /\ Heeds(a, Registered(a, FALSE))
  BY <1>1, Leaves
<1>3. CASE proc[a].model \in installed
  <2>1. proc[a].model \notin gone
    BY <1>3 DEF Inv, GoneForGood
  <2>2. Go(a, At(a, "info")) /\ UNCHANGED <<chat, legacy, disturbed>>
         => Goes(a, At(a, "info")) /\ Heeds(a, At(a, "info"))
    BY <1>1, <2>1, Stays DEF Registering
  <2>3. Query(a, At(a, "info"), Registered(a, FALSE))
    BY <1>3 DEF Show
  <2> QED BY <1>1, <1>2, <2>2, <2>3, RegistrationQuery
<1>4. CASE proc[a].model \notin installed
  <2>1. Query(a, Registered(a, FALSE), Registered(a, FALSE))
    BY <1>4 DEF Show
  <2> QED BY <1>1, <1>2, <2>1, RegistrationQuery
<1> QED BY <1>3, <1>4

\* The deployments LiteLLM lists.
LEMMA ModelInfoInv == ASSUME Inv, NEW a \in Actor, ModelInfo(a) PROVE Inv'
<1>1. /\ proc[a].at \in Registering /\ proc[a].model \notin gone
      /\ Query(a, At(a, IF chat[proc[a].model] = 0 THEN "new" ELSE "verify"),
               Registered(a, FALSE))
  BY Standing DEF ModelInfo, Registering, Offering
<1>2. Go(a, Registered(a, FALSE)) /\ UNCHANGED <<chat, legacy, disturbed>>
         => Goes(a, Registered(a, FALSE)) /\ Heeds(a, Registered(a, FALSE))
  BY <1>1, Leaves
<1> DEFINE p == IF chat[proc[a].model] = 0 THEN "new" ELSE "verify"
<1>3. p \in Registering /\ (p = "new" => chat[proc[a].model] = 0) /\ p # "drop"
  BY DEF Registering
<1> HIDE DEF p
<1>4. Go(a, At(a, p)) /\ UNCHANGED <<chat, legacy, disturbed>>
         => Goes(a, At(a, p)) /\ Heeds(a, At(a, p))
  BY <1>1, <1>3, Stays
<1>5. Query(a, At(a, p), Registered(a, FALSE))
  BY <1>1 DEF p
<1> QED BY <1>1, <1>2, <1>4, <1>5, RegistrationQuery

\* The new deployment is looked for.
LEMMA VerifyNewInv == ASSUME Inv, NEW a \in Actor, VerifyNew(a) PROVE Inv'
<1>1. proc[a].at \in Registering /\ proc[a].model \notin gone /\ proc[a].model \in Model
      /\ (a \in Model => proc[a].model = a)
  BY Standing DEF VerifyNew, Registering, Offering
<1>2. Go(a, Registered(a, FALSE)) /\ UNCHANGED <<chat, legacy, disturbed>>
         => Goes(a, Registered(a, FALSE)) /\ Heeds(a, Registered(a, FALSE))
  BY <1>1, Leaves
<1>3. CASE chat[proc[a].model] = 0
  <2>1. Query(a, Registered(a, FALSE), Registered(a, FALSE))
    BY <1>3 DEF VerifyNew
  <2> QED BY <1>1, <1>2, <2>1, RegistrationQuery
<1>4. CASE chat[proc[a].model] # 0 /\ proc[a].model \in legacy
  <2>1. Query(a, At(a, "drop"), Registered(a, FALSE))
    BY <1>4 DEF VerifyNew
  <2>2. chat[proc[a].model] = 1
    BY <1>1, <1>4 DEF Inv, TypeOK
  <2>3. Go(a, At(a, "drop")) /\ UNCHANGED <<chat, legacy, disturbed>>
         => Goes(a, At(a, "drop")) /\ Heeds(a, At(a, "drop"))
    BY <1>1, <2>2, Stays DEF Registering
  <2> QED BY <1>1, <1>2, <2>1, <2>3, RegistrationQuery
<1>5. CASE chat[proc[a].model] # 0 /\ proc[a].model \notin legacy
  <2>1. Query(a, Registered(a, TRUE), Registered(a, FALSE))
    BY <1>5 DEF VerifyNew
  <2>2. Go(a, Registered(a, TRUE)) /\ UNCHANGED <<chat, legacy, disturbed>>
         => Goes(a, Registered(a, TRUE)) /\ Heeds(a, Registered(a, TRUE))
    BY <1>1, <1>5, Leaves
  <2> QED BY <1>1, <1>2, <2>1, <2>2, RegistrationQuery
<1> QED BY <1>3, <1>4, <1>5

\* A fault is counted up to the bound.
LEMMA FaultsCounted ==
    ASSUME TypeOK, UNCHANGED faults \/ (faults < MaxFaults /\ faults' = faults + 1)
    PROVE  faults' \in 0..MaxFaults
BY ConstantsAssumption DEF TypeOK

\* A deployment is added, where none is.
LEMMA NewModelInv == ASSUME Inv, NEW a \in Actor, NewModel(a) PROVE Inv'
<1> DEFINE m == proc[a].model
           Effect == chat' = [chat EXCEPT ![m] = @ + 1] /\ UNCHANGED <<installed, legacy>>
<1>1. /\ proc[a].at \in Registering /\ m \notin gone /\ m \in Model /\ lock[m] = a
      /\ chat[m] = 0 /\ proc[a].at # "started"
  BY Standing DEF NewModel, Registering, Offering, Holding, Fits
<1>2. /\ \/ Effect /\ Go(a, At(a, "verify"))
         \/ (Effect \/ UNCHANGED <<installed, chat, legacy>>) /\ Go(a, Registered(a, FALSE))
      /\ faults' \in 0..MaxFaults /\ Unchanged /\ UNCHANGED disturbed
  <2>1. /\ \/ Effect /\ Go(a, At(a, "verify")) /\ UNCHANGED faults
           \/ /\ faults < MaxFaults
              /\ faults' = faults + 1
              /\ Effect \/ UNCHANGED <<installed, chat, legacy>>
              /\ Go(a, Registered(a, FALSE))
        /\ Unchanged
    BY DEF NewModel, Request, deployments
  <2>2. UNCHANGED faults \/ (faults < MaxFaults /\ faults' = faults + 1)
    BY <2>1
  <2>3. faults' \in 0..MaxFaults
    BY <2>2, FaultsCounted DEF Inv
  <2> QED BY <2>1, <2>3 DEF Unchanged
<1>3. chat \in [Model -> 0..1] /\ legacy \subseteq Model /\ gone \subseteq Model
  BY DEF Inv, TypeOK
<1>4. Effect => Keeps(a)
  <2> SUFFICES ASSUME Effect PROVE Keeps(a)
    OBVIOUS
  <2>1. /\ chat' \in [Model -> 0..1] /\ legacy' = legacy /\ installed' = installed
        /\ chat'[m] = 1 /\ \A x \in Model : x # m => chat'[x] = chat[x]
    BY <1>1, <1>3
  <2>2. Owned(a)
    BY <1>1, <1>3, <2>1 DEF Owned
  <2>3. \A x \in gone : Deployed(chat', legacy', x) = 0
    BY <1>1, <1>3, <2>1 DEF Inv, GoneForGood, Deployed
  <2> QED BY <1>1, <1>2, <2>1, <2>2, <2>3, Recall DEF Keeps, Inv
<1>5. UNCHANGED <<installed, chat, legacy>> => Keeps(a)
  BY <1>2, SameKeeps
<1>6. Go(a, At(a, "verify")) => Goes(a, At(a, "verify")) /\ Heeds(a, At(a, "verify"))
  BY <1>1, <1>2, Stays DEF Registering
<1>7. Go(a, Registered(a, FALSE))
         => Goes(a, Registered(a, FALSE)) /\ Heeds(a, Registered(a, FALSE))
  BY <1>1, <1>2, Leaves
<1> QED BY <1>2, <1>4, <1>5, <1>6, <1>7, CallInv

\* An earlier deployment is deleted once there is another.
LEMMA DropLegacyInv == ASSUME Inv, NEW a \in Actor, DropLegacy(a) PROVE Inv'
<1> DEFINE m == proc[a].model
           Effect == legacy' = legacy \ {m} /\ UNCHANGED <<installed, chat>>
<1>1. /\ proc[a].at \in Registering /\ m \notin gone /\ m \in Model /\ lock[m] = a
      /\ chat[m] = 1 /\ (a \in Model => m = a)
  BY Standing DEF DropLegacy, Registering, Offering, Holding, Fits
<1>2. /\ \/ Effect /\ Go(a, Registered(a, TRUE))
         \/ (Effect \/ UNCHANGED <<installed, chat, legacy>>) /\ Go(a, Registered(a, FALSE))
      /\ faults' \in 0..MaxFaults /\ Unchanged /\ UNCHANGED disturbed
  <2>1. /\ \/ Effect /\ Go(a, Registered(a, TRUE)) /\ UNCHANGED faults
           \/ /\ faults < MaxFaults
              /\ faults' = faults + 1
              /\ Effect \/ UNCHANGED <<installed, chat, legacy>>
              /\ Go(a, Registered(a, FALSE))
        /\ Unchanged
    BY DEF DropLegacy, Request, deployments
  <2>2. UNCHANGED faults \/ (faults < MaxFaults /\ faults' = faults + 1)
    BY <2>1
  <2>3. faults' \in 0..MaxFaults
    BY <2>2, FaultsCounted DEF Inv
  <2> QED BY <2>1, <2>3 DEF Unchanged
<1>3. chat \in [Model -> 0..1] /\ legacy \subseteq Model /\ gone \subseteq Model
  BY DEF Inv, TypeOK
<1>4. Effect => Keeps(a)
  <2> SUFFICES ASSUME Effect PROVE Keeps(a)
    OBVIOUS
  <2>1. Owned(a)
    BY <1>1, <1>3 DEF Owned
  <2>2. \A x \in gone : Deployed(chat', legacy', x) = 0
    BY <1>1, <1>3 DEF Inv, GoneForGood, Deployed
  <2> QED BY <1>1, <1>2, <2>1, <2>2, Recall DEF Keeps, Inv
<1>5. UNCHANGED <<installed, chat, legacy>> => Keeps(a)
  BY <1>2, SameKeeps
<1>6. Go(a, Registered(a, TRUE)) /\ Effect
         => Goes(a, Registered(a, TRUE)) /\ Heeds(a, Registered(a, TRUE))
  <2> SUFFICES ASSUME Go(a, Registered(a, TRUE)), Effect
               PROVE  Goes(a, Registered(a, TRUE)) /\ Heeds(a, Registered(a, TRUE))
    OBVIOUS
  <2>1. a \in Model => chat'[a] # 0
    BY <1>1
  <2>2. disturbed \subseteq disturbed'
    BY <1>2
  <2> HIDE DEF Effect
  <2> QED BY <1>1, <2>1, <2>2, Leaves
<1>7. Go(a, Registered(a, FALSE))
         => Goes(a, Registered(a, FALSE)) /\ Heeds(a, Registered(a, FALSE))
  BY <1>1, <1>2, Leaves
<1> QED BY <1>2, <1>4, <1>5, <1>6, <1>7, CallInv

\* A request of an administrator that goes on, at a place that asks for nothing.
LEMMA Moves ==
    ASSUME Inv, NEW t \in Task, NEW q \in Record, Go(t, q), proc[t].at \notin {"idle", "started"},
           q.at \in {"lock", "unlist", "erase", "done", "failed", "clean", "sweep", "mkdir",
                    "started"},
           q.at \in {"clean", "sweep", "mkdir", "started"} => q.op # "delete",
           q.op = proc[t].op, q.model \in Model,
           q.op = "delete" => q.model = proc[t].model,
           q.at \in {"unlist", "erase"} => q.op = "delete",
           q.op = "delete" /\ q.at = "done"
              => lock[q.model] = t /\ Deployed(chat', legacy', q.model) = 0,
           Recalls \/ disturbed \subseteq disturbed'
    PROVE  Goes(t, q) /\ Heeds(t, q)
<1>1. t \in Actor /\ t \notin Model
  BY Distinct
<1>2. Fits(t, proc[t], chat, legacy, disturbed)
  BY <1>1, Standing
<1>a. Recalls
  BY Recall DEF Inv
<1>3. Fits(t, q, chat', legacy', disturbed')
  BY <1>1, <1>2, <1>a DEF Fits, Unregistering, Recalls
<1>4. Goes(t, q)
  BY <1>3 DEF Goes, Holding, Registering, Unregistering, Offering
<1>5. Heeds(t, q)
  BY <1>1 DEF Heeds
<1> QED BY <1>4, <1>5

\* A question of an actor, whatever the answer.
LEMMA TaskQuery ==
    ASSUME Inv, NEW a \in Actor, NEW yes, NEW no, Query(a, yes, no),
           UNCHANGED <<chat, legacy, disturbed>> /\ Go(a, yes) => Goes(a, yes) /\ Heeds(a, yes),
           UNCHANGED <<chat, legacy, disturbed>> /\ Go(a, no) => Goes(a, no) /\ Heeds(a, no)
    PROVE  Inv'
<1>1. /\ Go(a, yes) \/ Go(a, no)
      /\ Unchanged /\ UNCHANGED <<installed, chat, legacy>> /\ faults' \in 0..MaxFaults
  BY QueryCases DEF Inv
<1>2. UNCHANGED disturbed
  BY <1>1 DEF Unchanged
<1> QED BY <1>1, <1>2, SameKeeps, CallInv

\* The record of an actor that only goes to another place.
LEMMA AtRecord ==
    ASSUME Inv, NEW a \in Actor, NEW p \in Place
    PROVE  LET q == At(a, p)
           IN  /\ q \in Record /\ q.at = p /\ q.op = proc[a].op /\ q.model = proc[a].model
               /\ q.todo = proc[a].todo /\ q.rest = proc[a].rest /\ q.second = proc[a].second
<1>1. proc[a] \in Record
  BY DEF Inv, TypeOK, Record
<1> QED BY <1>1 DEF At, Record

\* A task that gives up.
LEMMA FailedMoves ==
    ASSUME Inv, NEW t \in Task, proc[t].at \notin {"idle", "started"}, Go(t, At(t, "failed")),
           disturbed \subseteq disturbed'
    PROVE  Goes(t, At(t, "failed")) /\ Heeds(t, At(t, "failed"))
<1> DEFINE q == At(t, "failed")
<1>1. t \in Actor /\ proc[t].model \in Model
  BY Distinct, Standing
<1>2. q \in Record /\ q.at = "failed" /\ q.op = proc[t].op /\ q.model = proc[t].model
  BY <1>1, AtRecord DEF Place
<1>3. Go(t, q)
  OBVIOUS
<1> HIDE DEF q
<1>4. Goes(t, q) /\ Heeds(t, q)
  BY <1>1, <1>2, <1>3, Moves
<1> QED BY <1>4 DEF q

\* A pull looks whether the model is there already.
LEMMA CheckInstalledInv == ASSUME Inv, NEW t \in Task, CheckInstalled(t) PROVE Inv'
<1>1. t \in Actor /\ proc[t].model \in Model /\ proc[t].op # "delete" /\ proc[t].at = "exists"
  BY Distinct, Standing DEF CheckInstalled, Fits
<1> DEFINE p == IF proc[t].model \in installed THEN "lock" ELSE "failed"
           q == At(t, p)
<1>2. p \in {"lock", "failed"}
  OBVIOUS
<1> HIDE DEF p
<1>3. q \in Record /\ q.at = p /\ q.op = proc[t].op /\ q.model = proc[t].model
  BY <1>1, <1>2, AtRecord DEF Place
<1> HIDE DEF q
<1>4. UNCHANGED <<chat, legacy, disturbed>> /\ Go(t, q) => Goes(t, q) /\ Heeds(t, q)
  BY <1>1, <1>2, <1>3, Moves
<1>5. UNCHANGED <<chat, legacy, disturbed>> /\ Go(t, At(t, "failed"))
         => Goes(t, At(t, "failed")) /\ Heeds(t, At(t, "failed"))
  BY <1>1, FailedMoves
<1>6. Query(t, q, At(t, "failed"))
  BY DEF CheckInstalled, q, p
<1> QED BY <1>1, <1>4, <1>5, <1>6, TaskQuery

\* The progress is asked for.
LEMMA PullStatusInv == ASSUME Inv, NEW t \in Task, PullStatus(t) PROVE Inv'
<1>1. t \in Actor /\ proc[t].model \in Model /\ proc[t].op # "delete" /\ proc[t].at = "progress"
  BY Distinct, Standing DEF PullStatus, Fits
<1> DEFINE p == IF Progress(proc[t].model, {named}) = "completed" THEN "lock" ELSE "done"
           q == At(t, p)
<1>2. p \in {"lock", "done"}
  OBVIOUS
<1> HIDE DEF p
<1>3. q \in Record /\ q.at = p /\ q.op = proc[t].op /\ q.model = proc[t].model
  BY <1>1, <1>2, AtRecord DEF Place
<1> HIDE DEF q
<1>4. UNCHANGED <<chat, legacy, disturbed>> /\ Go(t, q) => Goes(t, q) /\ Heeds(t, q)
  BY <1>1, <1>2, <1>3, Moves
<1>5. UNCHANGED <<chat, legacy, disturbed>> /\ Go(t, At(t, "failed"))
         => Goes(t, At(t, "failed")) /\ Heeds(t, At(t, "failed"))
  BY <1>1, FailedMoves
<1>6. Query(t, q, At(t, "failed"))
  BY DEF PullStatus, q, p
<1> QED BY <1>1, <1>4, <1>5, <1>6, TaskQuery

\* A synchronisation lists the models of Ollama.
LEMMA ModelNamesInv == ASSUME Inv, NEW t \in Task, ModelNames(t) PROVE Inv'
<1>1. /\ t \in Actor /\ proc[t].model \in Model /\ proc[t].op # "delete" /\ proc[t].at = "names"
      /\ proc[t] \in Record /\ installed \subseteq Model
  BY Distinct, Standing DEF ModelNames, Fits, Inv, TypeOK
<1> DEFINE m == CHOOSE x \in installed : TRUE
           q == IF installed = {} THEN At(t, "done")
                ELSE [At(t, "lock") EXCEPT !.model = m, !.rest = installed \ {m}]
<1>2. Query(t, q, At(t, "failed"))
  BY DEF ModelNames
<1>3. installed # {} => m \in Model
  BY <1>1, Chosen
<1> HIDE DEF m
<1>4. q \in Record /\ q.at \in {"done", "lock"} /\ q.op = proc[t].op /\ q.model \in Model
  <2>1. CASE installed = {}
    BY <1>1, <2>1, AtRecord DEF Place
  <2>2. CASE installed # {}
    <3>1. q = [op |-> proc[t].op, at |-> "lock", model |-> m, todo |-> proc[t].todo,
               rest |-> installed \ {m}, second |-> proc[t].second]
      BY <1>1, <2>2 DEF At, Record
    <3> QED BY <1>1, <1>3, <2>2, <3>1 DEF Record, Place
  <2> QED BY <2>1, <2>2
<1> HIDE DEF q
<1>5. UNCHANGED <<chat, legacy, disturbed>> /\ Go(t, q) => Goes(t, q) /\ Heeds(t, q)
  BY <1>1, <1>4, Moves
<1>6. UNCHANGED <<chat, legacy, disturbed>> /\ Go(t, At(t, "failed"))
         => Goes(t, At(t, "failed")) /\ Heeds(t, At(t, "failed"))
  BY <1>1, FailedMoves
<1> QED BY <1>1, <1>2, <1>5, <1>6, TaskQuery

\* A deletion looks which name the model has at Ollama.
LEMMA TagsInv == ASSUME Inv, NEW t \in Task, Tags(t) PROVE Inv'
<1>1. /\ t \in Actor /\ proc[t].model \in Model /\ proc[t].op = "delete" /\ proc[t].at = "tags"
      /\ proc[t] \in Record
  BY Distinct, Standing DEF Tags, Fits
<1> DEFINE R == {proc[t].model} \cap installed
           q == [At(t, "unlist") EXCEPT !.rest = R]
<1>2. Query(t, q, At(t, "failed"))
  BY DEF Tags
<1>a. R \subseteq Model
  BY <1>1
<1> HIDE DEF R
<1>4. q \in Record /\ q.at = "unlist" /\ q.op = proc[t].op /\ q.model = proc[t].model
  BY <1>1, <1>a DEF Record, Place, At
<1> HIDE DEF q
<1>5. UNCHANGED <<chat, legacy, disturbed>> /\ Go(t, q) => Goes(t, q) /\ Heeds(t, q)
  BY <1>1, <1>4, Moves
<1>6. UNCHANGED <<chat, legacy, disturbed>> /\ Go(t, At(t, "failed"))
         => Goes(t, At(t, "failed")) /\ Heeds(t, At(t, "failed"))
  BY <1>1, FailedMoves
<1> QED BY <1>1, <1>2, <1>5, <1>6, TaskQuery

\* What is known of an actor that unregisters a model.
LEMMA Unregisters ==
    ASSUME Inv, NEW a \in Actor, proc[a].at \in Unregistering
    PROVE  /\ a \in Task /\ a \notin Model /\ proc[a] \in Record /\ proc[a].op = "delete"
           /\ proc[a].model \in Model /\ proc[a].model \in disturbed
           /\ lock[proc[a].model] = a
           /\ proc[a].at = "remove" => /\ proc[a].todo # 0
                                       /\ proc[a].todo = Deployed(chat, legacy, proc[a].model)
<1>1. proc[a].at # "idle" /\ proc[a].at \in Holding
  BY DEF Unregistering, Holding
<1>2. proc[a].op = "delete"
  BY <1>1, Standing DEF Fits
<1>3. a \in Task /\ a \notin Model
  BY <1>1, <1>2, Standing, Distinct
<1> QED BY <1>1, <1>2, <1>3, Standing DEF Fits

\* Where an unregistration goes on when nothing is left.
LEMMA UnlistedRecord ==
    ASSUME Inv, NEW a \in Actor, proc[a].at \in Unregistering
    PROVE  LET q == Unlisted(a)
           IN  /\ q \in Record /\ q.at \in {"done", "erase"} /\ q.op = proc[a].op
               /\ q.model = proc[a].model
BY AtRecord DEF Unlisted, Place

\* A deletion counts the deployments.
LEMMA FindInv == ASSUME Inv, NEW a \in Actor, Find(a) PROVE Inv'
<1> DEFINE m == proc[a].model
           n == Count(m)
           q == IF n = 0 THEN Unlisted(a) ELSE [At(a, "remove") EXCEPT !.todo = n]
<1>1. Query(a, q, At(a, "failed")) /\ proc[a].at = "find"
  BY DEF Find
<1>2. /\ a \in Task /\ a \notin Model /\ proc[a] \in Record /\ proc[a].op = "delete"
      /\ m \in Model /\ m \in disturbed /\ lock[m] = a
  BY <1>1, Unregisters DEF Unregistering
<1>3. n = Deployed(chat, legacy, m) /\ n \in 0..2
  BY <1>2 DEF Count, Deployed, Inv, TypeOK
<1>4. UNCHANGED <<chat, legacy, disturbed>> /\ Go(a, q) => Goes(a, q) /\ Heeds(a, q)
  <2> SUFFICES ASSUME UNCHANGED <<chat, legacy, disturbed>>, Go(a, q)
               PROVE  Goes(a, q) /\ Heeds(a, q)
    OBVIOUS
  <2>1. CASE n = 0
    <3>1. q = Unlisted(a)
      BY <2>1
    <3>2. q \in Record /\ q.at \in {"done", "erase"} /\ q.op = "delete" /\ q.model = m
      BY <1>1, <1>2, <3>1, UnlistedRecord DEF Unregistering
    <3>3. Deployed(chat', legacy', m) = 0
      BY <1>3, <2>1
    <3> HIDE DEF q
    <3> QED BY <1>1, <1>2, <3>2, <3>3, Moves
  <2>2. CASE n # 0
    <3> HIDE DEF n
    <3>1. /\ q \in Record /\ q.at = "remove" /\ q.op = "delete" /\ q.model = m /\ q.todo = n
      BY <1>2, <1>3, <2>2 DEF At, Record, Place, Unregistering
    <3> HIDE DEF q
    <3>2. Deployed(chat', legacy', m) = n
      BY <1>3
    <3>3. Fits(a, q, chat', legacy', disturbed')
      BY <1>2, <2>2, <3>1, <3>2 DEF Fits, Unregistering
    <3>4. Goes(a, q)
      BY <1>1, <1>2, <3>1, <3>3 DEF Goes, Offering
    <3>5. Heeds(a, q)
      BY <1>2 DEF Heeds
    <3> QED BY <3>4, <3>5
  <2> QED BY <2>1, <2>2
<1>5. UNCHANGED <<chat, legacy, disturbed>> /\ Go(a, At(a, "failed"))
         => Goes(a, At(a, "failed")) /\ Heeds(a, At(a, "failed"))
  BY <1>1, <1>2, FailedMoves
<1> HIDE DEF q
<1> QED BY <1>1, <1>4, <1>5, TaskQuery

\* It deletes one of them.
LEMMA RemoveInv == ASSUME Inv, NEW a \in Actor, Remove(a) PROVE Inv'
<1> DEFINE m == proc[a].model
           n == proc[a].todo
           Effect == /\ UNCHANGED installed
                     /\ IF m \in legacy THEN legacy' = legacy \ {m} /\ UNCHANGED chat
                        ELSE chat' = [chat EXCEPT ![m] = @ - 1] /\ UNCHANGED legacy
           rest == IF n = 1 THEN [Unlisted(a) EXCEPT !.todo = 0]
                   ELSE [proc[a] EXCEPT !.todo = @ - 1]
           failed == [At(a, "failed") EXCEPT !.todo = 0]
<1>1. /\ a \in Task /\ a \notin Model /\ proc[a] \in Record /\ proc[a].op = "delete"
      /\ m \in Model /\ m \in disturbed /\ lock[m] = a /\ proc[a].at = "remove"
      /\ n # 0 /\ n = Deployed(chat, legacy, m) /\ n \in 0..2
  BY Unregisters DEF Remove, Unregistering, Record
<1>2. Count(m) # 0
  BY <1>1 DEF Count, Deployed
<1>3. Request(a, Effect, rest, failed)
  BY <1>2 DEF Remove
<1>4. /\ \/ Effect /\ Go(a, rest)
         \/ (Effect \/ UNCHANGED <<installed, chat, legacy>>) /\ Go(a, failed)
      /\ Unchanged /\ UNCHANGED disturbed
  BY <1>3 DEF Request, Unchanged, deployments
<1>5. UNCHANGED faults \/ (faults < MaxFaults /\ faults' = faults + 1)
  BY <1>3 DEF Request
<1>6. faults' \in 0..MaxFaults
  BY <1>5, FaultsCounted DEF Inv
<1>7. chat \in [Model -> 0..1] /\ legacy \subseteq Model /\ gone \subseteq Model
  BY DEF Inv, TypeOK
<1>8. m \notin gone
  BY <1>1 DEF Inv, GoneForGood
<1>9. Effect => Keeps(a) /\ Deployed(chat', legacy', m) = n - 1
  <2> SUFFICES ASSUME Effect PROVE Keeps(a) /\ Deployed(chat', legacy', m) = n - 1
    OBVIOUS
  <2>1. /\ chat' \in [Model -> 0..1] /\ legacy' \subseteq Model /\ installed' = installed
        /\ \A x \in Model : x # m => chat'[x] = chat[x] /\ (x \in legacy' <=> x \in legacy)
        /\ Deployed(chat', legacy', m) = n - 1
    <3>1. CASE m \in legacy
      BY <1>1, <1>7, <3>1 DEF Deployed
    <3>2. CASE m \notin legacy
      <4>1. chat[m] = 1
        BY <1>1, <1>7, <3>2 DEF Deployed
      <4> QED BY <1>1, <1>7, <3>2, <4>1 DEF Deployed
    <3> QED BY <3>1, <3>2
  <2> HIDE DEF Effect
  <2>2. Owned(a)
    BY <1>1, <2>1 DEF Owned
  <2>3. \A x \in gone : Deployed(chat', legacy', x) = 0
    BY <1>7, <1>8, <2>1 DEF Inv, GoneForGood, Deployed
  <2> QED BY <1>1, <1>4, <2>1, <2>2, <2>3, Recall DEF Keeps, Inv
<1>10. UNCHANGED <<installed, chat, legacy>> => Keeps(a)
  BY <1>4, SameKeeps
<1> HIDE DEF Effect
<1>11. Effect /\ Go(a, rest) => Goes(a, rest) /\ Heeds(a, rest)
  <2> SUFFICES ASSUME Effect, Go(a, rest) PROVE Goes(a, rest) /\ Heeds(a, rest)
    OBVIOUS
  <2>1. Deployed(chat', legacy', m) = n - 1 /\ disturbed' = disturbed
    BY <1>4, <1>9
  <2>2. CASE n = 1
    <3>1. Unlisted(a) \in Record /\ Unlisted(a).at \in {"done", "erase"}
          /\ Unlisted(a).op = proc[a].op /\ Unlisted(a).model = proc[a].model
      BY <1>1, UnlistedRecord DEF Unregistering
    <3>2. rest \in Record /\ rest.at \in {"done", "erase"} /\ rest.op = "delete" /\ rest.model = m
      BY <1>1, <2>2, <3>1 DEF Record
    <3> HIDE DEF rest
    <3> QED BY <1>1, <2>1, <2>2, <3>2, Moves
  <2>3. CASE n # 1
    <3>1. /\ rest \in Record /\ rest.at = "remove" /\ rest.op = "delete" /\ rest.model = m
          /\ rest.todo = n - 1 /\ n - 1 # 0
      BY <1>1, <2>3 DEF Record
    <3> HIDE DEF rest
    <3>2. Fits(a, rest, chat', legacy', disturbed')
      BY <1>1, <2>1, <3>1 DEF Fits, Unregistering
    <3>3. Goes(a, rest)
      BY <1>1, <3>1, <3>2 DEF Goes, Offering
    <3>4. Heeds(a, rest)
      BY <1>1 DEF Heeds
    <3> QED BY <3>3, <3>4
  <2> QED BY <2>2, <2>3
<1>12. Go(a, failed) => Goes(a, failed) /\ Heeds(a, failed)
  <2>0. At(a, "failed") \in Record /\ At(a, "failed").at = "failed"
        /\ At(a, "failed").op = "delete" /\ At(a, "failed").model = m
    BY <1>1, AtRecord DEF Place
  <2>1. failed \in Record /\ failed.at = "failed" /\ failed.op = "delete" /\ failed.model = m
    BY <2>0 DEF Record
  <2> HIDE DEF failed
  <2> QED BY <1>1, <1>4, <2>1, Moves
<1> HIDE DEF rest, failed
<1> QED BY <1>1, <1>4, <1>6, <1>9, <1>10, <1>11, <1>12, CallInv, Distinct

\* An actor gets the lock of its model.
LEMMA LockModelInv == ASSUME Inv, NEW a \in Actor, LockModel(a) PROVE Inv'
<1> DEFINE m == proc[a].model
           p == IF proc[a].at = "lock" THEN "has" ELSE "find"
           q == [proc[a] EXCEPT !.at = p]
<1>1. /\ proc[a] \in Record /\ m \in Model /\ Fits(a, proc[a], chat, legacy, disturbed)
      /\ proc[a].at \in {"lock", "unlist"} /\ lock[m] = Nobody
  BY Standing DEF LockModel
<1>2. /\ lock' = [lock EXCEPT ![m] = a] /\ proc' = [proc EXCEPT ![a] = q]
      /\ UNCHANGED <<installed, chat, legacy, gone, faults, script, calls, crashes, noted,
                     misread, disturbed>>
  BY <1>1 DEF LockModel, Unchanged, deployments
<1>3. proc \in [Actor -> Record] /\ lock \in [Model -> Actor \cup {Nobody}]
  BY DEF Inv, TypeOK, Record
<1>4. /\ q \in Record /\ q.at = p /\ q.op = proc[a].op /\ q.model = m
      /\ p \in {"has", "find"} /\ (p = "find" => proc[a].at = "unlist")
  BY <1>1 DEF Record, Place, Registering, Unregistering
<1> HIDE DEF p, q
<1>5. /\ proc'[a] = q /\ \A b \in Actor : b # a => proc'[b] = proc[b]
      /\ lock'[m] = a /\ \A x \in Model : x # m => lock'[x] = lock[x]
      /\ proc' \in [Actor -> Record] /\ lock' \in [Model -> Actor \cup {Nobody}]
  BY <1>1, <1>2, <1>3, <1>4
<1>6. TypeOK'
  BY <1>2, <1>5, TypeKept DEF Inv, TypeOK
<1>7. Actors'
  <2>1. Fits(a, q, chat, legacy, disturbed)
    BY <1>1, <1>4 DEF Fits, Unregistering
  <2> QED BY <1>2, <1>5, <2>1 DEF Inv, Actors
<1>8. Locked'
  <2> SUFFICES ASSUME NEW b \in Actor, proc'[b].at \in Holding PROVE lock'[proc'[b].model] = b
    BY DEF Locked
  <2>1. CASE b = a
    BY <1>4, <1>5, <2>1
  <2>2. CASE b # a
    <3>1. proc[b].at \in Holding /\ proc[b].at # "idle" /\ lock[proc[b].model] = b
      BY <1>5, <2>2 DEF Inv, Locked, Holding, Registering, Unregistering
    <3>2. proc[b].model \in Model /\ proc[b].model # m
      BY <1>1, <3>1, Standing, Distinct
    <3> QED BY <1>5, <2>2, <3>1, <3>2
  <2> QED BY <2>1, <2>2
<1>9. GoneForGood'
  BY <1>2, <1>4, <1>5 DEF Inv, GoneForGood, Offering
<1>10. Sole'
  BY <1>2, ScriptKept DEF Inv
<1>11. Watched'
  <2> SUFFICES ASSUME NEW x \in Model, Due(x, worker', result', disturbed', noted' \cup misread')
               PROVE  Cared(x, proc', chat', legacy')
    BY DEF Watched
  <2>1. Cared(x, proc, chat, legacy)
    BY <1>2 DEF Inv, Watched, Due, script
  <2>2. CASE \E t \in Task : proc[t].at = "started" /\ proc[t].model = x
    BY <1>1, <1>5, <2>2, Distinct DEF Cared
  <2>3. CASE proc[x].at \in Watching
    <3>1. x = a => p = "has"
      BY <1>1, <1>4, <2>3, Standing DEF Fits
    <3>2. proc'[x].at \in Watching
      BY <1>4, <1>5, <2>3, <3>1, Distinct DEF Watching, Registering
    <3> QED BY <3>2 DEF Cared
  <2> QED BY <1>2, <2>1, <2>2, <2>3 DEF Cared
<1> QED BY <1>6, <1>7, <1>8, <1>9, <1>10, <1>11 DEF Inv

\* A step of other parts that gives actors new records outside the locks.
LEMMA Aside ==
    ASSUME Inv, proc' \in [Actor -> Record], UNCHANGED <<chat, legacy, lock, installed, gone>>,
           Recalls,
           \A b \in Actor : \/ proc'[b] = proc[b]
                            \/ /\ Fits(b, proc'[b], chat, legacy, disturbed')
                               /\ proc'[b].at \notin Holding
    PROVE  Actors' /\ Locked' /\ GoneForGood'
<1>1. Actors'
  <2> SUFFICES ASSUME NEW b \in Actor, proc'[b] = proc[b]
               PROVE  Fits(b, proc[b], chat, legacy, disturbed')
    BY DEF Actors
  <2> QED BY DEF Inv, Actors, Fits, Recalls
<1>2. Locked'
  BY DEF Inv, Locked
<1>3. Offering \subseteq Holding
  BY DEF Offering, Holding, Registering
<1>4. GoneForGood'
  BY <1>3 DEF Inv, GoneForGood
<1> QED BY <1>1, <1>2, <1>4

\* A deletion deletes the model at Ollama.
LEMMA EraseInv == ASSUME Inv, NEW t \in Task, Erase(t) PROVE Inv'
<1> DEFINE m == proc[t].model
           next == [At(t, "unlist") EXCEPT !.second = TRUE, !.rest = {}]
           back == [At(t, "lock") EXCEPT !.rest = {}]
<1>1. /\ t \in Actor /\ proc[t] \in Record /\ m \in Model /\ proc[t].op = "delete"
      /\ proc[t].at = "erase" /\ m \in disturbed /\ t \notin Model
  BY Standing, Distinct DEF Erase, Fits
<1>2. next \in Record /\ next.at = "unlist" /\ next.op = "delete" /\ next.model = m
  <2>1. /\ At(t, "unlist") \in Record /\ At(t, "unlist").at = "unlist"
        /\ At(t, "unlist").op = "delete" /\ At(t, "unlist").model = m
    BY <1>1, AtRecord DEF Place
  <2> QED BY <2>1 DEF Record
<1>3. back \in Record /\ back.at = "lock" /\ back.op = "delete" /\ back.model = m
  <2>1. /\ At(t, "lock") \in Record /\ At(t, "lock").at = "lock"
        /\ At(t, "lock").op = "delete" /\ At(t, "lock").model = m
    BY <1>1, AtRecord DEF Place
  <2> QED BY <2>1 DEF Record
<1>4. \/ Step(t, next) \/ Step(t, back)
      \/ /\ \/ Go(t, next) /\ UNCHANGED faults /\ installed' = installed \ {m}
            \/ /\ faults < MaxFaults /\ faults' = faults + 1
               /\ Go(t, back)
               /\ installed' \in {installed, installed \ {m}}
         /\ last' = IF last = m /\ m \notin installed' THEN Nobody ELSE last
         /\ result' = IF last = m /\ m \notin installed'
                      THEN [result EXCEPT ![m] = "none"] ELSE result
         /\ UNCHANGED <<deployments, worker, pulling, pid, named, logged, calls, crashes,
                        noted, misread, disturbed>>
  BY DEF Erase
<1> HIDE DEF next, back
<1>5. \A q : q \in {next, back} /\ Go(t, q) /\ UNCHANGED disturbed => Goes(t, q) /\ Heeds(t, q)
  BY <1>1, <1>2, <1>3, Moves
<1>6. CASE Step(t, next) \/ Step(t, back)
  <2>1. /\ UNCHANGED <<installed, chat, legacy, faults, disturbed>> /\ Unchanged
        /\ \E q \in {next, back} : Go(t, q)
    BY <1>6 DEF Step, Unchanged, deployments
  <2>2. faults' \in 0..MaxFaults
    BY <2>1 DEF Inv, TypeOK
  <2> QED BY <1>1, <1>5, <2>1, <2>2, SameKeeps, CallInv
<1>7. CASE ~(Step(t, next) \/ Step(t, back))
  <2>1. /\ \E q \in {next, back} : Go(t, q)
        /\ UNCHANGED faults \/ (faults < MaxFaults /\ faults' = faults + 1)
        /\ installed' \in {installed, installed \ {m}}
        /\ last' \in {last, Nobody}
        /\ result' \in {result, [result EXCEPT ![m] = "none"]}
        /\ UNCHANGED <<chat, legacy, worker, pulling, pid, named, logged, calls, crashes, noted,
                       misread, disturbed>>
    BY <1>4, <1>7 DEF deployments
  <2>2. installed \subseteq Model
    BY DEF Inv, TypeOK
  <2>3. Keeps(t)
    BY <2>1, <2>2, Recall DEF Inv, TypeOK, Keeps, Owned, GoneForGood
  <2>4. /\ result' \in [Model -> {"none", "ok", "failed", "cancelled", "unclean"}]
        /\ \A x \in Model : result'[x] \in {result[x], "none"}
    BY <2>1, <1>1 DEF Inv, TypeOK
  <2>5. \A x \in Model : Due(x, worker', result', disturbed', noted' \cup misread')
                            => Due(x, worker, result, disturbed, noted \cup misread)
    BY <2>1, <2>4 DEF Due
  <2>6. /\ Actors' /\ Locked' /\ GoneForGood' /\ Watched'
        /\ proc' \in [Actor -> Record] /\ lock' \in [Model -> Actor \cup {Nobody}]
        /\ gone' \subseteq Model
        /\ chat' \in [Model -> 0..1] /\ legacy' \subseteq Model /\ installed' \subseteq Model
    BY <1>1, <1>5, <2>1, <2>3, <2>5, GoParts
  <2>7. Sole'
    BY <2>1, <2>4 DEF Inv, Sole
  <2>8. TypeOK'
    <3>1. faults' \in 0..MaxFaults
      BY <2>1, FaultsCounted DEF Inv
    <3>2. {pid, named, last}' \subseteq Model \cup {Nobody}
      BY <2>1 DEF Inv, TypeOK
    <3> QED BY <2>1, <2>4, <2>6, <3>1, <3>2 DEF Inv, TypeOK, Record
  <2> QED BY <2>6, <2>7, <2>8 DEF Inv
<1> QED BY <1>6, <1>7

\* The record of an actor that does nothing.
LEMMA IdleRecord ==
    /\ Idle \in Record /\ Idle.at = "idle" /\ Idle.op = "none"
    /\ "idle" \notin Holding \cup Offering
    /\ \A a \in Actor : \A C, G, d : Fits(a, Idle, C, G, d)
BY DEF Idle, Record, Place, Holding, Offering, Registering, Unregistering, Fits

\* An actor ends, and somebody or something sees to the model, if it is due.
LEMMA EndInv ==
    ASSUME Inv, NEW a \in Actor, proc[a].at \notin {"idle", "started"}, Go(a, Idle),
           UNCHANGED <<installed, chat, legacy, script, calls, crashes, misread, disturbed>>,
           faults' \in 0..MaxFaults, noted \subseteq noted', noted' \subseteq Model,
           a \in Model /\ proc[a].at \in Watching /\ a \notin noted'
              => ~Due(a, worker, result, disturbed, noted \cup misread)
    PROVE  Inv'
<1>1. Keeps(a)
  BY SameKeeps
<1>2. \A m \in Model : Due(m, worker', result', disturbed', noted' \cup misread')
                          => Due(m, worker, result, disturbed, noted \cup misread)
  BY DEF Due, script
<1>3. Goes(a, Idle)
  BY IdleRecord DEF Goes
<1>4. Heeds(a, Idle)
  BY <1>2 DEF Heeds, Due
<1>5. /\ Actors' /\ Locked' /\ GoneForGood' /\ Watched'
      /\ proc' \in [Actor -> Record] /\ lock' \in [Model -> Actor \cup {Nobody}]
      /\ gone' \subseteq Model
      /\ chat' \in [Model -> 0..1] /\ legacy' \subseteq Model /\ installed' \subseteq Model
  BY <1>1, <1>2, <1>3, <1>4, GoParts
<1>6. Sole'
  BY ScriptKept DEF Inv
<1>7. TypeOK'
  BY <1>5, TypeKept DEF Inv, TypeOK
<1> QED BY <1>5, <1>6, <1>7 DEF Inv

\* An actor returns.
LEMMA ReturnInv == ASSUME Inv, NEW a \in Actor, Return(a) PROVE Inv'
<1>1. /\ proc[a].at \in {"done", "failed"} /\ Go(a, Idle)
      /\ noted' = IF a \in Model /\ proc[a].at = "failed" THEN noted \cup {a} ELSE noted
      /\ UNCHANGED <<installed, chat, legacy, script, calls, faults, crashes, misread, disturbed>>
  BY DEF Return, deployments
<1>2. noted \subseteq noted' /\ noted' \subseteq Model /\ faults' \in 0..MaxFaults
  BY <1>1 DEF Inv, TypeOK
<1>3. a \in Model /\ proc[a].at \in Watching /\ a \notin noted'
         => ~Due(a, worker, result, disturbed, noted \cup misread)
  BY <1>1 DEF Watching, Registering
<1> QED BY <1>1, <1>2, <1>3, EndInv

\* A watcher goes on with its record, and ends only if its model is not due.
LEMMA WatcherGoes ==
    ASSUME Inv, NEW m \in Model, proc[m].at \in {"poll", "files"}, NEW r \in SUBSET Model,
           NEW p \in {"files", "poll", "lock", "done", "failed"},
           Go(m, [At(m, p) EXCEPT !.rest = r]), UNCHANGED disturbed,
           p = "done" => ~Due(m, worker', result', disturbed', noted' \cup misread')
    PROVE  /\ Goes(m, [At(m, p) EXCEPT !.rest = r])
           /\ Heeds(m, [At(m, p) EXCEPT !.rest = r])
<1> DEFINE q == [At(m, p) EXCEPT !.rest = r]
<1>1. m \in Actor /\ proc[m].model = m /\ proc[m].op = "watch" /\ proc[m] \in Record
  BY Distinct, Standing
<1>2. q = [op |-> proc[m].op, at |-> p, model |-> proc[m].model, todo |-> proc[m].todo,
           rest |-> r, second |-> proc[m].second]
  <2>1. PICK o \in Record : o = proc[m]
    BY <1>1
  <2>2. At(m, p) = [o EXCEPT !.at = p]
    BY <2>1 DEF At
  <2>3. [o EXCEPT !.at = p] = [op |-> o.op, at |-> p, model |-> o.model, todo |-> o.todo,
                              rest |-> o.rest, second |-> o.second]
    BY DEF Record
  <2>4. [[op |-> o.op, at |-> p, model |-> o.model, todo |-> o.todo, rest |-> o.rest,
          second |-> o.second] EXCEPT !.rest = r]
          = [op |-> o.op, at |-> p, model |-> o.model, todo |-> o.todo, rest |-> r,
             second |-> o.second]
    OBVIOUS
  <2> QED BY <2>1, <2>2, <2>3, <2>4, Zenon
<1>3. Go(m, q)
  OBVIOUS
<1> HIDE DEF q
<1>4. q \in Record /\ q.at = p /\ q.op = "watch" /\ q.model = m
  BY <1>1, <1>2 DEF Record, Place, Op
<1>5. Fits(m, q, chat', legacy', disturbed')
  BY <1>1, <1>4, Distinct DEF Fits, Unregistering
<1>6. Goes(m, q)
  BY <1>3, <1>4, <1>5 DEF Goes, Holding, Registering, Unregistering, Offering
<1>7. Heeds(m, q)
  BY <1>4 DEF Heeds, Watching
<1> QED BY <1>6, <1>7 DEF q

\* A watcher reads the name of the model that is being pulled.
LEMMA PollNameInv == ASSUME Inv, NEW m \in Model, PollName(m) PROVE Inv'
<1>1. /\ m \in Actor /\ proc[m].at = "poll" /\ {named} \ {Nobody} \subseteq Model
      /\ Go(m, [At(m, "files") EXCEPT !.rest = {named} \ {Nobody}])
      /\ Unchanged /\ UNCHANGED <<installed, chat, legacy, faults, disturbed>>
  BY Distinct DEF PollName, Step, Unchanged, deployments, Inv, TypeOK
<1> DEFINE q == [At(m, "files") EXCEPT !.rest = {named} \ {Nobody}]
<1>2. Goes(m, q) /\ Heeds(m, q)
  BY <1>1, WatcherGoes
<1>3. Keeps(m) /\ faults' \in 0..MaxFaults
  BY <1>1, SameKeeps DEF Inv, TypeOK
<1> HIDE DEF q
<1> QED BY <1>1, <1>2, <1>3, CallInv

\* A watcher reads the other files of its pull.
LEMMA PollInv == ASSUME Inv, NEW m \in Model, Poll(m) PROVE Inv'
<1> DEFINE state == Progress(m, proc[m].rest)
<1>1. /\ m \in Actor /\ proc[m].at = "files"
      /\ UNCHANGED <<installed, chat, legacy, script, calls, crashes, noted, disturbed>>
      /\ UNCHANGED faults \/ (faults < MaxFaults /\ faults' = faults + 1)
      /\ misread' \in {misread, misread \cup {m}}
  BY Distinct DEF Poll, deployments
<1>2. /\ faults' \in 0..MaxFaults /\ noted' \subseteq Model /\ misread' \subseteq Model
      /\ misread \subseteq misread' /\ disturbed' \subseteq Model
  BY <1>1, FaultsCounted DEF Inv, TypeOK
<1>3. PICK p \in {"poll", "lock", "done", "failed"} :
        /\ Go(m, [At(m, p) EXCEPT !.rest = {}])
        /\ p = "done" => /\ state \in {"failed", "busy", "cancelled", "unclean"}
                         /\ state = "busy" /\ pid = m => m \in misread'
  BY DEF Poll
<1>4. UNCHANGED <<worker, result, noted, disturbed>>
  BY <1>1 DEF script
<1>5. p = "done" => ~Due(m, worker', result', disturbed', noted' \cup misread')
  <2> SUFFICES ASSUME p = "done", Due(m, worker, result, disturbed, noted \cup misread')
               PROVE  FALSE
    BY <1>4
  <2>1. CASE worker[m] # "none"
    <3>1. result[m] = "none" /\ \A w \in Model \ {m} : worker[w] = "none"
      BY <2>1 DEF Inv, Sole, Due
    <3>2. state = "busy" /\ Alive
      BY <1>3, <3>1 DEF Progress
    <3>3. pid = m
      BY <3>1, <3>2 DEF Alive, Inv, TypeOK
    <3> QED BY <1>3, <3>2, <3>3 DEF Due
  <2>2. CASE worker[m] = "none"
    <3>1. result[m] = "ok"
      BY <2>2 DEF Due
    <3> QED BY <1>3, <3>1 DEF Progress
  <2> QED BY <2>1, <2>2
<1> DEFINE q == [At(m, p) EXCEPT !.rest = {}]
<1>6. Goes(m, q) /\ Heeds(m, q)
  BY <1>1, <1>3, <1>5, WatcherGoes
<1> HIDE DEF q, state
<1>7. \A x \in Model : Due(x, worker', result', disturbed', noted' \cup misread')
                          => Due(x, worker, result, disturbed, noted \cup misread)
  BY <1>2, <1>4 DEF Due
<1>8. /\ Actors' /\ Locked' /\ GoneForGood' /\ Watched'
      /\ proc' \in [Actor -> Record] /\ lock' \in [Model -> Actor \cup {Nobody}]
      /\ gone' \subseteq Model
      /\ chat' \in [Model -> 0..1] /\ legacy' \subseteq Model /\ installed' \subseteq Model
  BY <1>1, <1>6, <1>7, SameKeeps, GoParts
<1>9. Sole'
  BY <1>1, ScriptKept DEF Inv
<1>10. TypeOK'
  BY <1>1, <1>2, <1>8, TypeKept DEF Inv, TypeOK
<1> QED BY <1>8, <1>9, <1>10 DEF Inv

\* A request begins.
LEMMA BeginModelRequestInv == ASSUME Inv, NEW t \in Task, BeginModelRequest(t) PROVE Inv'
<1>1. PICK m \in Model, start \in {<<"register", "exists">>, <<"delete", "tags">>,
                                   <<"pull", "pull">>, <<"cancel", "cancel">>,
                                   <<"status", "progress">>, <<"sync", "names">>} :
        /\ proc' = [proc EXCEPT ![t] = [Idle EXCEPT !.op = start[1], !.at = start[2],
                                                    !.model = m]]
        /\ disturbed' = IF start[1] = "delete" THEN disturbed \cup {m} ELSE disturbed
  BY DEF BeginModelRequest
<1>2. /\ proc[t].at = "idle" /\ calls < MaxCalls /\ calls' = calls + 1
      /\ UNCHANGED <<installed, chat, legacy, lock, script, faults, crashes, gone, noted,
                     misread>>
  BY DEF BeginModelRequest, deployments
<1>3. t \in Actor /\ t \notin Model
  BY Distinct
<1> DEFINE q == [Idle EXCEPT !.op = start[1], !.at = start[2], !.model = m]
<1>4. q \in Record /\ q.op = start[1] /\ q.at = start[2] /\ q.model = m
  <2>1. PICK o \in Op, p \in Place : start[1] = o /\ start[2] = p
    BY DEF Op, Place
  <2>2. q = [Idle EXCEPT !.op = o, !.at = p, !.model = m]
    BY <2>1
  <2> HIDE DEF q
  <2>3. q = [op |-> o, at |-> p, model |-> m, todo |-> 0, rest |-> {}, second |-> FALSE]
    BY <2>2 DEF Idle
  <2> QED BY <2>1, <2>3 DEF Record
<1>5. proc' = [proc EXCEPT ![t] = q]
  BY <1>1
<1> HIDE DEF q
<1>6. proc \in [Actor -> Record]
  BY DEF Inv, TypeOK, Record
<1>7. /\ proc' \in [Actor -> Record] /\ proc'[t] = q
      /\ \A b \in Actor : b # t => proc'[b] = proc[b]
  BY <1>3, <1>4, <1>5, <1>6
<1>8. start[1] = "delete" => m \in disturbed'
  BY <1>1
<1>9. disturbed \subseteq disturbed' /\ disturbed' \subseteq Model
  BY <1>1 DEF Inv, TypeOK
<1>10. Fits(t, q, chat, legacy, disturbed') /\ q.at \notin Holding /\ q.at # "idle"
  BY <1>3, <1>4, <1>8 DEF Fits, Holding, Registering, Unregistering
<1>11. Actors' /\ Locked' /\ GoneForGood'
  BY <1>2, <1>7, <1>9, <1>10, Aside, Recall DEF Inv
<1>12. Sole'
  BY <1>2, <1>9 DEF Inv, Sole, script
<1>13. Watched'
  <2> SUFFICES ASSUME NEW x \in Model, Due(x, worker', result', disturbed', noted' \cup misread')
               PROVE  Cared(x, proc', chat', legacy')
    BY DEF Watched
  <2>1. Cared(x, proc, chat, legacy)
    BY <1>2, <1>9 DEF Inv, Watched, Due, script
  <2>2. CASE \E u \in Task : proc[u].at = "started" /\ proc[u].model = x
    <3>1. PICK u \in Task : proc[u].at = "started" /\ proc[u].model = x
      BY <2>2
    <3>2. proc'[u] = proc[u]
      BY <1>2, <1>7, <3>1, Distinct
    <3> QED BY <3>1, <3>2 DEF Cared
  <2>3. CASE proc[x].at \in Watching
    BY <1>3, <1>7, <2>3, Distinct DEF Cared
  <2> QED BY <1>2, <2>1, <2>2, <2>3 DEF Cared
<1>14. TypeOK'
  <2>1. calls' \in 0..MaxCalls
    BY <1>2, ConstantsAssumption DEF Inv, TypeOK
  <2> QED BY <1>2, <1>7, <1>9, <2>1, TypeKept DEF Inv, TypeOK
<1> QED BY <1>11, <1>12, <1>13, <1>14 DEF Inv

\* The script looks for a worker that is no more.
LEMMA PullLooksInv == ASSUME Inv, NEW t \in Task, PullLooks(t) PROVE Inv'
<1> DEFINE p == IF pid # Nobody /\ ~Alive THEN "sweep" ELSE "mkdir"
           q == At(t, p)
<1>1. /\ t \in Actor /\ proc[t].model \in Model /\ proc[t].op # "delete"
      /\ proc[t].at = "pull"
  BY Distinct, Standing DEF PullLooks, Fits
<1>2. Go(t, q) /\ Unchanged /\ UNCHANGED <<installed, chat, legacy, faults, disturbed>>
  BY DEF PullLooks, Step, Unchanged, deployments
<1>3. p \in {"sweep", "mkdir"}
  OBVIOUS
<1> HIDE DEF p
<1>4. q \in Record /\ q.at = p /\ q.op = proc[t].op /\ q.model = proc[t].model
  BY <1>1, <1>3, AtRecord DEF Place
<1> HIDE DEF q
<1>5. Goes(t, q) /\ Heeds(t, q)
  BY <1>1, <1>2, <1>3, <1>4, Moves
<1>6. Keeps(t) /\ faults' \in 0..MaxFaults
  BY <1>1, <1>2, SameKeeps DEF Inv, TypeOK
<1> QED BY <1>1, <1>2, <1>5, <1>6, CallInv

\* The script takes the files away that a worker left, or those of another.
LEMMA PullSweepsInv == ASSUME Inv, NEW t \in Task, PullSweeps(t) PROVE Inv'
<1> DEFINE q == At(t, "mkdir")
<1>1. /\ t \in Actor /\ proc[t].model \in Model /\ proc[t].op # "delete"
      /\ proc[t].at = "sweep"
  BY Distinct, Standing DEF PullSweeps, Fits
<1>2. /\ Go(t, q) /\ pid' = Nobody /\ named' = Nobody /\ pulling' = FALSE
      /\ disturbed' = disturbed \cup Working
      /\ UNCHANGED <<installed, chat, legacy, worker, last, result, logged, calls, faults,
                     crashes, noted, misread>>
  BY DEF PullSweeps, deployments
<1>3. q \in Record /\ q.at = "mkdir" /\ q.op = proc[t].op /\ q.model = proc[t].model
  BY <1>1, AtRecord DEF Place
<1> HIDE DEF q
<1>4. disturbed \subseteq disturbed' /\ disturbed' \subseteq Model
  BY <1>2 DEF Inv, TypeOK, Working
<1>5. Goes(t, q) /\ Heeds(t, q)
  BY <1>1, <1>2, <1>3, <1>4, Moves
<1>6. \A x \in Model : Due(x, worker', result', disturbed', noted' \cup misread')
                          => Due(x, worker, result, disturbed, noted \cup misread)
  BY <1>2, <1>4 DEF Due
<1>7. /\ Actors' /\ Locked' /\ GoneForGood' /\ Watched'
      /\ proc' \in [Actor -> Record] /\ lock' \in [Model -> Actor \cup {Nobody}]
      /\ gone' \subseteq Model
  BY <1>1, <1>2, <1>4, <1>5, <1>6, SameKeeps, GoParts
<1>8. Sole'
  BY <1>2 DEF Sole, Working
<1>9. TypeOK'
  BY <1>2, <1>4, <1>7 DEF Inv, TypeOK, Record
<1> QED BY <1>7, <1>8, <1>9 DEF Inv

\* The script starts a worker.
LEMMA PullInv == ASSUME Inv, NEW t \in Task, Pull(t) PROVE Inv'
<1> DEFINE m == proc[t].model
<1>1. /\ t \in Actor /\ t \notin Model /\ m \in Model /\ proc[t].op # "delete"
      /\ proc[t].at = "mkdir" /\ worker[m] = "none"
      /\ UNCHANGED <<installed, chat, legacy, pid, named, calls, faults, crashes, noted,
                     misread>>
  BY Standing, Distinct DEF Pull, Fits, deployments
<1>2. CASE pulling
  <2>1. /\ Go(t, At(t, "failed"))
        /\ UNCHANGED <<worker, pulling, last, result, logged, disturbed>>
    BY <1>2 DEF Pull
  <2>4. Unchanged
    BY <1>1, <2>1 DEF Unchanged, script
  <2>5. Goes(t, At(t, "failed")) /\ Heeds(t, At(t, "failed"))
    BY <1>1, <2>1, FailedMoves
  <2>6. faults' \in 0..MaxFaults
    BY <1>1 DEF Inv, TypeOK
  <2> QED BY <1>1, <2>1, <2>4, <2>5, <2>6, SameKeeps, CallInv
<1>3. CASE ~pulling
  <2> DEFINE q == At(t, "started")
  <2>1. /\ Go(t, q) /\ pulling' = TRUE /\ last' = m
        /\ result' = [result EXCEPT ![m] = "none"]
        /\ logged' = logged \ {m}
        /\ worker' = [worker EXCEPT ![m] = "spawned"]
        /\ disturbed' = IF Others(m) = {} /\ ~Deleting(m) THEN disturbed \ {m}
                        ELSE disturbed \cup {m}
    BY <1>3 DEF Pull
  <2>2. q \in Record /\ q.at = "started" /\ q.op = proc[t].op /\ q.model = m
    BY <1>1, AtRecord DEF Place
  <2> HIDE DEF q
  <2>3. proc'[t] = q
    BY <1>1, <2>1, <2>2, MoveProc DEF Inv
  <2>5. Recalls
    <3>1. \A u \in Task : proc[u].op = "delete" => proc[u].model \in disturbed
      BY Distinct DEF Inv, Actors, Fits
    <3> QED BY <2>1, <3>1 DEF Recalls, Deleting
  <2>6. Goes(t, q) /\ Heeds(t, q)
    BY <1>1, <2>1, <2>2, <2>5, Moves
  <2>7. Keeps(t)
    BY <1>1, <2>5 DEF Keeps, Owned, Inv, TypeOK, GoneForGood
  <2>8. /\ worker \in [Model -> {"none", "spawned", "starting", "running", "complete"}]
        /\ result \in [Model -> {"none", "ok", "failed", "cancelled", "unclean"}]
        /\ {pid, named} \subseteq Model \cup {Nobody}
        /\ disturbed \subseteq Model /\ logged \subseteq Model
    BY DEF Inv, TypeOK
  <2>9. /\ worker'[m] = "spawned" /\ result'[m] = "none"
        /\ \A x \in Model : x # m => worker'[x] = worker[x] /\ result'[x] = result[x]
        /\ worker' \in [Model -> {"none", "spawned", "starting", "running", "complete"}]
        /\ result' \in [Model -> {"none", "ok", "failed", "cancelled", "unclean"}]
    BY <1>1, <2>1, <2>8
  <2>10. \A x \in Model : Due(x, worker', result', disturbed', noted' \cup misread')
           => \/ Due(x, worker, result, disturbed, noted \cup misread)
              \/ Cared(x, proc', chat', legacy')
    <3>1. Cared(m, proc', chat', legacy')
      BY <2>2, <2>3 DEF Cared
    <3>2. ASSUME NEW x \in Model, x # m, Due(x, worker', result', disturbed', noted' \cup misread')
          PROVE  Due(x, worker, result, disturbed, noted \cup misread)
      BY <1>1, <2>1, <2>9, <3>2 DEF Due
    <3> QED BY <3>1, <3>2
  <2>11. /\ Actors' /\ Locked' /\ GoneForGood' /\ Watched'
         /\ proc' \in [Actor -> Record] /\ lock' \in [Model -> Actor \cup {Nobody}]
         /\ gone' \subseteq Model
         /\ chat' \in [Model -> 0..1] /\ legacy' \subseteq Model /\ installed' \subseteq Model
    BY <1>1, <2>6, <2>7, <2>10, GoParts
  <2>13. Sole'
    <3> SUFFICES ASSUME NEW x \in Model \ disturbed', worker'[x] # "none"
                 PROVE  /\ pulling' /\ result'[x] = "none"
                        /\ \A w \in Model \ {x} : worker'[w] = "none"
      BY DEF Sole
    <3>1. CASE x = m
      <4>1. \A w \in Model \ {m} : worker[w] = "none"
        BY <2>1, <3>1 DEF Others, Working
      <4> QED BY <2>1, <2>9, <3>1, <4>1
    <3>2. CASE x # m
      <4>1. x \notin disturbed /\ worker[x] # "none"
        BY <2>1, <2>9, <3>2
      <4> QED BY <1>3, <4>1 DEF Inv, Sole
    <3> QED BY <3>1, <3>2
  <2>14. TypeOK'
    <3>1. /\ disturbed' \subseteq Model /\ logged' \subseteq Model /\ pulling' \in BOOLEAN
          /\ {pid, named, last}' \subseteq Model \cup {Nobody}
      BY <1>1, <2>1, <2>8
    <3> QED BY <1>1, <2>9, <2>11, <3>1 DEF Inv, TypeOK, Record
  <2> QED BY <2>11, <2>13, <2>14 DEF Inv
<1> QED BY <1>2, <1>3

\* The record of a watcher.
LEMMA WatcherRecord ==
    ASSUME NEW m \in Model, NEW w, w = [Idle EXCEPT !.op = "watch", !.at = "poll", !.model = m]
    PROVE  w \in Record /\ w.at = "poll" /\ w.op = "watch" /\ w.model = m
<1>1. w = [op |-> "watch", at |-> "poll", model |-> m, todo |-> 0, rest |-> {},
           second |-> FALSE]
  BY DEF Idle
<1>2. "watch" \in Op \cup {"none"} /\ "poll" \in Place
  BY DEF Place, Op
<1>3. w.op = "watch" /\ w.at = "poll" /\ w.model = m
  BY <1>1
<1>4. w \in Record
  <2>1. 0 \in 0..2 /\ {} \in SUBSET Model /\ FALSE \in BOOLEAN /\ m \in Model \cup {Nobody}
    OBVIOUS
  <2> HIDE DEF Record
  <2>2. [op |-> "watch", at |-> "poll", model |-> m, todo |-> 0, rest |-> {},
         second |-> FALSE] \in Record
    BY <1>2, <2>1 DEF Record
  <2> QED BY <1>1, <2>2
<1> QED BY <1>3, <1>4

\* The request puts a watcher to work.
LEMMA PullStartedInv == ASSUME Inv, NEW t \in Task, PullStarted(t) PROVE Inv'
<1> DEFINE m == proc[t].model
           watched == [Idle EXCEPT !.op = "watch", !.at = "poll", !.model = m]
<1>1. /\ t \in Actor /\ t \notin Model /\ m \in Model /\ m \in Actor /\ t # m
      /\ proc[t].op # "delete" /\ proc[t].at = "started" /\ proc[t] \in Record
      /\ proc \in [Actor -> Record]
      /\ UNCHANGED <<installed, chat, legacy, lock, pid, named, last, result, logged, calls,
                     crashes, gone>>
  BY Standing, Distinct DEF PullStarted, Fits, deployments, Inv, TypeOK, Record
<1>2. /\ worker \in [Model -> {"none", "spawned", "starting", "running", "complete"}]
      /\ disturbed \subseteq Model /\ noted \subseteq Model /\ misread \subseteq Model
  BY DEF Inv, TypeOK
<1>3. UNCHANGED faults \/ (faults < MaxFaults /\ faults' = faults + 1)
  BY DEF PullStarted
<1>4. faults' \in 0..MaxFaults
  BY <1>3, FaultsCounted DEF Inv
<1>5. CASE /\ proc' = [proc EXCEPT ![t].at = "done",
                                   ![m] = IF @.at = "idle" THEN watched ELSE @]
           /\ noted' = noted \ {m} /\ misread' = misread \ {m}
           /\ disturbed' = IF proc[m].at \in {"idle", "poll", "files"} THEN disturbed
                           ELSE disturbed \cup {m}
           /\ UNCHANGED <<worker, pulling, faults>>
  <2> DEFINE q == [proc[t] EXCEPT !.at = "done"]
             p == IF proc[m].at = "idle" THEN watched ELSE proc[m]
  <2>1. proc' = [proc EXCEPT ![t] = q, ![m] = p]
    BY <1>1, <1>5
  <2>2. q \in Record /\ q.at = "done" /\ q.op = proc[t].op /\ q.model = m
    BY <1>1 DEF Record, Place
  <2>3. watched \in Record /\ watched.at = "poll" /\ watched.op = "watch" /\ watched.model = m
    BY <1>1, WatcherRecord
  <2>4. p \in Record /\ (proc[m].at = "idle" => p = watched) /\ (proc[m].at # "idle" => p = proc[m])
    BY <1>1, <2>3
  <2> HIDE DEF p, q, watched
  <2>5. /\ proc' \in [Actor -> Record] /\ proc'[t] = q /\ proc'[m] = p
        /\ \A b \in Actor \ {t, m} : proc'[b] = proc[b]
    BY <1>1, <2>1, <2>2, <2>4
  <2>6. disturbed \subseteq disturbed' /\ disturbed' \subseteq Model
    BY <1>1, <1>2, <1>5
  <2>7. Fits(t, q, chat, legacy, disturbed') /\ q.at \notin Holding
    BY <1>1, <2>2 DEF Fits, Holding, Registering, Unregistering
  <2>8. Fits(m, watched, chat, legacy, disturbed') /\ watched.at \notin Holding
    BY <1>1, <2>3, Distinct DEF Fits, Holding, Registering, Unregistering
  <2>9. Actors' /\ Locked' /\ GoneForGood'
    <3>1. Recalls
      BY <2>6, Recall DEF Inv
    <3>2. \A b \in Actor : \/ proc'[b] = proc[b]
                           \/ /\ Fits(b, proc'[b], chat, legacy, disturbed')
                              /\ proc'[b].at \notin Holding
      BY <2>4, <2>5, <2>7, <2>8
    <3> QED BY <1>1, <2>5, <3>1, <3>2, Aside
  <2>10. Sole'
    BY <1>1, <1>5, <2>6 DEF Inv, Sole
  <2>11. Watched'
    <3> SUFFICES ASSUME NEW x \in Model, Due(x, worker', result', disturbed', noted' \cup misread')
                 PROVE  Cared(x, proc', chat', legacy')
      BY DEF Watched
    <3>1. CASE x = m
      <4>1. proc[m].at \in {"idle", "poll", "files"}
        BY <1>5, <3>1 DEF Due
      <4>2. proc'[m].at \in {"poll", "files"}
        BY <2>3, <2>4, <2>5, <4>1
      <4> QED BY <3>1, <4>2 DEF Cared, Watching
    <3>2. CASE x # m
      <4>1. Cared(x, proc, chat, legacy)
        BY <1>1, <1>5, <2>6, <3>2 DEF Inv, Watched, Due
      <4>2. \A u \in Task : proc[u].model = x => proc'[u] = proc[u]
        BY <1>1, <2>5, <3>2, Distinct
      <4>3. proc'[x] = proc[x]
        BY <1>1, <2>5, <3>2, Distinct
      <4> QED BY <1>1, <4>1, <4>2, <4>3 DEF Cared
    <3> QED BY <3>1, <3>2
  <2>12. TypeOK'
    BY <1>1, <1>2, <1>4, <1>5, <2>5, <2>6 DEF Inv, TypeOK, Record
  <2> QED BY <2>9, <2>10, <2>11, <2>12 DEF Inv
<1>6. CASE /\ pid = Nobody /\ result[m] # "ok"
           /\ worker' = [worker EXCEPT ![m] = "none"]
           /\ pulling' = FALSE
           /\ proc' = [proc EXCEPT ![t].at = "failed"]
           /\ disturbed' = disturbed \cup Others(m)
           /\ UNCHANGED <<noted, misread>>
  <2> DEFINE q == [proc[t] EXCEPT !.at = "failed"]
  <2>1. proc' = [proc EXCEPT ![t] = q]
    BY <1>1, <1>6
  <2>2. q \in Record /\ q.at = "failed" /\ q.op = proc[t].op /\ q.model = m
    BY <1>1 DEF Record, Place
  <2> HIDE DEF q
  <2>3. /\ proc' \in [Actor -> Record] /\ proc'[t] = q
        /\ \A b \in Actor \ {t} : proc'[b] = proc[b]
    BY <1>1, <2>1, <2>2
  <2>4. disturbed \subseteq disturbed' /\ disturbed' \subseteq Model
    BY <1>2, <1>6 DEF Others, Working
  <2>5. Fits(t, q, chat, legacy, disturbed') /\ q.at \notin Holding
    BY <1>1, <2>2 DEF Fits, Holding, Registering, Unregistering
  <2>6. Actors' /\ Locked' /\ GoneForGood'
    <3>1. Recalls
      BY <2>4, Recall DEF Inv
    <3> QED BY <1>1, <2>3, <2>5, <3>1, Aside
  <2>7. /\ worker' \in [Model -> {"none", "spawned", "starting", "running", "complete"}]
        /\ worker'[m] = "none" /\ \A x \in Model : x # m => worker'[x] = worker[x]
    BY <1>1, <1>2, <1>6
  <2>8. Sole'
    <3>1. \A x \in Model \ disturbed' : worker'[x] = "none"
      BY <1>6, <2>7 DEF Others, Working
    <3> QED BY <1>1, <1>6, <3>1 DEF Sole
  <2>9. Watched'
    <3> SUFFICES ASSUME NEW x \in Model, Due(x, worker', result', disturbed', noted' \cup misread')
                 PROVE  Cared(x, proc', chat', legacy')
      BY DEF Watched
    <3>1. x # m
      BY <1>1, <1>6, <2>7 DEF Due
    <3>2. Cared(x, proc, chat, legacy)
      BY <1>1, <1>6, <2>4, <2>7, <3>1 DEF Inv, Watched, Due
    <3>3. \A u \in Task : proc[u].model = x => proc'[u] = proc[u]
      BY <1>1, <2>3, <3>1, Distinct
    <3>4. proc'[x] = proc[x]
      BY <1>1, <2>3, <3>1, Distinct
    <3> QED BY <1>1, <3>2, <3>3, <3>4 DEF Cared
  <2>10. TypeOK'
    BY <1>1, <1>2, <1>4, <1>6, <2>3, <2>4, <2>7 DEF Inv, TypeOK, Record
  <2> QED BY <2>6, <2>8, <2>9, <2>10 DEF Inv
<1> QED BY <1>5, <1>6 DEF PullStarted

\* A pull is cancelled.
LEMMA CancelInv == ASSUME Inv, NEW t \in Task, Cancel(t) PROVE Inv'
<1> DEFINE m == proc[t].model
           mine == named \in {m, Nobody}
           p == IF mine /\ pid = m /\ Alive THEN "clean"
                ELSE IF mine /\ ~Alive /\ result[m] = "unclean" THEN "clean"
                ELSE IF mine /\ ~Alive /\ result[m] = "ok" THEN "done"
                ELSE "failed"
           q == At(t, p)
<1>1. /\ t \in Actor /\ t \notin Model /\ m \in Model /\ proc[t].op # "delete"
      /\ proc[t].at = "cancel"
      /\ UNCHANGED <<installed, chat, legacy, pulling, pid, named, last, result, logged, calls,
                     faults, crashes, noted, misread, disturbed>>
  BY Standing, Distinct DEF Cancel, Fits, deployments
<1>2. Go(t, q) /\ worker' \in {worker, [worker EXCEPT ![m] = "none"]}
  BY DEF Cancel
<1>3. p \in {"clean", "done", "failed"}
  OBVIOUS
<1> HIDE DEF p
<1>4. q \in Record /\ q.at = p /\ q.op = proc[t].op /\ q.model = m
  BY <1>1, <1>3, AtRecord DEF Place
<1> HIDE DEF q
<1>5. Goes(t, q) /\ Heeds(t, q)
  BY <1>1, <1>2, <1>3, <1>4, Moves
<1>6. /\ worker' \in [Model -> {"none", "spawned", "starting", "running", "complete"}]
      /\ \A x \in Model : worker'[x] \in {worker[x], "none"}
      /\ pid \in Model \cup {Nobody}
  BY <1>1, <1>2 DEF Inv, TypeOK
<1>7. \A x \in Model : Due(x, worker', result', disturbed', noted' \cup misread')
                          => Due(x, worker, result, disturbed, noted \cup misread)
  BY <1>1, <1>6 DEF Due
<1>8. /\ Actors' /\ Locked' /\ GoneForGood' /\ Watched'
      /\ proc' \in [Actor -> Record] /\ lock' \in [Model -> Actor \cup {Nobody}]
      /\ gone' \subseteq Model
  BY <1>1, <1>5, <1>7, SameKeeps, GoParts
<1>9. Sole'
  BY <1>1, <1>6 DEF Inv, Sole
<1>10. TypeOK'
  BY <1>1, <1>6, <1>8 DEF Inv, TypeOK, Record
<1> QED BY <1>8, <1>9, <1>10 DEF Inv

\* What the pull left is removed.
LEMMA CancelCleanInv == ASSUME Inv, NEW t \in Task, CancelClean(t) PROVE Inv'
<1> DEFINE m == proc[t].model
<1>1. /\ t \in Actor /\ t \notin Model /\ m \in Model /\ proc[t].op # "delete"
      /\ proc[t].at = "clean" /\ pid' = Nobody /\ named' = Nobody /\ pulling' = FALSE
      /\ disturbed' = disturbed \cup Working
      /\ UNCHANGED <<installed, chat, legacy, worker, last, logged, calls, crashes, noted,
                     misread>>
      /\ UNCHANGED faults \/ (faults < MaxFaults /\ faults' = faults + 1)
  BY Standing, Distinct DEF CancelClean, Fits, deployments
<1>2. PICK p \in {"done", "failed"} : Go(t, At(t, p))
  BY DEF CancelClean
<1>3. /\ result' \in [Model -> {"none", "ok", "failed", "cancelled", "unclean"}]
      /\ \A x \in Model : result'[x] = "ok" => result[x] = "ok"
  <2>1. result \in [Model -> {"none", "ok", "failed", "cancelled", "unclean"}]
    BY DEF Inv, TypeOK
  <2>2. \/ result' = [result EXCEPT ![m] = IF @ = "ok" THEN @ ELSE "cancelled"]
        \/ result' = [result EXCEPT ![m] = "unclean"]
    BY DEF CancelClean
  <2>3. CASE result' = [result EXCEPT ![m] = "unclean"]
    BY <1>1, <2>1, <2>3
  <2>4. CASE result' = [result EXCEPT ![m] = IF @ = "ok" THEN @ ELSE "cancelled"]
    <3>1. CASE result[m] = "ok"
      <4>1. result' = [result EXCEPT ![m] = "ok"]
        BY <2>4, <3>1
      <4> QED BY <1>1, <2>1, <3>1, <4>1
    <3>2. CASE result[m] # "ok"
      <4>1. result' = [result EXCEPT ![m] = "cancelled"]
        BY <2>4, <3>2
      <4> QED BY <1>1, <2>1, <4>1
    <3> QED BY <3>1, <3>2
  <2> QED BY <2>2, <2>3, <2>4
<1> DEFINE q == At(t, p)
<1>4. q \in Record /\ q.at = p /\ q.op = proc[t].op /\ q.model = m
  BY <1>1, AtRecord DEF Place
<1>5. Go(t, q)
  BY <1>2
<1> HIDE DEF q
<1>6. disturbed \subseteq disturbed' /\ disturbed' \subseteq Model
  BY <1>1 DEF Inv, TypeOK, Working
<1>7. Goes(t, q) /\ Heeds(t, q)
  BY <1>1, <1>4, <1>5, <1>6, Moves
<1>8. \A x \in Model : Due(x, worker', result', disturbed', noted' \cup misread')
                          => Due(x, worker, result, disturbed, noted \cup misread)
  BY <1>1, <1>3 DEF Due
<1>9. /\ Actors' /\ Locked' /\ GoneForGood' /\ Watched'
      /\ proc' \in [Actor -> Record] /\ lock' \in [Model -> Actor \cup {Nobody}]
      /\ gone' \subseteq Model
  BY <1>1, <1>6, <1>7, <1>8, SameKeeps, GoParts
<1>10. Sole'
  BY <1>1 DEF Inv, Sole, Working
<1>11. TypeOK'
  <2>1. faults' \in 0..MaxFaults
    BY <1>1, FaultsCounted DEF Inv
  <2> QED BY <1>1, <1>3, <1>6, <1>9, <2>1 DEF Inv, TypeOK, Record
<1> QED BY <1>9, <1>10, <1>11 DEF Inv

\* The worker goes on or ends.
LEMMA WorkerInv == ASSUME Inv, NEW m \in Model, Worker(m) PROVE Inv'
<1>1. UNCHANGED <<chat, legacy, lock, proc, calls, faults, crashes, noted, misread>>
  BY DEF Worker, deployments
<1>2. /\ worker \in [Model -> {"none", "spawned", "starting", "running", "complete"}]
      /\ result \in [Model -> {"none", "ok", "failed", "cancelled", "unclean"}]
      /\ {pid, named, last} \subseteq Model \cup {Nobody} /\ disturbed \subseteq Model
      /\ logged \subseteq Model /\ installed \subseteq Model /\ gone \subseteq Model
      /\ pulling \in BOOLEAN
  BY DEF Inv, TypeOK
<1>3. worker[m] # "none"
  BY DEF Worker, WorkerStarts, WorkerNames, WorkerInstalls, WorkerEnds
<1>4. /\ disturbed \subseteq disturbed' /\ disturbed' \subseteq Model
      /\ gone' \subseteq gone /\ \A x \in gone' : x \notin installed'
      /\ installed' \subseteq Model /\ logged' \subseteq Model
      /\ pulling' \in BOOLEAN /\ {pid', named'} \subseteq Model \cup {Nobody} /\ last' = last
      /\ worker' \in [Model -> {"none", "spawned", "starting", "running", "complete"}]
      /\ result' \in [Model -> {"none", "ok", "failed", "cancelled", "unclean"}]
      /\ \A x \in Model : x # m => worker'[x] = worker[x] /\ result'[x] = result[x]
  <2>1. gone \cap installed = {}
    BY DEF Inv, GoneForGood
  <2>2. CASE WorkerStarts(m)
    BY <1>2, <2>1, <2>2 DEF WorkerStarts
  <2>5. CASE WorkerNames(m)
    BY <1>2, <2>1, <2>5 DEF WorkerNames
  <2>3. CASE WorkerInstalls(m)
    BY <1>2, <2>1, <2>3 DEF WorkerInstalls
  <2>4. CASE WorkerEnds(m)
    <3>1. \E r \in {"ok", "failed"} : result' = [result EXCEPT ![m] = r]
      BY <2>4 DEF WorkerEnds
    <3> QED BY <1>2, <2>1, <2>4, <3>1 DEF WorkerEnds, Others, Working
  <2> QED BY <2>2, <2>3, <2>4, <2>5 DEF Worker
<1>5. Actors'
  BY <1>1, <1>4, Distinct DEF Inv, Actors, Fits
<1>6. Locked' /\ GoneForGood'
  BY <1>1, <1>4 DEF Inv, Locked, GoneForGood
<1>7. Watched'
  <2>1. \A x \in Model : Due(x, worker', result', disturbed', noted' \cup misread')
                            => Due(x, worker, result, disturbed, noted \cup misread)
    BY <1>1, <1>3, <1>4 DEF Due
  <2> QED BY <1>1, <2>1 DEF Inv, Watched
<1>8. Sole'
  <2> SUFFICES ASSUME NEW x \in Model \ disturbed', worker'[x] # "none"
               PROVE  /\ pulling' /\ result'[x] = "none"
                      /\ \A w \in Model \ {x} : worker'[w] = "none"
    BY DEF Sole
  <2>1. CASE WorkerEnds(m)
    <3>1. worker'[m] = "none" /\ disturbed' = disturbed \cup Others(m)
      BY <1>2, <2>1 DEF WorkerEnds
    <3> QED BY <1>4, <3>1 DEF Others, Working
  <2>2. CASE WorkerStarts(m) \/ WorkerNames(m) \/ WorkerInstalls(m)
    <3>1. x \notin disturbed /\ UNCHANGED <<pulling, result>>
      BY <1>4, <2>2 DEF WorkerStarts, WorkerNames, WorkerInstalls
    <3>2. worker[x] # "none"
      BY <1>3, <1>4
    <3>3. pulling /\ result[x] = "none" /\ \A w \in Model \ {x} : worker[w] = "none"
      BY <3>1, <3>2 DEF Inv, Sole
    <3>4. x = m
      BY <1>3, <3>3
    <3> QED BY <1>4, <3>1, <3>3, <3>4
  <2> QED BY <2>1, <2>2 DEF Worker
<1>9. TypeOK'
  BY <1>1, <1>2, <1>4 DEF Inv, TypeOK
<1> QED BY <1>5, <1>6, <1>7, <1>8, <1>9 DEF Inv

\* A restart loses the watchers, and every model is noted.
LEMMA CrashInv == ASSUME Inv, Crash PROVE Inv'
<1>1. /\ crashes < MaxCrashes /\ crashes' = crashes + 1
      /\ proc' = [a \in Actor |-> Idle]
      /\ lock' = [m \in Model |-> Nobody]
      /\ worker' = [m \in Model |-> "none"]
      /\ noted' = Model
      /\ UNCHANGED <<installed, chat, legacy, pulling, pid, named, last, result, logged, calls,
                     faults, gone, misread, disturbed>>
  BY DEF Crash, deployments
<1>2. \A a \in Actor : proc'[a] = Idle
  BY <1>1
<1>3. Actors'
  BY <1>1, <1>2, IdleRecord DEF Actors
<1>4. Locked'
  BY <1>2, IdleRecord DEF Locked
<1>5. GoneForGood'
  BY <1>1, <1>2, IdleRecord DEF Inv, GoneForGood
<1>6. Sole'
  BY <1>1 DEF Inv, TypeOK, Sole
<1>7. Watched'
  BY <1>1 DEF Watched, Due
<1>8. TypeOK'
  <2>1. crashes' \in 0..MaxCrashes
    BY <1>1, ConstantsAssumption DEF Inv, TypeOK
  <2>2. proc' \in [Actor -> Record]
    BY <1>1, IdleRecord
  <2>3. /\ lock' \in [Model -> Actor \cup {Nobody}]
        /\ worker' \in [Model -> {"none", "spawned", "starting", "running", "complete"}]
        /\ noted' \subseteq Model
    BY <1>1
  <2> QED BY <1>1, <2>1, <2>2, <2>3 DEF Inv, TypeOK, Record
<1> QED BY <1>3, <1>4, <1>5, <1>6, <1>7, <1>8 DEF Inv

\* The invariant holds at first.
LEMMA InitInv == Init => Inv
<1> SUFFICES ASSUME Init PROVE Inv
  OBVIOUS
<1>1. \A a \in Actor : proc[a] = Idle
  BY DEF Init
<1>2. Actors
  BY <1>1, IdleRecord DEF Actors
<1>3. Locked /\ GoneForGood
  BY <1>1, IdleRecord DEF Init, Locked, GoneForGood
<1>4. Sole
  BY DEF Init, Sole
<1>5. Watched
  BY DEF Init, Watched, Due
<1>6. TypeOK
  <2>1. proc \in [Actor -> Record]
    BY IdleRecord DEF Init
  <2>2. 0 \in 0..MaxCalls /\ 0 \in 0..MaxFaults /\ 0 \in 0..MaxCrashes
    BY ConstantsAssumption
  <2>3. /\ installed \subseteq Model /\ legacy \subseteq Model
        /\ chat \in [Model -> 0..1] /\ lock \in [Model -> Actor \cup {Nobody}]
        /\ worker \in [Model -> {"none", "spawned", "starting", "running", "complete"}]
        /\ result \in [Model -> {"none", "ok", "failed", "cancelled", "unclean"}]
    BY DEF Init
  <2>4. /\ pulling \in BOOLEAN /\ {pid, named, last} \subseteq Model \cup {Nobody}
        /\ logged \subseteq Model /\ gone \cup noted \cup misread \cup disturbed \subseteq Model
        /\ calls = 0 /\ faults = 0 /\ crashes = 0
    BY DEF Init
  <2> QED BY <2>1, <2>2, <2>3, <2>4 DEF TypeOK, Record
<1> QED BY <1>2, <1>3, <1>4, <1>5, <1>6 DEF Inv

\* It holds on when nothing happens.
LEMMA StutterInv == ASSUME Inv, UNCHANGED vars PROVE Inv'
<1>1. UNCHANGED <<installed, chat, legacy, lock, proc, worker, pulling, pid, named, last, result,
                  logged, calls, faults, crashes, gone, noted, misread, disturbed>>
  BY DEF vars, deployments, script, history
<1>2. TypeOK'
  BY <1>1 DEF Inv, TypeOK
<1>3. Actors' /\ Locked' /\ GoneForGood'
  BY <1>1 DEF Inv, Actors, Locked, GoneForGood
<1>4. Sole' /\ Watched'
  BY <1>1 DEF Inv, Sole, Watched
<1> QED BY <1>2, <1>3, <1>4 DEF Inv

\* Every step keeps the invariant.
LEMMA NextInv == ASSUME Inv, [Next]_vars PROVE Inv'
<1>1. ASSUME NEW a \in Actor, RegisterLlmModel(a) \/ UnregisterLlmModel(a) \/ Return(a)
      PROVE  Inv'
  BY <1>1, LockModelInv, HasModelInv, ShowInv, ModelInfoInv, NewModelInv, VerifyNewInv,
     DropLegacyInv, FindInv, RemoveInv, ReturnInv DEF RegisterLlmModel, UnregisterLlmModel
<1>2. ASSUME NEW t \in Task,
             \/ BeginModelRequest(t)
             \/ CheckInstalled(t) \/ ModelNames(t) \/ Tags(t) \/ Erase(t)
             \/ PullLooks(t) \/ PullSweeps(t) \/ Pull(t) \/ PullStarted(t)
             \/ Cancel(t) \/ CancelClean(t) \/ PullStatus(t)
      PROVE  Inv'
  BY <1>2, BeginModelRequestInv, CheckInstalledInv, ModelNamesInv, TagsInv, EraseInv,
     PullLooksInv, PullSweepsInv, PullInv, PullStartedInv, CancelInv, CancelCleanInv, PullStatusInv
<1>3. ASSUME NEW m \in Model, Worker(m) \/ PollName(m) \/ Poll(m) PROVE Inv'
  BY <1>3, WorkerInv, PollNameInv, PollInv
<1>4. CASE Crash
  BY <1>4, CrashInv
<1>5. CASE UNCHANGED vars
  BY <1>5, StutterInv
<1> QED BY <1>1, <1>2, <1>3, <1>4, <1>5 DEF Next

\* The invariant holds in every behaviour.
THEOREM Invariance == Spec => []Inv
BY InitInv, NextInv, PTL DEF Spec

\* Every record, lock, deployment, worker and counter has its type
\* (llm_model_usecase.py and hpc-ollama).
THEOREM TypeCorrect == Spec => []TypeOK
<1>1. Inv => TypeOK
  BY DEF Inv
<1> QED BY <1>1, Invariance, PTL

\* A model a deletion removed is not offered again by anybody who had looked before,
\* a watcher, a repeated pull or a synchronisation (llm_model_usecase.py).
THEOREM GoneStaysGone == Spec => []GoneIsUnregistered
<1>1. Inv => GoneIsUnregistered
  BY DEF Inv, GoneForGood, GoneIsUnregistered, Deployed, Count
<1> QED BY <1>1, Invariance, PTL

\* A model that was pulled is registered, or somebody is still about to register it,
\* unless its watcher noted a failure, was lost or saw the worker before its model's name
\* was there, or another call interfered (llm_model_management_usecase.py, hpc-ollama).
THEOREM PulledIsCaredFor == Spec => []PulledIsWatched
<1>1. Inv => PulledIsWatched
  <2> SUFFICES ASSUME Inv, NEW m \in Model \ (noted \cup misread \cup disturbed), result[m] = "ok",
                      m \in installed
               PROVE  Count(m) > 0 \/ Awaited(m)
    BY DEF PulledIsWatched
  <2>1. Cared(m, proc, chat, legacy)
    BY DEF Inv, Watched, Due
  <2>2. CASE chat[m] # 0 \/ m \in legacy
    <3>1. chat[m] \in 0..1
      BY DEF Inv, TypeOK
    <3> QED BY <2>2, <3>1 DEF Count
  <2>3. CASE \E t \in Task : proc[t].at = "started" /\ proc[t].model = m
    BY <2>3, Distinct DEF Awaited
  <2>4. CASE proc[m].at \in Watching
    <3>1. m \in Actor /\ proc[m].at # "idle"
      BY <2>4, Distinct DEF Watching, Registering
    <3>2. proc[m].model = m
      BY <3>1, Standing
    <3> QED BY <3>1, <3>2 DEF Awaited
  <2> QED BY <2>1, <2>2, <2>3, <2>4 DEF Cared
<1> QED BY <1>1, Invariance, PTL

==============================================================================
