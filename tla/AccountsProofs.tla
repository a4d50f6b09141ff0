--------------------------- MODULE AccountsProofs ---------------------------
(***************************************************************************)
(* Proofs about Accounts, for any number of names, tokens, calls and       *)
(* failures.                                                               *)
(*                                                                         *)
(* The line for the SSH lock holds every call that has it or waits for it, *)
(* once, and only its first can have it (QueueOK).  So what a call has     *)
(* read of a record under the lock stays true until it goes on (Knows):    *)
(* all other calls are at places where nothing is known (Alone).  A step   *)
(* is then either under the lock (Locked, Wrote, Stepped) or beside it     *)
(* (Beside, Leaves), and has only to say what it does to its own name.     *)
(*                                                                         *)
(* That a complete deletion leaves nothing behind rests on what a deletion *)
(* that removed the account knows at its later places (Leaving): without   *)
(* an account no record and no external API of the name come back, and a   *)
(* key that is generated is not one that was generated for an account      *)
(* (Keyed).                                                                *)
(***************************************************************************)
EXTENDS Accounts, TLAPS

\* Places of a call in the line for the lock.
Lined == Waiting \cup Holding

\* Places at which a record is worked on.
Working == {"post", "rotate", "allow", "begin", "remove", "policy"}

\* The line is of the calls that hold the lock or wait for it, each once, and
\* only the first can hold it.
QueueOK ==
    /\ \A p \in Proc : call[p].at \in Lined <=> \E i \in 1..Len(queue) : queue[i] = p
    /\ \A i, j \in 1..Len(queue) : queue[i] = queue[j] => i = j
    /\ \A p \in Proc : call[p].at \in Holding => queue[1] = p

\* What a call knows of its name, wherever it is.
Placed(c) ==
    /\ c.at \notin {"idle", "wait", "users", "next", "last"} => c.name \in Name
    /\ c.at = "wait" /\ c.op # "sync" => c.name \in Name
    /\ c.at \in {"users", "next", "last"} => c.op = "sync"
    /\ c.at \in {"begin", "allow"} => c.op # "sync"
    /\ c.op # "sync" => c.todo = {}
    /\ c.op = "sync" /\ c.at \notin Working => c.name = None

\* What the holder of the lock knows of the records.
Knows(c) ==
    /\ c.at \in Working => rec[c.name] # None
    /\ c.at \in Working \cup {"next"} => \A n \in c.todo : n # c.name /\ rec[n] # None
    /\ c.at = "post" => rec[c.name].token = None /\ rec[c.name].state = "issuing"
    /\ c.at = "rotate" => rec[c.name].token # None /\ rec[c.name].state = "rotating"
    /\ c.at = "remove" => rec[c.name].token # None /\ rec[c.name].state = "revoking"
    /\ c.at = "policy" =>
         \/ rec[c.name].state = "issuing" /\ rec[c.name].token # None
         \/ /\ rec[c.name].state = "revoking"
            /\ rec[c.name].token = None \/ token[rec[c.name].token] = Gone

CallsOK == \A p \in Proc : Placed(call[p]) /\ Knows(call[p])

\* The state of a record tells whether it has a token.
Sound(r) ==
    /\ r.state \in {"unissued", "disabled"} => r.token = None
    /\ r.state \in {"ready", "rotating"} => r.token # None

RecordsOK == \A n \in Name : rec[n] # None => Sound(rec[n])

TokensOK == TokensOnRecord /\ \A k \in told : token[k] # None

\* A key that was generated when there was an account of the name is accepted.
Keyed(n) == <<n, TRUE>> \in llm

\* A deletion that removed the account finds the name as it left it, as long as
\* removed tells so.
Leaving(p) ==
    LET n == call[p].name
    IN  call[p].at \in {"records", "forget", "revokeKey"} /\ removed[n] = p =>
          /\ account[n] = None
          /\ call[p].at # "records" => api[n] = "none"
          /\ call[p].at = "revokeKey" => rec[n] = None

RemovedOK ==
    /\ \A n \in Name : removed[n] = Gone =>
          account[n] = None /\ rec[n] = None /\ api[n] = "none" /\ ~Keyed(n)
    /\ \A p \in Proc : Leaving(p)

\* The inductive invariant.
Inv == TypeOK /\ QueueOK /\ CallsOK /\ RecordsOK /\ TokensOK /\ RemovedOK
-----------------------------------------------------------------------------
\* Whose turn it is.
Turn(p) == call[p].at \in Lined /\ queue # <<>> /\ Head(queue) = p

\* Who holds the lock, or is let in, stands first.
LEMMA Front ==
  ASSUME Inv, NEW p \in Proc, call[p].at \in Lined,
         call[p].at \in Holding \/ Head(queue) = p
  PROVE  Turn(p)
  <1>1. queue \in Seq(Proc) /\ \E i \in 1..Len(queue) : queue[i] = p
    BY DEF Inv, TypeOK, QueueOK
  <1>2. queue # <<>> /\ Head(queue) = queue[1]
    BY <1>1
  <1>3. call[p].at \in Holding => queue[1] = p
    BY DEF Inv, QueueOK
  <1> QED
    BY <1>2, <1>3 DEF Turn

\* Nobody else holds the lock.
LEMMA Alone ==
  ASSUME Inv, NEW p \in Proc, Turn(p), NEW q \in Proc, q # p
  PROVE  call[q].at \notin Holding
  <1>1. queue \in Seq(Proc) /\ queue # <<>> /\ Head(queue) = p
    BY DEF Turn, Inv, TypeOK
  <1>2. queue[1] = p
    BY <1>1
  <1> QED
    BY <1>2 DEF Inv, QueueOK

\* How the line changes with a call that goes on: its first leaves it or stays
\* first, and one that was not in it stands last.
LEMMA Queued ==
  ASSUME Inv, NEW p \in Proc, NEW c \in Calls, Go(p, c),
         call[p].at \in Lined => Turn(p) /\ c.at \notin Waiting,
         call[p].at \notin Lined => c.at \notin Holding
  PROVE  queue' \in Seq(Proc) /\ QueueOK'
  <1>1. /\ call \in [Proc -> Calls] /\ queue \in Seq(Proc) /\ Len(queue) \in Nat
        /\ \A q \in Proc : call[q].at \in Lined <=> \E i \in 1..Len(queue) : queue[i] = q
        /\ \A i, j \in 1..Len(queue) : queue[i] = queue[j] => i = j
        /\ \A q \in Proc : call[q].at \in Holding => queue[1] = q
    BY DEF Inv, TypeOK, QueueOK
  <1>2. /\ \A q \in Proc : call'[q].at = IF q = p THEN c.at ELSE call[q].at
        /\ call'[p] = c
    BY <1>1 DEF Go
  <1>3. CASE call[p].at \notin Lined /\ c.at \notin Lined
    <2>1. queue' = queue
      BY <1>3 DEF Go, Lined
    <2>2. \A q \in Proc : call'[q].at \in Lined <=> call[q].at \in Lined
      BY <1>2, <1>3
    <2>3. \A q \in Proc : call'[q].at \in Holding => call[q].at \in Holding
      BY <1>2, <1>3 DEF Lined
    <2> QED
      BY <1>1, <2>1, <2>2, <2>3 DEF QueueOK
  <1>4. CASE call[p].at \in Lined /\ c.at \in Holding
    <2>1. queue' = queue
      BY <1>4 DEF Go
    <2>2. \A q \in Proc : call'[q].at \in Lined <=> call[q].at \in Lined
      BY <1>2, <1>4 DEF Lined
    <2>3. queue[1] = p
      BY <1>1, <1>4 DEF Turn
    <2>4. \A q \in Proc : call'[q].at \in Holding => queue[1] = q
      BY <1>1, <1>2, <2>3
    <2> QED
      BY <1>1, <2>1, <2>2, <2>4 DEF QueueOK
  <1>5. CASE call[p].at \notin Lined /\ c.at \in Waiting
    <2>1. queue' = Append(queue, p) /\ c.at \notin Holding
      BY <1>5 DEF Go, Lined, Waiting, Holding
    <2>2. /\ queue' \in Seq(Proc) /\ Len(queue') = Len(queue) + 1
          /\ \A i \in 1..Len(queue) : queue'[i] = queue[i]
          /\ queue'[Len(queue) + 1] = p
      BY <1>1, <2>1
    <2>3. \A i \in 1..Len(queue) : queue[i] # p
      BY <1>1, <1>5
    <2>4. \A i, j \in 1..Len(queue') : queue'[i] = queue'[j] => i = j
      <3> SUFFICES ASSUME NEW i \in 1..Len(queue'), NEW j \in 1..Len(queue'),
                          queue'[i] = queue'[j]
                   PROVE  i = j
        OBVIOUS
      <3>1. i \in 1..Len(queue) \/ i = Len(queue) + 1
        BY <1>1, <2>2
      <3>2. j \in 1..Len(queue) \/ j = Len(queue) + 1
        BY <1>1, <2>2
      <3> QED
        BY <1>1, <2>2, <2>3, <3>1, <3>2
    <2>5. ASSUME NEW q \in Proc
          PROVE  call'[q].at \in Lined <=> \E i \in 1..Len(queue') : queue'[i] = q
      <3>1. CASE q = p
        <4>1. Len(queue) + 1 \in 1..Len(queue')
          BY <1>1, <2>2
        <4> QED
          BY <1>2, <1>5, <2>2, <3>1, <4>1 DEF Lined
      <3>2. CASE q # p
        <4>1. \A i \in 1..Len(queue') : i \in 1..Len(queue) \/ i = Len(queue) + 1
          BY <1>1, <2>2
        <4>2. \A i \in 1..Len(queue) : i \in 1..Len(queue')
          BY <1>1, <2>2
        <4>3. (\E i \in 1..Len(queue') : queue'[i] = q) <=> (\E i \in 1..Len(queue) : queue[i] = q)
          BY <2>2, <3>2, <4>1, <4>2
        <4> QED
          BY <1>1, <1>2, <3>2, <4>3
      <3> QED
        BY <3>1, <3>2
    <2>6. ASSUME NEW q \in Proc, call'[q].at \in Holding PROVE queue'[1] = q
      <3>1. q # p /\ call[q].at \in Holding
        BY <1>2, <2>1, <2>6
      <3>2. queue[1] = q /\ 1 \in 1..Len(queue)
        <4>1. PICK i \in 1..Len(queue) : queue[i] = q
          BY <1>1, <3>1 DEF Lined
        <4>2. 1 \in 1..Len(queue)
          BY <1>1, <4>1
        <4> QED
          BY <1>1, <3>1, <4>2
      <3> QED
        BY <2>2, <3>2
    <2> QED
      BY <2>2, <2>4, <2>5, <2>6 DEF QueueOK
  <1>6. CASE call[p].at \in Lined /\ c.at \notin Lined
    <2>1. queue' = Tail(queue) /\ queue # <<>> /\ Head(queue) = p
      BY <1>6 DEF Go, Lined, Turn
    <2>2. /\ queue' \in Seq(Proc) /\ Len(queue') = Len(queue) - 1 /\ Len(queue) > 0
          /\ queue[1] = p
          /\ \A i \in 1..Len(queue') : i + 1 \in 1..Len(queue) /\ queue'[i] = queue[i + 1]
      BY <1>1, <2>1
    <2>3. \A i, j \in 1..Len(queue') : queue'[i] = queue'[j] => i = j
      <3> SUFFICES ASSUME NEW i \in 1..Len(queue'), NEW j \in 1..Len(queue'),
                          queue'[i] = queue'[j]
                   PROVE  i = j
        OBVIOUS
      <3>1. queue[i + 1] = queue[j + 1] /\ i + 1 \in 1..Len(queue) /\ j + 1 \in 1..Len(queue)
        BY <2>2
      <3>2. i + 1 = j + 1
        BY <1>1, <3>1
      <3> QED
        BY <3>2
    <2>4. ASSUME NEW q \in Proc
          PROVE  call'[q].at \in Lined <=> \E i \in 1..Len(queue') : queue'[i] = q
      <3>1. CASE q = p
        <4>1. 1 \in 1..Len(queue)
          BY <1>1, <2>2
        <4>2. ASSUME NEW i \in 1..Len(queue'), queue'[i] = p PROVE FALSE
          <5>1. queue[i + 1] = queue[1] /\ i + 1 \in 1..Len(queue)
            BY <2>2, <4>2
          <5>2. i + 1 = 1
            BY <1>1, <4>1, <5>1
          <5> QED
            BY <5>2
        <4> QED
          BY <1>2, <1>6, <3>1, <4>2
      <3>2. CASE q # p
        <4>1. ASSUME NEW j \in 1..Len(queue), queue[j] = q
              PROVE  \E i \in 1..Len(queue') : queue'[i] = q
          <5>1. j # 1
            BY <2>2, <3>2, <4>1
          <5>2. j - 1 \in 1..Len(queue')
            BY <1>1, <2>2, <5>1
          <5>3. queue'[j - 1] = q
            <6>1. queue'[j - 1] = queue[(j - 1) + 1] /\ (j - 1) + 1 = j
              BY <2>2, <5>2
            <6> QED
              BY <4>1, <6>1
          <5> QED
            BY <5>2, <5>3
        <4>2. (\E i \in 1..Len(queue') : queue'[i] = q) <=> (\E i \in 1..Len(queue) : queue[i] = q)
          BY <2>2, <4>1
        <4> QED
          BY <1>1, <1>2, <3>2, <4>2
      <3> QED
        BY <3>1, <3>2
    <2>5. \A q \in Proc : call'[q].at \notin Holding
      <3>1. \A q \in Proc : q # p => call[q].at \notin Holding
        BY <1>1, <2>2
      <3> QED
        BY <1>2, <1>6, <3>1 DEF Lined
    <2> QED
      BY <2>2, <2>3, <2>4, <2>5 DEF QueueOK
  <1>7. \/ call[p].at \notin Lined /\ c.at \notin Lined
        \/ call[p].at \in Lined /\ c.at \in Holding
        \/ call[p].at \notin Lined /\ c.at \in Waiting
        \/ call[p].at \in Lined /\ c.at \notin Lined
    BY DEF Lined
  <1> QED
    BY <1>1, <1>3, <1>4, <1>5, <1>6, <1>7

-----------------------------------------------------------------------------
\* What the invariant says of one call and of the constants.
LEMMA Here ==
  ASSUME Inv, NEW p \in Proc
  PROVE  /\ call[p] \in Calls /\ Placed(call[p]) /\ Knows(call[p]) /\ Leaving(p)
         /\ None \notin Name \cup Id \cup Token \cup Proc
         /\ None \notin Records /\ None \notin Name \X Id
         /\ Gone \notin Proc \cup {None} /\ Gone \notin Name \X Id
  BY ConstantsAssumption DEF Inv, TypeOK, CallsOK, RemovedOK

\* What it says of one name.
LEMMA There ==
  ASSUME Inv, NEW n \in Name
  PROVE  /\ rec[n] \in Records \cup {None} /\ (rec[n] # None => Sound(rec[n]) /\ rec[n] \in Records)
         /\ account[n] \in Id \cup {None} /\ api[n] \in {"none", "usable", "shut"}
         /\ removed[n] \in Proc \cup {None, Gone}
         /\ removed[n] = Gone => /\ account[n] = None /\ rec[n] = None
                                 /\ api[n] = "none" /\ ~Keyed(n)
  BY DEF Inv, TypeOK, RecordsOK, RemovedOK

\* The parts of the invariant that are about the calls, after a call went on.
LEMMA Kept ==
  ASSUME Inv, NEW p \in Proc, NEW c \in Calls, Go(p, c),
         call[p].at \in Lined => Turn(p) /\ c.at \notin Waiting,
         call[p].at \notin Lined => c.at \notin Holding,
         call[p].at \in Lined \/ UNCHANGED <<rec, token>>,
         Placed(c), Knows(c)'
  PROVE  /\ call' \in [Proc -> Calls] /\ queue' \in Seq(Proc)
         /\ (\A q \in Proc : call[q].at \in Holding => queue # <<>> /\ q = Head(queue))'
         /\ QueueOK' /\ CallsOK'
  <1>1. call \in [Proc -> Calls] /\ \A q \in Proc : Placed(call[q]) /\ Knows(call[q])
    BY DEF Inv, TypeOK, CallsOK
  <1>2. call' = [call EXCEPT ![p] = c]
    BY DEF Go
  <1>3. call' \in [Proc -> Calls] /\ call'[p] = c /\ \A q \in Proc \ {p} : call'[q] = call[q]
    BY <1>1, <1>2
  <1>4. queue' \in Seq(Proc) /\ QueueOK'
    BY Queued
  <1>5. ASSUME NEW q \in Proc PROVE (Placed(call[q]) /\ Knows(call[q]))'
    <2>1. CASE q = p
      BY <1>3, <2>1 DEF Placed, Knows
    <2>2. CASE q # p /\ UNCHANGED <<rec, token>>
      BY <1>1, <1>3, <2>2 DEF Placed, Knows
    <2>3. CASE q # p /\ call[p].at \in Lined
      <3>1. call'[q] = call[q] /\ call[q].at \notin Holding
        BY <1>3, <2>3, Alone
      <3> QED
        BY <1>1, <3>1 DEF Placed, Knows, Working, Holding
    <2> QED
      BY <2>1, <2>2, <2>3
  <1>6. ASSUME NEW q \in Proc, call'[q].at \in Holding PROVE queue' # <<>> /\ q = Head(queue')
    <2>1. \E i \in 1..Len(queue') : queue'[i] = q
      BY <1>4, <1>6 DEF QueueOK, Lined
    <2>2. queue'[1] = q
      BY <1>4, <1>6 DEF QueueOK
    <2> QED
      BY <1>4, <2>1, <2>2
  <1> QED
    BY <1>3, <1>4, <1>5, <1>6 DEF CallsOK

\* Deletions of one name.
LeftAs(n) == \A q \in Proc : call[q].name = n => Leaving(q)

\* The part about deletions, after one call went on and one name changed.
LEMMA Remains ==
  ASSUME Inv, NEW p \in Proc, NEW c \in Calls, call' = [call EXCEPT ![p] = c], NEW n \in Name,
         \A m \in Name \ {n} : /\ account'[m] = account[m] /\ api'[m] = api[m]
                               /\ rec'[m] = rec[m] /\ removed'[m] = removed[m]
                               /\ Keyed(m)' => Keyed(m),
         c.at \in {"provision", "key", "records", "forget", "revokeKey"} => c.name = n,
         removed'[n] = Gone => /\ account'[n] = None /\ rec'[n] = None
                               /\ api'[n] = "none" /\ ~Keyed(n)',
         LeftAs(n)'
  PROVE  RemovedOK'
  <1>1. /\ call \in [Proc -> Calls] /\ \A q \in Proc : Placed(call[q]) /\ Leaving(q)
        /\ call'[p] = c /\ \A q \in Proc \ {p} : call'[q] = call[q]
    BY DEF Inv, TypeOK, CallsOK, RemovedOK
  <1>3. ASSUME NEW m \in Name, removed'[m] = Gone
        PROVE  account'[m] = None /\ rec'[m] = None /\ api'[m] = "none" /\ ~Keyed(m)'
    BY <1>3, There
  <1>4. ASSUME NEW q \in Proc PROVE Leaving(q)'
    <2>1. CASE call'[q].name # n /\ q = p
      BY <1>1, <2>1 DEF Leaving
    <2>3. CASE call'[q].name = n
      BY <2>3 DEF LeftAs
    <2>2. CASE call'[q].name # n /\ q # p
      <3>1. call'[q] = call[q] /\ Leaving(q) /\ Placed(call[q])
        BY <1>1, <2>2
      <3>2. CASE call[q].at \in {"records", "forget", "revokeKey"}
        <4>1. call[q].name \in Name \ {n}
          BY <2>2, <3>1, <3>2 DEF Placed
        <4> QED
          BY <3>1, <4>1 DEF Leaving
      <3> QED
        BY <3>1, <3>2 DEF Leaving
    <2> QED
      BY <2>1, <2>2, <2>3
  <1> QED
    BY <1>3, <1>4 DEF RemovedOK

\* A step under the lock.
LEMMA Locked ==
  ASSUME Inv, NEW p \in Proc, Turn(p), NEW c \in Calls, Go(p, c), c.at \notin Waiting,
         Placed(c), Knows(c)', UNCHANGED <<others, removed, calls>>, faults' \in 0..MaxFaults,
         rec' \in [Name -> Records \cup {None}],
         \A n \in Name : rec[n] = None /\ account[n] = None => rec'[n] = None,
         c.at \notin {"provision", "key", "records"},
         c.at = "revokeKey" => /\ call[p].at = "forget" /\ c.name = call[p].name
                               /\ rec'[c.name] = None,
         token' \in [Token -> (Name \X Id) \cup {None, Gone}], policy' \subseteq Token,
         told' \subseteq Token, RecordsOK', TokensOK'
  PROVE  Inv'
  <1>1. /\ call' \in [Proc -> Calls] /\ queue' \in Seq(Proc)
        /\ (\A q \in Proc : call[q].at \in Holding => queue # <<>> /\ q = Head(queue))'
        /\ QueueOK' /\ CallsOK'
    BY Kept DEF Turn
  <1>2. TypeOK'
    BY <1>1 DEF Inv, TypeOK, others
  <1>3. /\ call'[p] = c /\ \A q \in Proc \ {p} : call'[q] = call[q]
    BY DEF Inv, TypeOK, Go
  <1>4. account' = account /\ api' = api /\ llm' = llm /\ removed' = removed
    BY DEF others
  <1>6. ASSUME NEW q \in Proc PROVE Leaving(q)'
    <2>1. CASE q = p
      <3>1. CASE c.at = "revokeKey"
        BY <1>3, <1>4, <2>1, <3>1, Here DEF Leaving
      <3>2. CASE c.at # "revokeKey"
        BY <1>3, <2>1, <3>2 DEF Leaving, Waiting
      <3> QED
        BY <3>1, <3>2
    <2>2. CASE q # p
      <3>1. call'[q] = call[q] /\ Leaving(q) /\ Placed(call[q])
        BY <1>3, <2>2, Here
      <3>2. CASE call[q].at \in {"records", "forget", "revokeKey"}
        <4>1. call[q].name \in Name
          BY <3>1, <3>2 DEF Placed
        <4> QED
          BY <1>4, <3>1, <4>1 DEF Leaving
      <3> QED
        BY <3>1, <3>2 DEF Leaving
    <2> QED
      BY <2>1, <2>2
  <1>7. RemovedOK'
    BY <1>4, <1>6, There DEF RemovedOK, Keyed
  <1> QED
    BY <1>1, <1>2, <1>7 DEF Inv

\* A step beside the lock.
LEMMA Beside ==
  ASSUME Inv, NEW p \in Proc, call[p].at \notin Lined, NEW c \in Calls, Go(p, c),
         c.at \notin Holding, Placed(c), UNCHANGED <<rec, cloudflare>>,
         account' \in [Name -> Id \cup {None}],
         api' \in [Name -> {"none", "usable", "shut"}], llm' \subseteq Name \X BOOLEAN,
         calls' \in 0..MaxCalls, faults' \in 0..MaxFaults,
         removed' \in [Name -> Proc \cup {None, Gone}], RemovedOK'
  PROVE  Inv'
  <1>1. Knows(c)'
    BY DEF Knows, Working, Holding
  <1>2. /\ call' \in [Proc -> Calls] /\ queue' \in Seq(Proc)
        /\ (\A q \in Proc : call[q].at \in Holding => queue # <<>> /\ q = Head(queue))'
        /\ QueueOK' /\ CallsOK'
    BY <1>1, Kept DEF cloudflare
  <1>3. TypeOK'
    BY <1>2 DEF Inv, TypeOK, cloudflare
  <1>4. RecordsOK' /\ TokensOK'
    BY DEF Inv, cloudflare, RecordsOK, TokensOK, TokensOnRecord
  <1> QED
    BY <1>2, <1>3, <1>4 DEF Inv

\* One record is written, or none; a token that is forgotten is removed.
LEMMA Wrote ==
  ASSUME Inv, NEW p \in Proc, Turn(p), NEW c \in Calls, Go(p, c), c.at \notin Waiting,
         Placed(c), Knows(c)', UNCHANGED <<others, removed, calls, token, told>>,
         faults' \in 0..MaxFaults, policy' \subseteq Token,
         NEW n \in Name, NEW r \in Records \cup {None}, rec' = [rec EXCEPT ![n] = r],
         r # None => Sound(r),
         rec[n] = None /\ r # None => account[n] # None,
         rec[n] # None => \/ r # None /\ r.token = rec[n].token
                          \/ rec[n].token = None
                          \/ token[rec[n].token] = Gone,
         c.at \notin {"provision", "key", "records"},
         c.at = "revokeKey" => /\ call[p].at = "forget" /\ c.name = call[p].name
                               /\ c.name = n /\ r = None
  PROVE  Inv'
  <1>1. /\ rec \in [Name -> Records \cup {None}] /\ token' = token /\ told' = told
        /\ token \in [Token -> (Name \X Id) \cup {None, Gone}] /\ told \subseteq Token
        /\ \A m \in Name : rec[m] # None => Sound(rec[m])
        /\ TokensOnRecord /\ \A k \in told : token[k] # None
    BY DEF Inv, TypeOK, RecordsOK, TokensOK
  <1>2. /\ rec' \in [Name -> Records \cup {None}] /\ rec'[n] = r
        /\ \A m \in Name \ {n} : rec'[m] = rec[m]
    BY <1>1
  <1>3. RecordsOK'
    BY <1>1, <1>2 DEF RecordsOK, Sound
  <1>4. ASSUME NEW k \in told, token[k] # Gone
        PROVE  rec'[token[k][1]] # None /\ rec'[token[k][1]].token = k
    <2>1. PICK m \in Name : m = token[k][1]
      BY <1>1, <1>4
    <2>2. rec[m] # None /\ rec[m].token = k /\ k # None
      BY <1>1, <1>4, <2>1, Here DEF TokensOnRecord
    <2>3. CASE m # n
      BY <1>2, <2>1, <2>2, <2>3
    <2>4. CASE m = n
      BY <1>2, <1>4, <2>1, <2>2, <2>4
    <2> QED
      BY <2>3, <2>4
  <1>5. TokensOK'
    BY <1>1, <1>4 DEF TokensOK, TokensOnRecord
  <1>6. \A m \in Name : rec[m] = None /\ account[m] = None => rec'[m] = None
    BY <1>2
  <1>7. c.at = "revokeKey" => rec'[c.name] = None
    BY <1>2
  <1> QED
    BY <1>1, <1>2, <1>3, <1>5, <1>6, <1>7, Locked

\* No record is written.
LEMMA Stepped ==
  ASSUME Inv, NEW p \in Proc, Turn(p), NEW c \in Calls, Go(p, c), c.at \notin Waiting,
         Placed(c), Knows(c), UNCHANGED <<others, removed, calls, rec, token, told>>,
         faults' \in 0..MaxFaults, policy' \subseteq Token,
         c.at \notin {"provision", "key", "records", "revokeKey"}
  PROVE  Inv'
  <1>1. Knows(c)'
    BY DEF Knows
  <1>2. /\ rec' = rec /\ token' = token /\ told' = told
        /\ rec \in [Name -> Records \cup {None}] /\ told \subseteq Token
        /\ token \in [Token -> (Name \X Id) \cup {None, Gone}]
        /\ RecordsOK /\ TokensOK
    BY DEF Inv, TypeOK
  <1>3. RecordsOK' /\ TokensOK'
    BY <1>2 DEF RecordsOK, TokensOK, TokensOnRecord
  <1> QED
    BY <1>1, <1>2, <1>3, Locked

-----------------------------------------------------------------------------
\* The same call somewhere else.
LEMMA AtOK ==
  ASSUME Inv, NEW p \in Proc, NEW place \in Place
  PROVE  LET x == At(p, place)
         IN  /\ x \in Calls /\ x.at = place /\ x.op = call[p].op /\ x.name = call[p].name
             /\ x.todo = call[p].todo /\ x.seen = call[p].seen /\ x.drop = call[p].drop
  BY Here DEF At, Calls

\* A call that ended.
LEMMA NoCallOK ==
  ASSUME Inv
  PROVE  /\ NoCall \in Calls /\ NoCall.at = "idle" /\ NoCall.op = "none" /\ NoCall.todo = {}
         /\ Placed(NoCall) /\ Knows(NoCall)
  BY DEF NoCall, Calls, Place, Placed, Knows, Working, Waiting, Holding, Op, UserOp

\* An exception leaves the place where it was raised to nobody's harm.
LEMMA RaisedOK ==
  ASSUME Inv, NEW p \in Proc, call[p].at \in Holding, call[p].at # "users"
  PROVE  LET x == Raised(p)
         IN  /\ x \in Calls /\ x.at \in {"idle", "next"} /\ Placed(x)
             /\ x.at = "next" => x.name = None /\ x.todo = call[p].todo /\ call[p].at # "last"
             /\ x.at # "next" => x.todo = {}
  <1>1. CASE call[p].op = "sync" /\ call[p].at # "last"
    <2>1. PICK x : x = [At(p, "next") EXCEPT !.name = None, !.drop = FALSE]
      OBVIOUS
    <2>2. At(p, "next") \in Calls /\ At(p, "next").op = "sync" /\ At(p, "next").at = "next"
          /\ At(p, "next").todo = call[p].todo
      BY <1>1, AtOK DEF Place, Holding
    <2>3. x \in Calls /\ x.at = "next" /\ x.name = None /\ x.op = "sync"
          /\ x.todo = call[p].todo
      BY <2>1, <2>2 DEF Calls
    <2>4. Placed(x)
      BY <2>3 DEF Placed
    <2> QED
      BY <1>1, <2>1, <2>3, <2>4 DEF Raised
  <1>2. CASE ~(call[p].op = "sync" /\ call[p].at # "last")
    BY <1>2, NoCallOK DEF Raised
  <1> QED
    BY <1>1, <1>2

\* What a record that is worked on is.
LEMMA MineOK ==
  ASSUME Inv, NEW p \in Proc, call[p].at \in Working
  PROVE  /\ call[p].name \in Name /\ Mine(p) = rec[call[p].name] /\ Mine(p) \in Records
         /\ Mine(p) # None /\ Sound(Mine(p)) /\ Turn(p) /\ call[p].at \in Holding
         /\ \A n \in call[p].todo : n # call[p].name /\ rec[n] # None
  <1>1. call[p].at \in Holding /\ call[p].at \in Lined
    BY DEF Working, Holding, Lined
  <1>2. call[p].name \in Name /\ rec[call[p].name] # None
        /\ \A n \in call[p].todo : n # call[p].name /\ rec[n] # None
    BY Here DEF Placed, Knows, Working
  <1> QED
    BY <1>1, <1>2, Front, There DEF Mine

\* Tokens and records stay.
LEMMA Same ==
  ASSUME Inv, UNCHANGED <<rec, token, told>>
  PROVE  /\ rec' \in [Name -> Records \cup {None}] /\ told' \subseteq Token
         /\ token' \in [Token -> (Name \X Id) \cup {None, Gone}]
         /\ RecordsOK' /\ TokensOK'
  BY DEF Inv, TypeOK, RecordsOK, TokensOK, TokensOnRecord

\* The exception of a step that wrote no record.
LEMMA Failed ==
  ASSUME Inv, NEW p \in Proc, call[p].at \in Working, Go(p, Raised(p)),
         UNCHANGED <<others, removed, calls, rec>>, faults' \in 0..MaxFaults,
         policy' \subseteq Token, told' \subseteq Token,
         token' \in [Token -> (Name \X Id) \cup {None, Gone}], TokensOK'
  PROVE  Inv'
  <1>1. PICK x : x = Raised(p)
    OBVIOUS
  <1>2. /\ x \in Calls /\ x.at \in {"idle", "next"} /\ Placed(x)
        /\ x.at = "next" => x.name = None /\ x.todo = call[p].todo
        /\ x.at # "next" => x.todo = {}
    BY <1>1, MineOK, RaisedOK DEF Working
  <1>3. /\ rec' = rec /\ rec' \in [Name -> Records \cup {None}] /\ RecordsOK'
    BY DEF Inv, TypeOK, RecordsOK
  <1>4. Knows(x)'
    BY <1>2, <1>3, MineOK, Here DEF Knows, Working, Calls
  <1> QED
    BY <1>1, <1>2, <1>3, <1>4, MineOK, Locked DEF Waiting

-----------------------------------------------------------------------------
\* A record is on its way to be revoked, and its call to where that is done.
LEMMA Revoking ==
  ASSUME Inv, NEW p \in Proc, Turn(p), NEW n \in Name, NEW r \in Records, NEW c \in Calls,
         c.name = n, c.op # "sync" => c.todo = {},
         \A m \in c.todo : m # n /\ rec[m] # None,
         Go(p, [c EXCEPT !.at = RevokeFrom(r)]),
         rec' = [rec EXCEPT ![n] = [r EXCEPT !.state = "revoking"]],
         UNCHANGED <<others, removed, calls, faults, cloudflare>>,
         rec[n] = None => account[n] # None,
         rec[n] # None => r.token = rec[n].token
  PROVE  Inv'
  <1>1. PICK x : x = [c EXCEPT !.at = RevokeFrom(r)]
    OBVIOUS
  <1>2. PICK s : s = [r EXCEPT !.state = "revoking"]
    OBVIOUS
  <1>3. /\ x \in Calls /\ x.op = c.op /\ x.name = n /\ x.todo = c.todo
        /\ x.at = "policy" <=> r.token = None
        /\ x.at = "remove" <=> r.token # None
        /\ x.at \in {"policy", "remove"}
    BY <1>1 DEF RevokeFrom, Calls, Place, Holding
  <1>4. s \in Records /\ s.token = r.token /\ s.state = "revoking" /\ s # None
    BY <1>2, Here DEF Records, State
  <1>5. rec'[n] = s /\ \A m \in Name \ {n} : rec'[m] = rec[m]
    BY <1>2 DEF Inv, TypeOK
  <1>6. Placed(x)
    BY <1>3 DEF Placed, Working
  <1>7. x.todo \subseteq Name
    BY <1>3 DEF Calls
  <1>8. Knows(x)'
    BY <1>3, <1>4, <1>5, <1>7 DEF Knows, Working
  <1>9. Sound(s)
    BY <1>4 DEF Sound
  <1>10. faults \in 0..MaxFaults /\ policy \subseteq Token
    BY DEF Inv, TypeOK
  <1> QED
    BY <1>1, <1>2, <1>3, <1>4, <1>6, <1>8, <1>9, <1>10, Wrote DEF cloudflare, Waiting

\* A record is on its way to be issued or rotated.
LEMMA Issuing ==
  ASSUME Inv, NEW p \in Proc, Turn(p), NEW n \in Name, NEW r \in Records, NEW c \in Calls,
         c.name = n, c.op # "sync" => c.todo = {},
         \A m \in c.todo : m # n /\ rec[m] # None,
         r.state \in {"issuing", "rotating"}, Sound(r),
         Go(p, [c EXCEPT !.at = IssueFrom(r)]), rec' = [rec EXCEPT ![n] = r],
         UNCHANGED <<others, removed, calls, faults, cloudflare>>,
         rec[n] = None => account[n] # None,
         rec[n] # None => r.token = rec[n].token
  PROVE  Inv'
  <1>1. PICK x : x = [c EXCEPT !.at = IssueFrom(r)]
    OBVIOUS
  <1>2. /\ r # None
        /\ r.token = None => IssueFrom(r) = "post" /\ r.state = "issuing"
        /\ r.token # None /\ r.state = "rotating" => IssueFrom(r) = "rotate"
        /\ r.token # None /\ r.state = "issuing" => IssueFrom(r) = "policy"
    BY Here DEF IssueFrom, Sound
  <1>3. /\ x \in Calls /\ x.op = c.op /\ x.name = n /\ x.todo = c.todo
        /\ x.at = IssueFrom(r) /\ x.at \in {"post", "rotate", "policy"}
    BY <1>1, <1>2 DEF Calls, Place, Holding
  <1>4. rec'[n] = r /\ \A m \in Name \ {n} : rec'[m] = rec[m]
    BY DEF Inv, TypeOK
  <1>5. Placed(x)
    BY <1>3 DEF Placed, Working
  <1>6. x.todo \subseteq Name
    BY <1>3 DEF Calls
  <1>7. Knows(x)'
    BY <1>2, <1>3, <1>4, <1>6 DEF Knows, Working
  <1>8. faults \in 0..MaxFaults /\ policy \subseteq Token
    BY DEF Inv, TypeOK
  <1> QED
    BY <1>1, <1>2, <1>3, <1>5, <1>7, <1>8, Wrote DEF cloudflare, Waiting

-----------------------------------------------------------------------------
\* A token that the portal was told of is of the record it is made for, and no
\* other of the same user was left behind.
LEMMA PostOK ==
  ASSUME Inv, NEW p \in Proc, Post(p)
  PROVE  Inv'
  <1> DEFINE n == call[p].name
             r == rec[n]
             label == <<n, r.id>>
  <1>1. /\ n \in Name /\ r \in Records /\ r # None /\ r.token = None /\ r.state = "issuing"
        /\ call[p].at = "post" /\ call[p].at \in Working /\ Turn(p)
        /\ \A m \in call[p].todo : m # n /\ rec[m] # None
    BY MineOK, Here DEF Post, Working, Knows
  <1>2. label \in Name \X Id /\ label # None /\ label # Gone
    BY <1>1, Here DEF Records
  <1>3. /\ token \in [Token -> (Name \X Id) \cup {None, Gone}] /\ told \subseteq Token
        /\ faults \in 0..MaxFaults /\ policy \subseteq Token /\ MaxFaults \in Nat
        /\ TokensOnRecord /\ \A k \in told : token[k] # None
        /\ None \notin Token
    BY ConstantsAssumption DEF Inv, TypeOK, TokensOK
  <1>4. ASSUME NEW k \in told, token[k] # Gone PROVE token[k][1] # n
    BY <1>1, <1>3, <1>4 DEF TokensOnRecord
  <1>5. ASSUME NEW k \in Candidates(label)
        PROVE  k \in Token /\ (k \in told => FALSE)
    <2>1. k \in Token /\ (token[k] = label \/ token[k] = None)
      BY <1>5 DEF Candidates
    <2>2. label[1] = n
      OBVIOUS
    <2> QED
      BY <1>2, <1>3, <1>4, <2>1, <2>2
  <1>6. \/ Step(p, Raised(p))
        \/ \E k \in Candidates(label) :
             /\ token' = [token EXCEPT ![k] = label]
             /\ told' = told \cup {k}
             /\ rec' = [rec EXCEPT ![n] = [r EXCEPT !.token = k]]
             /\ Go(p, At(p, IssueFrom([r EXCEPT !.token = k])))
             /\ UNCHANGED <<others, policy, calls, removed, faults>>
        \/ \E k \in Candidates(label) :
             /\ faults < MaxFaults /\ faults' = faults + 1
             /\ token' = [token EXCEPT ![k] = label] \/ token' = token
             /\ Go(p, Raised(p))
             /\ UNCHANGED <<others, policy, calls, removed, rec, told>>
    BY DEF Post, Mine, Put
  <1>7. CASE Step(p, Raised(p))
    BY <1>1, <1>3, <1>7, Same, Failed DEF Step, cloudflare, counters
  <1>8. ASSUME NEW k \in Candidates(label),
               token' = [token EXCEPT ![k] = label], told' = told \cup {k},
               rec' = [rec EXCEPT ![n] = [r EXCEPT !.token = k]],
               Go(p, At(p, IssueFrom([r EXCEPT !.token = k]))),
               UNCHANGED <<others, policy, calls, removed, faults>>
        PROVE  Inv'
    <2>1. PICK s : s = [r EXCEPT !.token = k]
      OBVIOUS
    <2>2. /\ s \in Records /\ s # None /\ s.token = k /\ s.state = "issuing"
          /\ k \in Token /\ k # None
      BY <1>1, <1>3, <1>5, <2>1, Here DEF Records
    <2>3. IssueFrom(s) = "policy"
      BY <2>2 DEF IssueFrom
    <2>4. PICK x : x = At(p, "policy")
      OBVIOUS
    <2>5. /\ x \in Calls /\ x.at = "policy" /\ x.op = call[p].op /\ x.name = n
          /\ x.todo = call[p].todo
      BY <2>4, AtOK DEF Place, Holding
    <2>6. Go(p, x) /\ rec' = [rec EXCEPT ![n] = s]
      BY <1>8, <2>1, <2>3, <2>4
    <2>7. /\ rec' \in [Name -> Records \cup {None}] /\ rec'[n] = s
          /\ \A m \in Name \ {n} : rec'[m] = rec[m]
      BY <1>1, <2>2, <2>6 DEF Inv, TypeOK
    <2>8. Placed(x)
      BY <1>1, <2>5, Here DEF Placed, Working
    <2>9. call[p].todo \subseteq Name
      BY Here DEF Calls
    <2>10. Knows(x)'
      BY <1>1, <2>2, <2>5, <2>7, <2>9 DEF Knows, Working
    <2>11. RecordsOK'
      BY <2>2, <2>7, There DEF RecordsOK, Sound
    <2>12. /\ token' \in [Token -> (Name \X Id) \cup {None, Gone}] /\ token'[k] = label
           /\ \A j \in Token \ {k} : token'[j] = token[j]
      BY <1>2, <1>3, <1>8, <2>2
    <2>13. ASSUME NEW j \in told', token'[j] # Gone
           PROVE  rec'[token'[j][1]] # None /\ rec'[token'[j][1]].token = j
      <3>1. CASE j = k
        <4>1. token'[j][1] = n
          BY <2>12, <3>1
        <4> QED
          BY <2>2, <2>7, <3>1, <4>1
      <3>2. CASE j # k
        <4>1. j \in told /\ token'[j] = token[j] /\ token[j] # Gone
          BY <1>3, <1>8, <2>12, <2>13, <3>2
        <4>2. token[j][1] # n /\ token[j][1] \in Name
          BY <1>3, <1>4, <4>1
        <4> QED
          BY <1>3, <2>7, <4>1, <4>2 DEF TokensOnRecord
      <3> QED
        BY <3>1, <3>2
    <2>14. TokensOK'
      <3>1. \A j \in told' : token'[j] # None
        BY <1>2, <1>3, <1>8, <2>12
      <3> QED
        BY <2>13, <3>1 DEF TokensOK, TokensOnRecord
    <2>15. \A m \in Name : rec[m] = None /\ account[m] = None => rec'[m] = None
      BY <1>1, <2>7
    <2>16. told' \subseteq Token /\ policy' \subseteq Token /\ faults' \in 0..MaxFaults
      BY <1>3, <1>8, <2>2
    <2> QED
      BY <1>1, <1>8, <2>5, <2>6, <2>7, <2>8, <2>10, <2>11, <2>12, <2>14, <2>15, <2>16,
         Locked DEF Waiting
  <1>9. ASSUME NEW k \in Candidates(label), faults < MaxFaults, faults' = faults + 1,
               token' = [token EXCEPT ![k] = label] \/ token' = token,
               Go(p, Raised(p)),
               UNCHANGED <<others, policy, calls, removed, rec, told>>
        PROVE  Inv'
    <2>1. k \in Token /\ k \notin told
      BY <1>5
    <2>2. /\ token' \in [Token -> (Name \X Id) \cup {None, Gone}]
          /\ \A j \in told : token'[j] = token[j]
      BY <1>2, <1>3, <1>9, <2>1
    <2>3. TokensOK'
      BY <1>3, <1>9, <2>2 DEF TokensOK, TokensOnRecord
    <2>4. faults' \in 0..MaxFaults
      BY <1>3, <1>9
    <2> QED
      BY <1>1, <1>3, <1>9, <2>2, <2>3, <2>4, Failed
  <1> QED
    BY <1>6, <1>7, <1>8, <1>9

\* The token of a record that is rotated stays.
LEMMA RotateOK ==
  ASSUME Inv, NEW p \in Proc, Rotate(p)
  PROVE  Inv'
  <1> DEFINE n == call[p].name
             r == rec[n]
  <1>1. /\ n \in Name /\ r \in Records /\ r # None /\ r.token # None
        /\ call[p].at = "rotate" /\ call[p].at \in Working /\ Turn(p)
        /\ \A m \in call[p].todo : m # n /\ rec[m] # None
    BY MineOK, Here DEF Rotate, Working, Knows
  <1>2. faults \in 0..MaxFaults /\ MaxFaults \in Nat /\ policy \subseteq Token
    BY ConstantsAssumption DEF Inv, TypeOK
  <1>3. CASE /\ rec' = [rec EXCEPT ![n] = [r EXCEPT !.state = "issuing"]]
             /\ Go(p, At(p, "policy")) /\ UNCHANGED <<others, cloudflare, calls, removed, faults>>
    <2>1. PICK s : s = [r EXCEPT !.state = "issuing"]
      OBVIOUS
    <2>2. s \in Records /\ s # None /\ s.token = r.token /\ s.state = "issuing" /\ Sound(s)
      BY <1>1, <2>1, Here DEF Records, State, Sound
    <2>3. PICK x : x = At(p, "policy")
      OBVIOUS
    <2>4. /\ x \in Calls /\ x.at = "policy" /\ x.op = call[p].op /\ x.name = n
          /\ x.todo = call[p].todo
      BY <2>3, AtOK DEF Place, Holding
    <2>5. rec'[n] = s /\ \A m \in Name \ {n} : rec'[m] = rec[m]
      BY <1>1, <1>3, <2>1 DEF Inv, TypeOK
    <2>6. Placed(x) /\ call[p].todo \subseteq Name
      BY <1>1, <2>4, Here DEF Placed, Working, Calls
    <2>7. Knows(x)'
      BY <1>1, <2>2, <2>4, <2>5, <2>6 DEF Knows, Working
    <2> QED
      BY <1>1, <1>2, <1>3, <2>1, <2>2, <2>3, <2>4, <2>6, <2>7, Wrote DEF cloudflare, Waiting
  <1>4. CASE /\ faults < MaxFaults /\ faults' = faults + 1 /\ Go(p, Raised(p))
             /\ UNCHANGED <<others, cloudflare, calls, removed, rec>>
    <2>1. faults' \in 0..MaxFaults
      BY <1>2, <1>4
    <2> QED
      BY <1>1, <1>2, <1>4, <2>1, Same, Failed DEF cloudflare
  <1> QED
    BY <1>3, <1>4 DEF Rotate, Put, Mine

\* The token that is removed is that of the record.
LEMMA RemoveOK ==
  ASSUME Inv, NEW p \in Proc, Remove(p)
  PROVE  Inv'
  <1> DEFINE n == call[p].name
             r == rec[n]
  <1>1. /\ n \in Name /\ r \in Records /\ r # None /\ r.token # None /\ r.state = "revoking"
        /\ call[p].at = "remove" /\ call[p].at \in Working /\ Turn(p)
        /\ \A m \in call[p].todo : m # n /\ rec[m] # None
    BY MineOK, Here DEF Remove, Working, Knows
  <1>2. /\ faults \in 0..MaxFaults /\ MaxFaults \in Nat /\ policy \subseteq Token
        /\ told \subseteq Token /\ token \in [Token -> (Name \X Id) \cup {None, Gone}]
        /\ r.token \in Token /\ TokensOnRecord /\ \A k \in told : token[k] # None
        /\ Gone # None
    BY <1>1, ConstantsAssumption DEF Inv, TypeOK, Records, TokensOK
  <1>3. /\ rec' = rec /\ policy' = policy /\ told' = told
        /\ UNCHANGED <<others, calls, removed>>
        /\ token' = [token EXCEPT ![r.token] = Gone] \/ token' = token
        /\ \/ /\ Go(p, At(p, "policy")) /\ faults' = faults
              /\ token' = [token EXCEPT ![r.token] = Gone]
           \/ faults < MaxFaults /\ faults' = faults + 1 /\ Go(p, Raised(p))
    BY DEF Remove, Attempt, Mine
  <1>4. /\ token' \in [Token -> (Name \X Id) \cup {None, Gone}]
        /\ \A k \in Token : token'[k] = Gone \/ token'[k] = token[k]
    BY <1>2, <1>3
  <1>5. TokensOK'
    BY <1>2, <1>3, <1>4 DEF TokensOK, TokensOnRecord
  <1>6. CASE /\ Go(p, At(p, "policy")) /\ faults' = faults
             /\ token' = [token EXCEPT ![r.token] = Gone]
    <2>1. PICK x : x = At(p, "policy")
      OBVIOUS
    <2>2. /\ x \in Calls /\ x.at = "policy" /\ x.op = call[p].op /\ x.name = n
          /\ x.todo = call[p].todo
      BY <2>1, AtOK DEF Place, Holding
    <2>3. Placed(x)
      BY <1>1, <2>2, Here DEF Placed, Working
    <2>4. token'[r.token] = Gone
      BY <1>2, <1>6
    <2>5. Knows(x)'
      BY <1>1, <1>3, <2>2, <2>4 DEF Knows, Working
    <2>6. rec' \in [Name -> Records \cup {None}] /\ RecordsOK'
      BY <1>3 DEF Inv, TypeOK, RecordsOK
    <2> QED
      BY <1>1, <1>2, <1>3, <1>4, <1>5, <1>6, <2>1, <2>2, <2>3, <2>5, <2>6, Locked DEF Waiting
  <1>7. CASE faults < MaxFaults /\ faults' = faults + 1 /\ Go(p, Raised(p))
    <2>1. faults' \in 0..MaxFaults
      BY <1>2, <1>7
    <2> QED
      BY <1>1, <1>2, <1>3, <1>4, <1>5, <1>7, <2>1, Failed
  <1> QED
    BY <1>3, <1>6, <1>7

\* The record forgets a token only when it is removed.
LEMMA ReconcileOK ==
  ASSUME Inv, NEW p \in Proc, Reconcile(p)
  PROVE  Inv'
  <1> DEFINE n == call[p].name
             r == rec[n]
  <1>1. /\ n \in Name /\ r \in Records /\ r # None
        /\ call[p].at = "policy" /\ call[p].at \in Working /\ call[p].at \in Holding /\ Turn(p)
        /\ \A m \in call[p].todo : m # n /\ rec[m] # None
        /\ \/ r.state = "issuing" /\ r.token # None
           \/ r.state = "revoking" /\ (r.token = None \/ token[r.token] = Gone)
    BY MineOK, Here DEF Reconcile, Working, Knows
  <1>2. /\ faults \in 0..MaxFaults /\ MaxFaults \in Nat /\ policy \subseteq Token
        /\ Wanted \subseteq Token
    BY ConstantsAssumption DEF Inv, TypeOK, Wanted
  <1>3. CASE /\ policy' = Wanted /\ rec' = [rec EXCEPT ![n] = Finished(p)] /\ Go(p, Done(p))
             /\ UNCHANGED <<others, token, told, calls, removed, faults>>
    <2>1. PICK s : s = Finished(p)
      OBVIOUS
    <2>2. s \in Records \cup {None} /\ (s # None => Sound(s))
      <3>1. CASE r.state = "issuing"
        <4>1. s = [r EXCEPT !.state = "ready"]
          BY <2>1, <3>1 DEF Finished, Mine
        <4> QED
          BY <1>1, <3>1, <4>1 DEF Records, State, Sound
      <3>2. CASE r.state = "revoking" /\ call[p].drop
        BY <2>1, <3>2 DEF Finished, Mine
      <3>3. CASE r.state = "revoking" /\ ~call[p].drop
        <4>1. s = [r EXCEPT !.token = None,
                            !.state = IF r.enabled THEN "unissued" ELSE "disabled"]
          BY <2>1, <3>3 DEF Finished, Mine
        <4> QED
          BY <1>1, <3>3, <4>1 DEF Records, State, Sound
      <3> QED
        BY <1>1, <3>1, <3>2, <3>3
    <2>3. \/ s # None /\ s.token = r.token
          \/ r.token = None
          \/ token[r.token] = Gone
      BY <1>1, <2>1, Here DEF Finished, Mine, Records, State
    <2>4. PICK x : x = Done(p)
      OBVIOUS
    <2>5. /\ x \in Calls /\ x.at \in {"idle", "next", "userdel"} /\ Placed(x)
          /\ x.at = "next" => x.name = None /\ x.todo = call[p].todo
          /\ x.at # "next" => x.todo = {}
      <3>1. CASE call[p].op = "delete"
        <4>1. x = At(p, "userdel")
          BY <2>4, <3>1 DEF Done
        <4>2. /\ x \in Calls /\ x.at = "userdel" /\ x.op = "delete" /\ x.name = n
              /\ x.todo = call[p].todo
          BY <3>1, <4>1, AtOK DEF Place
        <4>3. call[p].todo = {}
          BY <3>1, Here DEF Placed, Working
        <4> QED
          BY <1>1, <4>2, <4>3 DEF Placed, Working
      <3>2. CASE call[p].op # "delete"
        BY <1>1, <2>4, <3>2, RaisedOK DEF Done
      <3> QED
        BY <3>1, <3>2
    <2>6. \A m \in Name \ {n} : rec'[m] = rec[m]
      BY <1>3 DEF Inv, TypeOK
    <2>7. call[p].todo \subseteq Name
      BY Here DEF Calls
    <2>8. Knows(x)'
      BY <1>1, <2>5, <2>6, <2>7, Here DEF Knows, Working
    <2>9. Go(p, x) /\ rec' = [rec EXCEPT ![n] = s]
      BY <1>3, <2>1, <2>4
    <2> QED
      BY <1>1, <1>2, <1>3, <2>2, <2>3, <2>5, <2>8, <2>9, Wrote DEF Waiting
  <1>4. CASE /\ faults < MaxFaults /\ faults' = faults + 1 /\ Go(p, Raised(p))
             /\ policy' = Wanted \/ policy' = policy
             /\ UNCHANGED <<others, token, told, calls, removed, rec>>
    <2>1. faults' \in 0..MaxFaults
      BY <1>2, <1>4
    <2> QED
      BY <1>1, <1>2, <1>4, <2>1, Same, Failed
  <1> QED
    BY <1>3, <1>4 DEF Reconcile, Put

-----------------------------------------------------------------------------
\* The record a call of a user or an administrator starts from.
LEMMA CurrentOK ==
  ASSUME Inv, NEW n \in Name, Identified(n)
  PROVE  LET r == Current(n)
         IN  /\ r \in Records /\ r # None /\ Sound(r)
             /\ rec[n] = None => account[n] # None
             /\ rec[n] # None => r.token = rec[n].token
  <1>1. CASE rec[n] # None
    BY <1>1, There DEF Current
  <1>2. CASE rec[n] = None
    <2>1. account[n] \in Id
      BY There DEF Identified
    <2>2. Current(n) = [id |-> account[n], enabled |-> TRUE, state |-> "unissued", token |-> None]
      BY <1>2 DEF Current
    <2>3. Current(n) \in Records
      BY <2>1, <2>2 DEF Records, State
    <2>4. Current(n) # None
      BY <2>3, ConstantsAssumption
    <2> QED
      BY <1>2, <2>1, <2>2, <2>3, <2>4 DEF Sound, Identified
  <1> QED
    BY <1>1, <1>2

\* A call that waited is let in, and its name is known unless it synchronises.
LEMMA Entered ==
  ASSUME Inv, NEW p \in Proc, Enters(p, "wait")
  PROVE  /\ Turn(p) /\ call[p].at = "wait" /\ call[p] \in Calls
         /\ call[p].op # "sync" => call[p].name \in Name /\ call[p].todo = {}
         /\ call[p].op = "sync" => call[p].name = None
  <1>1. call[p].at = "wait" /\ call[p].at \in Lined /\ Head(queue) = p
    BY DEF Enters, Lined, Waiting
  <1> QED
    BY <1>1, Front, Here DEF Placed, Working

\* A call ends under the lock.
LEMMA Ended ==
  ASSUME Inv, NEW p \in Proc, Turn(p), Step(p, NoCall)
  PROVE  Inv'
  <1>1. faults \in 0..MaxFaults /\ policy \subseteq Token
    BY DEF Inv, TypeOK
  <1> QED
    BY <1>1, NoCallOK, Stepped DEF Step, cloudflare, counters, Waiting

\* A revocation begins, for a user or in a deletion.
LEMMA RevokeOK ==
  ASSUME Inv, NEW p \in Proc, Turn(p), call[p].name \in Name, call[p].todo = {},
         NEW r \in Records, Revoke(p, r, call[p]),
         rec[call[p].name] = None => account[call[p].name] # None,
         rec[call[p].name] # None => r.token = rec[call[p].name].token
  PROVE  Inv'
  BY Here, Revoking DEF Revoke, Save, Put, counters

\* An issue or a rotation begins.
LEMMA IssueOK ==
  ASSUME Inv, NEW p \in Proc, Turn(p), call[p].name \in Name, call[p].todo = {},
         NEW r \in Records, Issue(p, r), r.state \in {"issuing", "rotating"}, Sound(r),
         rec[call[p].name] = None => account[call[p].name] # None,
         rec[call[p].name] # None => r.token = rec[call[p].name].token
  PROVE  Inv'
  BY Here, Issuing DEF Issue, Save, Put, counters, At

\* What a user asks for is refused, or begins with the record as it is.
LEMMA ExecuteOK ==
  ASSUME Inv, NEW p \in Proc, Execute(p)
  PROVE  Inv'
  <1> DEFINE n == call[p].name
  <1>0. PICK r : r = Current(n)
    OBVIOUS
  <1>1. Turn(p) /\ n \in Name /\ call[p].todo = {}
    BY Entered DEF Execute, UserOp
  <1>2. CASE Step(p, NoCall)
    BY <1>1, <1>2, Ended
  <1>3. CASE Identified(n) /\ Revoke(p, r, call[p])
    BY <1>1, <1>3, <1>0, CurrentOK, RevokeOK
  <1>4. ASSUME Identified(n), NEW st \in {"rotating", "issuing"},
               st = "rotating" => r.state = "ready",
               Issue(p, [r EXCEPT !.state = st])
        PROVE  Inv'
    <2>1. PICK s : s = [r EXCEPT !.state = st]
      OBVIOUS
    <2>2. /\ r \in Records /\ Sound(r)
          /\ rec[n] = None => account[n] # None
          /\ rec[n] # None => r.token = rec[n].token
      BY <1>1, <1>4, <1>0, CurrentOK
    <2>3. s \in Records /\ s.token = r.token /\ s.state = st
      BY <2>1, <2>2 DEF Records, State
    <2>4. Sound(s)
      BY <1>4, <2>2, <2>3 DEF Sound
    <2> QED
      BY <1>1, <1>4, <2>1, <2>2, <2>3, <2>4, IssueOK
  <1>5. \/ Step(p, NoCall)
        \/ Identified(n) /\ Revoke(p, r, call[p])
        \/ Identified(n) /\ r.state = "ready" /\ Issue(p, [r EXCEPT !.state = "rotating"])
        \/ Identified(n) /\ Issue(p, [r EXCEPT !.state = "issuing"])
    BY <1>0, Zenon DEF Execute
  <1> QED
    BY <1>2, <1>3, <1>4, <1>5

\* A call of an administrator saves a record, with the token it had.
LEMMA SavedOK ==
  ASSUME Inv, NEW p \in Proc, Turn(p), call[p].name \in Name, call[p].todo = {},
         NEW r \in Records, Sound(r), NEW c \in Calls, c.op # "sync",
         c.at \in {"idle", "begin", "allow"},
         c.at \in {"begin", "allow"} => c.name = call[p].name, c.todo = {},
         Save(p, r, c),
         rec[call[p].name] = None => account[call[p].name] # None,
         rec[call[p].name] # None => r.token = rec[call[p].name].token
  PROVE  Inv'
  <1>1. /\ rec' = [rec EXCEPT ![call[p].name] = r] /\ Go(p, c) /\ r # None
        /\ UNCHANGED <<others, removed, calls, faults, cloudflare>>
    BY Here DEF Save, Put, counters
  <1>2. rec'[call[p].name] = r
    BY <1>1 DEF Inv, TypeOK
  <1>3. Placed(c) /\ Knows(c)'
    BY <1>1, <1>2 DEF Placed, Knows, Working
  <1>4. faults \in 0..MaxFaults /\ policy \subseteq Token
    BY DEF Inv, TypeOK
  <1> QED
    BY <1>1, <1>3, <1>4, Wrote DEF cloudflare, Waiting

\* What an administrator allows or denies leaves the token on record.
LEMMA SetAllowedOK ==
  ASSUME Inv, NEW p \in Proc, SetAllowed(p)
  PROVE  Inv'
  <1> DEFINE n == call[p].name
  <1>0. PICK r : r = Current(n)
    OBVIOUS
  <1>1. Turn(p) /\ n \in Name /\ call[p].todo = {} /\ call[p].op # "sync"
    BY Entered DEF SetAllowed
  <1>2. CASE Step(p, NoCall)
    BY <1>1, <1>2, Ended
  <1>3. CASE Identified(n) /\ Save(p, [r EXCEPT !.enabled = FALSE], At(p, "begin"))
    <2>1. PICK s : s = [r EXCEPT !.enabled = FALSE]
      OBVIOUS
    <2>2. /\ r \in Records /\ Sound(r)
          /\ rec[n] = None => account[n] # None
          /\ rec[n] # None => r.token = rec[n].token
      BY <1>1, <1>3, <1>0, CurrentOK
    <2>3. s \in Records /\ s.token = r.token /\ Sound(s)
      BY <2>1, <2>2 DEF Records, Sound
    <2>4. PICK x : x = At(p, "begin")
      OBVIOUS
    <2>5. x \in Calls /\ x.at = "begin" /\ x.name = n /\ x.todo = {} /\ x.op # "sync"
      BY <1>1, <2>4, AtOK DEF Place, Holding
    <2> QED
      BY <1>1, <1>3, <2>1, <2>2, <2>3, <2>4, <2>5, SavedOK
  <1>4. CASE Identified(n) /\ Save(p, [r EXCEPT !.enabled = TRUE], At(p, "allow"))
    <2>1. PICK s : s = [r EXCEPT !.enabled = TRUE]
      OBVIOUS
    <2>2. /\ r \in Records /\ Sound(r)
          /\ rec[n] = None => account[n] # None
          /\ rec[n] # None => r.token = rec[n].token
      BY <1>1, <1>4, <1>0, CurrentOK
    <2>3. s \in Records /\ s.token = r.token /\ Sound(s)
      BY <2>1, <2>2 DEF Records, Sound
    <2>4. PICK x : x = At(p, "allow")
      OBVIOUS
    <2>5. x \in Calls /\ x.at = "allow" /\ x.name = n /\ x.todo = {} /\ x.op # "sync"
      BY <1>1, <2>4, AtOK DEF Place, Holding
    <2> QED
      BY <1>1, <1>4, <2>1, <2>2, <2>3, <2>4, <2>5, SavedOK
  <1>5. \/ Step(p, NoCall)
        \/ Identified(n) /\ Save(p, [r EXCEPT !.enabled = FALSE], At(p, "begin"))
        \/ Identified(n) /\ Save(p, [r EXCEPT !.enabled = TRUE], At(p, "allow"))
    BY <1>0, Zenon DEF SetAllowed
  <1> QED
    BY <1>2, <1>3, <1>4, <1>5

\* The state that goes with a permission has as many tokens as the one before it.
LEMMA FinishAllowingOK ==
  ASSUME Inv, NEW p \in Proc, FinishAllowing(p)
  PROVE  Inv'
  <1> DEFINE n == call[p].name
             r == Mine(p)
  <1>1. PICK s : s = [r EXCEPT !.state = IF @ = "disabled" THEN "unissued" ELSE @]
    OBVIOUS
  <1>2. call[p].at = "allow" /\ call[p].at \in Working /\ Save(p, s, NoCall)
    BY <1>1 DEF FinishAllowing, Working
  <1>3. /\ Turn(p) /\ n \in Name /\ r \in Records /\ r = rec[n] /\ r # None
    BY <1>2, MineOK
  <1>4. Sound(r)
    BY <1>3, There
  <1>5. s \in Records /\ s.token = r.token /\ Sound(s)
    BY <1>1, <1>3, <1>4 DEF Records, State, Sound
  <1>6. call[p].todo = {}
    BY <1>2, Here DEF Placed
  <1> HIDE DEF r
  <1> QED
    BY <1>2, <1>3, <1>5, <1>6, NoCallOK, SavedOK

\* After a denial was saved the record is still that of the call.
LEMMA BeginRevocationOK ==
  ASSUME Inv, NEW p \in Proc, BeginRevocation(p)
  PROVE  Inv'
  <1>1. call[p].at = "begin" /\ call[p].at \in Working /\ Revoke(p, Mine(p), call[p])
    BY DEF BeginRevocation, Working
  <1>2. /\ Turn(p) /\ call[p].name \in Name /\ Mine(p) \in Records
        /\ Mine(p) = rec[call[p].name] /\ Mine(p) # None
        /\ \A m \in call[p].todo : m # call[p].name /\ rec[m] # None
    BY <1>1, MineOK
  <1>3. call[p].op # "sync" => call[p].todo = {}
    BY Here DEF Placed
  <1> QED
    BY <1>1, <1>2, <1>3, Here, Revoking DEF Revoke, Save, Put, counters

\* Without a record there is nothing to stop.
LEMMA StopSshOK ==
  ASSUME Inv, NEW p \in Proc, StopSsh(p)
  PROVE  Inv'
  <1> DEFINE n == call[p].name
             r == [rec[n] EXCEPT !.enabled = FALSE]
  <1>1. Turn(p) /\ n \in Name /\ call[p].todo = {} /\ call[p].op = "delete"
    BY Entered DEF StopSsh
  <1>2. CASE Step(p, At(p, "userdel"))
    <2>1. PICK x : x = At(p, "userdel")
      OBVIOUS
    <2>2. x \in Calls /\ x.at = "userdel" /\ x.op = "delete" /\ x.name = n /\ x.todo = {}
      BY <1>1, <2>1, AtOK DEF Place
    <2>3. Placed(x) /\ Knows(x)
      BY <1>1, <2>2 DEF Placed, Knows, Working
    <2>4. faults \in 0..MaxFaults /\ policy \subseteq Token
      BY DEF Inv, TypeOK
    <2> QED
      BY <1>1, <1>2, <2>1, <2>2, <2>3, <2>4, Stepped DEF Step, cloudflare, counters, Waiting
  <1>3. CASE rec[n] # None /\ Revoke(p, r, call[p])
    <2>1. PICK s : s = r
      OBVIOUS
    <2>2. s \in Records /\ s.token = rec[n].token
      BY <1>1, <1>3, <2>1, There DEF Records
    <2> HIDE DEF r
    <2> QED
      BY <1>1, <1>3, <2>1, <2>2, RevokeOK
  <1> QED
    BY <1>2, <1>3 DEF StopSsh

-----------------------------------------------------------------------------
\* The synchronisation goes on with the lock.
LEMMA SyncStep ==
  ASSUME Inv, NEW p \in Proc, Turn(p), NEW x \in Calls, Step(p, x), x.op = "sync",
         x.at \in {"users", "next", "last"}, x.name = None,
         x.at = "next" => \A n \in x.todo : rec[n] # None
  PROVE  Inv'
  <1>1. Placed(x)
    BY DEF Placed
  <1>2. x.todo \subseteq Name
    BY DEF Calls
  <1>3. Knows(x)
    BY <1>2, Here DEF Knows, Working
  <1>4. faults \in 0..MaxFaults /\ policy \subseteq Token
    BY DEF Inv, TypeOK
  <1> QED
    BY <1>1, <1>3, <1>4, Stepped DEF Step, cloudflare, counters, Waiting

\* The synchronisation has the lock, and nothing is known yet.
LEMMA EnterSyncOK ==
  ASSUME Inv, NEW p \in Proc, EnterSync(p)
  PROVE  Inv'
  <1>1. /\ Turn(p) /\ call[p].op = "sync" /\ call[p].name = None
        /\ Step(p, At(p, "users"))
    BY Entered DEF EnterSync
  <1>2. At(p, "users") \in Calls /\ At(p, "users").at = "users" /\ At(p, "users").op = "sync"
        /\ At(p, "users").name = None
    BY <1>1, AtOK DEF Place, Holding
  <1> QED
    BY <1>1, <1>2, SyncStep

\* A step of the synchronisation that holds the lock.
LEMMA Syncing ==
  ASSUME Inv, NEW p \in Proc, call[p].at \in {"users", "next", "last"}
  PROVE  Turn(p) /\ call[p].op = "sync" /\ call[p].name = None
  <1>1. call[p].at \in Holding /\ call[p].at \in Lined
    BY DEF Holding, Lined
  <1> QED
    BY <1>1, Front, Here DEF Placed, Working

\* The list is of names with a record, under the lock.
LEMMA ListUsersOK ==
  ASSUME Inv, NEW p \in Proc, ListUsers(p)
  PROVE  Inv'
  <1>1. Turn(p) /\ call[p].op = "sync" /\ call[p].name = None
    BY Syncing DEF ListUsers
  <1>2. PICK y : y = At(p, "next")
    OBVIOUS
  <1>3. y \in Calls /\ y.at = "next" /\ y.op = "sync" /\ y.name = call[p].name
    BY <1>1, <1>2, AtOK DEF Place, Holding
  <1>4. PICK x : x = [y EXCEPT !.seen = {n \in Name : account[n] # None},
                               !.todo = {n \in Name : rec[n] # None}]
    OBVIOUS
  <1>5. x \in Calls /\ x.at = "next" /\ x.op = "sync" /\ x.name = y.name
        /\ \A n \in x.todo : rec[n] # None
    BY <1>3, <1>4 DEF Calls
  <1> QED
    BY <1>1, <1>2, <1>3, <1>4, <1>5, SyncStep DEF ListUsers

\* A record is taken from the list of those that are left, and the rest of the
\* list are records still.
LEMMA NextRecordOK ==
  ASSUME Inv, NEW p \in Proc, NextRecord(p)
  PROVE  Inv'
  <1>1. /\ Turn(p) /\ call[p].op = "sync" /\ call[p].name = None /\ call[p].at = "next"
        /\ call[p] \in Calls /\ call[p].todo \subseteq Name
        /\ \A m \in call[p].todo : rec[m] # None
    BY Syncing, Here DEF NextRecord, Knows, Calls
  <1>2. CASE Step(p, At(p, "last"))
    <2>1. PICK x : x = At(p, "last")
      OBVIOUS
    <2>2. x \in Calls /\ x.at = "last" /\ x.op = "sync" /\ x.name = None
      BY <1>1, <2>1, AtOK DEF Place, Holding
    <2> QED
      BY <1>1, <1>2, <2>1, <2>2, SyncStep
  <1>3. ASSUME NEW n \in call[p].todo,
               LET r == rec[n]
                   mine == [call[p] EXCEPT !.todo = @ \ {n}, !.name = n]
               IN  \/ \E enabled, drop \in BOOLEAN :
                        /\ rec' = [rec EXCEPT ![n].enabled = enabled, ![n].state = "revoking"]
                        /\ Go(p, [mine EXCEPT !.at = RevokeFrom(r), !.drop = drop])
                        /\ UNCHANGED <<others, cloudflare, counters, removed>>
                   \/ /\ r.state \in {"issuing", "rotating"}
                      /\ Step(p, [mine EXCEPT !.at = IssueFrom(r)])
                   \/ Step(p, [mine EXCEPT !.name = None])
        PROVE  Inv'
    <2>1. n \in Name /\ rec[n] \in Records /\ rec[n] # None /\ Sound(rec[n])
      BY <1>1, There
    <2>2. PICK y : y = [call[p] EXCEPT !.todo = @ \ {n}, !.name = n]
      OBVIOUS
    <2>3. /\ y \in Calls /\ y.name = n /\ y.op = "sync" /\ y.at = "next"
          /\ y.todo = call[p].todo \ {n}
          /\ \A m \in y.todo : m # n /\ rec[m] # None
      BY <1>1, <2>1, <2>2 DEF Calls
    <2>4. ASSUME NEW enabled \in BOOLEAN, NEW drop \in BOOLEAN,
                 rec' = [rec EXCEPT ![n].enabled = enabled, ![n].state = "revoking"],
                 Go(p, [y EXCEPT !.at = RevokeFrom(rec[n]), !.drop = drop]),
                 UNCHANGED <<others, cloudflare, counters, removed>>
          PROVE  Inv'
      <3>1. PICK c : c = [y EXCEPT !.drop = drop]
        OBVIOUS
      <3>2. /\ c \in Calls /\ c.name = n /\ c.op = "sync" /\ c.todo = y.todo
        BY <2>3, <3>1 DEF Calls
      <3>3. PICK s : s = [rec[n] EXCEPT !.enabled = enabled]
        OBVIOUS
      <3>4. s \in Records /\ s.token = rec[n].token
        BY <2>1, <3>3 DEF Records
      <3>5. rec' = [rec EXCEPT ![n] = [s EXCEPT !.state = "revoking"]]
        BY <2>1, <2>4, <3>3 DEF Inv, TypeOK
      <3>6. RevokeFrom(s) = RevokeFrom(rec[n])
        BY <3>4 DEF RevokeFrom
      <3>7. [c EXCEPT !.at = RevokeFrom(s)] = [y EXCEPT !.at = RevokeFrom(rec[n]), !.drop = drop]
        BY <2>3, <3>1, <3>6 DEF Calls
      <3>8. Go(p, [c EXCEPT !.at = RevokeFrom(s)])
        BY <2>4, <3>7
      <3>9. /\ c.op # "sync" => c.todo = {}
            /\ \A m \in c.todo : m # n /\ rec[m] # None
        BY <2>3, <3>2
      <3>10. UNCHANGED <<others, removed, calls, faults, cloudflare>>
        BY <2>4 DEF counters
      <3> QED
        BY <1>1, <2>1, <3>2, <3>4, <3>5, <3>8, <3>9, <3>10, Revoking
    <2>5. CASE /\ rec[n].state \in {"issuing", "rotating"}
               /\ Step(p, [y EXCEPT !.at = IssueFrom(rec[n])])
      <3>1. rec' = [rec EXCEPT ![n] = rec[n]]
        BY <2>5 DEF Step, Inv, TypeOK
      <3> QED
        BY <1>1, <2>1, <2>3, <2>5, <3>1, Issuing DEF Step, counters
    <2>6. CASE Step(p, [y EXCEPT !.name = None])
      <3>1. PICK x : x = [y EXCEPT !.name = None]
        OBVIOUS
      <3>2. x \in Calls /\ x.name = None /\ x.op = "sync" /\ x.at = "next" /\ x.todo = y.todo
        BY <2>3, <3>1 DEF Calls
      <3> QED
        BY <1>1, <2>3, <2>6, <3>1, <3>2, SyncStep
    <2> QED
      BY <1>3, <2>2, <2>4, <2>5, <2>6
  <1>4. ASSUME NEW n \in call[p].todo PROVE rec[n].enabled \in BOOLEAN
    BY <1>1, <1>4, There DEF Records
  <1> QED
    BY <1>2, <1>3, <1>4 DEF NextRecord

\* The policy that is written at last is of tokens there are.
LEMMA LastReconcileOK ==
  ASSUME Inv, NEW p \in Proc, LastReconcile(p)
  PROVE  Inv'
  <1>1. Turn(p)
    BY Syncing DEF LastReconcile
  <1>2. /\ Go(p, NoCall) /\ UNCHANGED <<others, removed, calls, rec, token, told>>
        /\ policy' = Wanted \/ policy' = policy
        /\ faults' = faults \/ (faults < MaxFaults /\ faults' = faults + 1)
    BY DEF LastReconcile, Attempt
  <1>3. /\ faults \in 0..MaxFaults /\ MaxFaults \in Nat /\ policy \subseteq Token
        /\ Wanted \subseteq Token
    BY ConstantsAssumption DEF Inv, TypeOK, Wanted
  <1>4. faults' \in 0..MaxFaults /\ policy' \subseteq Token
    BY <1>2, <1>3
  <1> QED
    BY <1>1, <1>2, <1>4, NoCallOK, Stepped DEF Waiting

\* A record is forgotten with no token in it.
LEMMA ForgetSshOK ==
  ASSUME Inv, NEW p \in Proc, ForgetSsh(p)
  PROVE  Inv'
  <1> DEFINE n == call[p].name
  <1>1. /\ Turn(p) /\ n \in Name /\ call[p].at = "forget"
        /\ call[p].op = "sync" => n = None
    <2>1. call[p].at = "forget" /\ call[p].at \in Lined /\ Head(queue) = p
      BY DEF ForgetSsh, Enters, Lined, Waiting
    <2> QED
      BY <2>1, Front, Here DEF Placed, Working
  <1>2. call[p].op # "sync" /\ call[p].todo = {}
    BY <1>1, Here DEF Placed
  <1>3. CASE Step(p, NoCall)
    BY <1>1, <1>3, Ended
  <1>4. CASE /\ rec[n] # None => rec[n].state = "disabled"
             /\ Save(p, None, At(p, "revokeKey"))
    <2>1. PICK x : x = At(p, "revokeKey")
      OBVIOUS
    <2>2. /\ x \in Calls /\ x.at = "revokeKey" /\ x.op = call[p].op /\ x.name = n
          /\ x.todo = {}
      BY <1>2, <2>1, AtOK DEF Place
    <2>3. Placed(x) /\ Knows(x)'
      BY <1>1, <1>2, <2>2 DEF Placed, Knows, Working
    <2>4. rec[n] # None => rec[n].token = None
      BY <1>1, <1>4, There DEF Sound
    <2>5. faults \in 0..MaxFaults /\ policy \subseteq Token
      BY DEF Inv, TypeOK
    <2> QED
      BY <1>1, <1>4, <2>1, <2>2, <2>3, <2>4, <2>5, Wrote DEF Save, Put, cloudflare, counters,
         Waiting
  <1> QED
    BY <1>3, <1>4 DEF ForgetSsh

-----------------------------------------------------------------------------
\* A call begins, with nothing done.
LEMMA Begun ==
  ASSUME Inv, NEW p \in Proc, call[p].at = "idle", NEW c \in Calls, Go(p, c), Placed(c),
         c.at \in {"wait", "useradd", "key", "shut"},
         calls' \in 0..MaxCalls, UNCHANGED <<others, rec, cloudflare, faults, removed>>
  PROVE  Inv'
  <1>1. /\ account \in [Name -> Id \cup {None}] /\ api \in [Name -> {"none", "usable", "shut"}]
        /\ llm \subseteq Name \X BOOLEAN /\ faults \in 0..MaxFaults
        /\ removed \in [Name -> Proc \cup {None, Gone}]
    BY DEF Inv, TypeOK
  <1>2. call'[p] = c /\ \A q \in Proc \ {p} : call'[q] = call[q]
    BY DEF Inv, TypeOK, Go
  <1>4. ASSUME NEW q \in Proc PROVE Leaving(q)'
    BY <1>2, Here DEF Leaving, others
  <1>5. RemovedOK'
    BY <1>4, There DEF RemovedOK, Keyed, others
  <1> QED
    BY <1>1, <1>5, Beside DEF others, Lined, Waiting, Holding

\* The calls of users and administrators.
LEMMA BeginOK ==
  ASSUME Inv, NEW t \in Task, NEW n \in Name, NEW op \in Op, op # "sync",
         NEW place \in {"wait", "useradd", "key", "shut"}, Begin(t, op, n, place)
  PROVE  Inv'
  <1>1. PICK x : x = [NoCall EXCEPT !.op = op, !.name = n, !.at = place]
    OBVIOUS
  <1>2. place \in Place
    BY DEF Place, Waiting
  <1>5. x \in Calls /\ x.op = op /\ x.name = n /\ x.at = place /\ x.todo = {}
    BY <1>1, <1>2 DEF NoCall, Calls
  <1>3. Placed(x)
    BY <1>5 DEF Placed
  <1>4. calls' \in 0..MaxCalls
    BY ConstantsAssumption DEF Begin, Inv, TypeOK
  <1> QED
    BY <1>1, <1>3, <1>4, <1>5, Begun DEF Begin, Proc

\* The synchronisation stands in line like every call.
LEMMA SynchroniseOK ==
  ASSUME Inv, Synchronise
  PROVE  Inv'
  <1>1. PICK x : x = [NoCall EXCEPT !.op = "sync", !.at = "wait"]
    OBVIOUS
  <1>2. x \in Calls /\ x.op = "sync" /\ x.name = None /\ x.at = "wait" /\ x.todo = {}
    BY <1>1 DEF NoCall, Calls, Op, Place, Waiting
  <1>3. Placed(x)
    BY <1>2 DEF Placed
  <1>4. calls \in 0..MaxCalls
    BY DEF Inv, TypeOK
  <1> QED
    BY <1>1, <1>2, <1>3, <1>4, Begun DEF Synchronise, Proc, counters

-----------------------------------------------------------------------------
\* What a step beside the lock needs of the rest of the state.
LEMMA Typed ==
  ASSUME Inv
  PROVE  /\ account \in [Name -> Id \cup {None}] /\ api \in [Name -> {"none", "usable", "shut"}]
         /\ llm \subseteq Name \X BOOLEAN /\ rec \in [Name -> Records \cup {None}]
         /\ removed \in [Name -> Proc \cup {None, Gone}]
         /\ calls \in 0..MaxCalls /\ faults \in 0..MaxFaults
         /\ faults < MaxFaults => faults + 1 \in 0..MaxFaults
         /\ calls < MaxCalls => calls + 1 \in 0..MaxCalls
  BY ConstantsAssumption DEF Inv, TypeOK

\* A call that ends, or goes on with no lock to a place after which nothing of
\* its name comes back.
LEMMA Leaves ==
  ASSUME Inv, NEW p \in Proc, NEW n \in Name, n = call[p].name,
         call[p].at \in {"useradd", "provision", "key", "shut", "userdel", "records",
                         "revokeKey"},
         NEW x \in Calls, Go(p, x), UNCHANGED <<rec, cloudflare>>, Placed(x),
         x.at \notin Holding,
         x.at \in {"provision", "key", "records", "forget", "revokeKey"} => x.name = n,
         account' \in [Name -> Id \cup {None}], api' \in [Name -> {"none", "usable", "shut"}],
         llm' \subseteq Name \X BOOLEAN, calls' \in 0..MaxCalls, faults' \in 0..MaxFaults,
         removed' \in [Name -> Proc \cup {None, Gone}],
         \A m \in Name \ {n} : /\ account'[m] = account[m] /\ api'[m] = api[m]
                               /\ removed'[m] = removed[m]
                               /\ Keyed(m)' => Keyed(m),
         removed'[n] = Gone => /\ account'[n] = None /\ rec[n] = None
                               /\ api'[n] = "none" /\ ~Keyed(n)',
         LeftAs(n)'
  PROVE  Inv'
  <1>1. call[p].at \notin Lined
    BY DEF Lined, Waiting, Holding
  <1>2. call' = [call EXCEPT ![p] = x] /\ rec' = rec
    BY DEF Go
  <1>3. \A m \in Name \ {n} : /\ account'[m] = account[m] /\ api'[m] = api[m]
                              /\ rec'[m] = rec[m] /\ removed'[m] = removed[m]
                              /\ Keyed(m)' => Keyed(m)
    BY <1>2
  <1>4. removed'[n] = Gone => /\ account'[n] = None /\ rec'[n] = None
                              /\ api'[n] = "none" /\ ~Keyed(n)'
    BY <1>2
  <1>5. RemovedOK'
    BY <1>2, <1>3, <1>4, Remains
  <1> QED
    BY <1>1, <1>5, Beside

\* The other calls see the same records, and their names as they were unless n
\* changed.
LEMMA Others ==
  ASSUME Inv, NEW p \in Proc, NEW c, call' = [call EXCEPT ![p] = c]
  PROVE  /\ call'[p] = c
         /\ \A q \in Proc \ {p} : call'[q] = call[q] /\ Leaving(q)
  BY Here DEF Inv, TypeOK

\* A call ends, and nothing but less came of it.
LEMMA NoCallPlaced ==
  ASSUME Inv
  PROVE  /\ NoCall \in Calls /\ Placed(NoCall) /\ NoCall.at = "idle"
         /\ NoCall.at \notin Holding
  BY NoCallOK DEF Holding

\* A name that is created again has been left by no deletion.
LEMMA CreateLinuxUserOK ==
  ASSUME Inv, NEW p \in Proc, CreateLinuxUser(p)
  PROVE  Inv'
  <1>1. PICK n \in Name : n = call[p].name
    BY Here DEF CreateLinuxUser, Placed
  <1>2. call[p].at = "useradd"
    BY DEF CreateLinuxUser
  <1>3. \/ /\ Go(p, NoCall) /\ UNCHANGED <<account, removed>>
           /\ faults' = faults \/ (faults < MaxFaults /\ faults' = faults + 1)
        \/ /\ \E i \in Id : account' = [account EXCEPT ![n] = i]
           /\ removed' = [removed EXCEPT ![n] = None]
           /\ Go(p, At(p, "provision")) /\ UNCHANGED faults
    BY <1>1 DEF CreateLinuxUser, Step, others, counters
  <1>4. api' = api /\ llm' = llm /\ UNCHANGED <<rec, cloudflare>> /\ calls' = calls
    BY <1>1 DEF CreateLinuxUser, Step, others, counters
  <1>5. CASE /\ Go(p, NoCall) /\ UNCHANGED <<account, removed>>
             /\ faults' = faults \/ (faults < MaxFaults /\ faults' = faults + 1)
    <2>1. call'[p] = NoCall /\ \A q \in Proc \ {p} : call'[q] = call[q] /\ Leaving(q)
      BY <1>5, Others DEF Go
    <2>2. LeftAs(n)'
      BY <1>4, <1>5, <2>1, NoCallPlaced DEF LeftAs, Leaving
    <2>4. faults' \in 0..MaxFaults
      BY <1>5, Typed
    <2> QED
      BY <1>1, <1>2, <1>4, <1>5, <2>2, <2>4, There, Typed, NoCallPlaced, Leaves
         DEF Keyed
  <1>6. CASE /\ \E i \in Id : account' = [account EXCEPT ![n] = i]
             /\ removed' = [removed EXCEPT ![n] = None]
             /\ Go(p, At(p, "provision")) /\ UNCHANGED faults
    <2>1. PICK x : x = At(p, "provision")
      OBVIOUS
    <2>2. x \in Calls /\ x.at = "provision" /\ x.name = n /\ x.op = call[p].op
          /\ x.todo = call[p].todo /\ x.at \notin Holding
      BY <1>1, <2>1, AtOK DEF Place, Holding
    <2>3. Placed(x)
      BY <1>1, <1>2, <2>2, Here DEF Placed, Working
    <2>4. call'[p] = x /\ \A q \in Proc \ {p} : call'[q] = call[q] /\ Leaving(q)
      BY <1>6, <2>1, Others DEF Go
    <2>5. removed'[n] = None /\ removed' \in [Name -> Proc \cup {None, Gone}]
          /\ \A m \in Name \ {n} : removed'[m] = removed[m]
      BY <1>6, Typed
    <2>6. account' \in [Name -> Id \cup {None}]
          /\ \A m \in Name \ {n} : account'[m] = account[m]
      BY <1>6, Typed
    <2>7. LeftAs(n)'
      BY <2>5, Here DEF LeftAs, Leaving
    <2>8. Go(p, x) /\ faults' = faults
      BY <1>6, <2>1
    <2> QED
      BY <1>1, <1>2, <1>4, <2>2, <2>3, <2>5, <2>6, <2>7, <2>8, There, Typed, Here, Leaves
         DEF Keyed
  <1> QED
    BY <1>3, <1>5, <1>6

\* What is provided is provided before the deletion, or for a new account.
LEMMA ProvisionOK ==
  ASSUME Inv, NEW p \in Proc, Provision(p)
  PROVE  Inv'
  <1>1. PICK n \in Name : n = call[p].name
    BY Here DEF Provision, Placed
  <1>2. call[p].at = "provision"
    BY DEF Provision
  <1>3. /\ Go(p, At(p, "key"))
        /\ \/ api' = api
           \/ account[n] # None /\ api' = [api EXCEPT ![n] = "usable"]
        /\ faults' = faults \/ (faults < MaxFaults /\ faults' = faults + 1)
        /\ UNCHANGED <<account, llm, rec, cloudflare, calls, removed>>
    <2>1. [api EXCEPT ![n] = api[n]] = api
      BY Typed
    <2> QED
      BY <1>1, <2>1 DEF Provision, Attempt
  <1>4. PICK x : x = At(p, "key")
    OBVIOUS
  <1>5. x \in Calls /\ x.at = "key" /\ x.name = n /\ x.op = call[p].op
        /\ x.todo = call[p].todo /\ x.at \notin Holding
    BY <1>1, <1>4, AtOK DEF Place, Holding
  <1>6. Placed(x)
    BY <1>1, <1>2, <1>5, Here DEF Placed, Working
  <1>7. api' \in [Name -> {"none", "usable", "shut"}] /\ \A m \in Name \ {n} : api'[m] = api[m]
    BY <1>3, Typed
  <1>8. LeftAs(n)'
    <2>1. call'[p] = x /\ \A q \in Proc \ {p} : call'[q] = call[q] /\ Leaving(q)
      BY <1>3, <1>4, Others DEF Go
    <2> QED
      BY <1>3, <1>5, <1>7, <2>1, Typed DEF LeftAs, Leaving
  <1>10. removed'[n] = Gone => account'[n] = None /\ rec[n] = None
                               /\ api'[n] = "none" /\ ~Keyed(n)'
    BY <1>3, There DEF Keyed
  <1>9. faults' \in 0..MaxFaults
    BY <1>3, Typed
  <1> QED
    BY <1>1, <1>2, <1>3, <1>4, <1>5, <1>6, <1>7, <1>8, <1>9, <1>10,
       Typed, Leaves DEF Keyed

\* A key for a name without an account is told from the others.
LEMMA IssueLlmKeyOK ==
  ASSUME Inv, NEW p \in Proc, IssueLlmKey(p)
  PROVE  Inv'
  <1>1. PICK n \in Name : n = call[p].name
    BY Here DEF IssueLlmKey, Placed
  <1>2. call[p].at = "key"
    BY DEF IssueLlmKey
  <1>3. /\ Go(p, NoCall)
        /\ llm' \in {llm, llm \cup {<<n, account[n] # None>>}, llm \ Keys(n)}
        /\ faults' = faults \/ (faults < MaxFaults /\ faults' = faults + 1)
        /\ UNCHANGED <<account, api, rec, cloudflare, calls, removed>>
    BY <1>1 DEF IssueLlmKey, Attempt
  <1>4. LeftAs(n)'
    <2>1. call'[p] = NoCall /\ \A q \in Proc \ {p} : call'[q] = call[q] /\ Leaving(q)
      BY <1>3, Others DEF Go
    <2> QED
      BY <1>3, <2>1, NoCallPlaced DEF LeftAs, Leaving
  <1>5. faults' \in 0..MaxFaults
    BY <1>3, Typed
  <1>6. llm' \subseteq Name \X BOOLEAN
    <2>1. <<n, account[n] # None>> \in Name \X BOOLEAN
      OBVIOUS
    <2> QED
      BY <1>3, <2>1, Typed
  <1>7. /\ \A m \in Name \ {n} : Keyed(m)' => Keyed(m)
        /\ account[n] = None => (Keyed(n)' => Keyed(n))
    BY <1>3 DEF Keyed
  <1>8. removed'[n] = Gone => account'[n] = None /\ rec[n] = None
                              /\ api'[n] = "none" /\ ~Keyed(n)'
    BY <1>3, <1>7, There
  <1> QED
    BY <1>1, <1>2, <1>3, <1>4, <1>5, <1>6, <1>7, <1>8, Typed, NoCallPlaced, Leaves

\* The external API of a name that is left is not shut again.
LEMMA DisableApiOK ==
  ASSUME Inv, NEW p \in Proc, DisableApi(p)
  PROVE  Inv'
  <1>1. PICK n \in Name : n = call[p].name
    BY Here DEF DisableApi, Placed
  <1>2. call[p].at = "shut"
    BY DEF DisableApi
  <1>3. PICK x \in {NoCall, At(p, "wait")} : Go(p, x)
    BY DEF DisableApi, Step, Attempt
  <1>4. /\ api' = api \/ (api' = [api EXCEPT ![n] = "shut"]
                          /\ ~(account[n] = None /\ api[n] = "none"))
        /\ faults' = faults \/ (faults < MaxFaults /\ faults' = faults + 1)
        /\ UNCHANGED <<account, llm, rec, cloudflare, calls, removed>>
    BY <1>1 DEF DisableApi, Step, Attempt, others, counters
  <1>5. /\ x \in Calls /\ x.at \in {"idle", "wait"} /\ x.at \notin Holding
        /\ Placed(x)
    <2>1. CASE x = NoCall
      BY <2>1, NoCallPlaced
    <2>2. CASE x = At(p, "wait")
      <3>1. x \in Calls /\ x.at = "wait" /\ x.name = n /\ x.op = call[p].op
            /\ x.todo = call[p].todo
        BY <1>1, <2>2, AtOK DEF Place, Waiting
      <3> QED
        BY <1>1, <1>2, <3>1, Here DEF Placed, Working, Holding
    <2> QED
      BY <2>1, <2>2
  <1>6. call'[p] = x /\ \A q \in Proc \ {p} : call'[q] = call[q] /\ Leaving(q)
    BY <1>3, Others DEF Go
  <1>7. api' \in [Name -> {"none", "usable", "shut"}] /\ \A m \in Name \ {n} : api'[m] = api[m]
    BY <1>4, Typed
  <1>8. account[n] = None /\ api[n] = "none" => api'[n] = "none"
    BY <1>4
  <1>9. LeftAs(n)'
    BY <1>4, <1>5, <1>6, <1>8 DEF LeftAs, Leaving
  <1>11. faults' \in 0..MaxFaults
    BY <1>4, Typed
  <1> QED
    BY <1>1, <1>2, <1>3, <1>4, <1>5, <1>7, <1>8, <1>9, <1>11, Typed, There, Leaves DEF Keyed

\* The deletion that removes the account is the one that can be reported.
LEMMA DeleteLinuxUserOK ==
  ASSUME Inv, NEW p \in Proc, DeleteLinuxUser(p)
  PROVE  Inv'
  <1>1. PICK n \in Name : n = call[p].name
    BY Here DEF DeleteLinuxUser, Placed
  <1>2. call[p].at = "userdel"
    BY DEF DeleteLinuxUser
  <1>3. /\ faults' = faults \/ (faults < MaxFaults /\ faults' = faults + 1)
        /\ UNCHANGED <<api, llm, rec, cloudflare, calls>>
        /\ \/ Go(p, NoCall) /\ account' = account /\ removed' = removed
           \/ /\ Go(p, NoCall) \/ (Go(p, At(p, "records")) /\ account'[n] = None)
              /\ account' = account \/ account' = [account EXCEPT ![n] = None]
              /\ removed' = [removed EXCEPT ![n] = p]
    <2>1. [account EXCEPT ![n] = None][n] = None
      BY Typed
    <2> QED
      BY <1>1, <2>1 DEF DeleteLinuxUser, Step, Attempt, others, counters
  <1>4. faults' \in 0..MaxFaults
    BY <1>3, Typed
  <1>5. CASE Go(p, NoCall) /\ account' = account /\ removed' = removed
    <2>1. call'[p] = NoCall /\ \A q \in Proc \ {p} : call'[q] = call[q] /\ Leaving(q)
      BY <1>5, Others DEF Go
    <2>2. LeftAs(n)'
      BY <1>3, <1>5, <2>1, NoCallPlaced DEF LeftAs, Leaving
    <2> QED
      BY <1>1, <1>2, <1>3, <1>4, <1>5, <2>2, There, Typed, NoCallPlaced, Leaves
         DEF Keyed
  <1>6. CASE /\ Go(p, NoCall) \/ (Go(p, At(p, "records")) /\ account'[n] = None)
             /\ account' = account \/ account' = [account EXCEPT ![n] = None]
             /\ removed' = [removed EXCEPT ![n] = p]
    <2>1. PICK x \in {NoCall, At(p, "records")} : Go(p, x) /\ (x = NoCall \/ account'[n] = None)
      BY <1>6
    <2>2. /\ x \in Calls /\ x.at \in {"idle", "records"} /\ x.at \notin Holding /\ Placed(x)
          /\ x.at = "records" => x.name = n /\ account'[n] = None
      <3>1. CASE x = NoCall
        BY <3>1, NoCallPlaced
      <3>2. CASE x = At(p, "records") /\ account'[n] = None
        <4>1. x \in Calls /\ x.at = "records" /\ x.name = n /\ x.op = call[p].op
              /\ x.todo = call[p].todo
          BY <1>1, <3>2, AtOK DEF Place
        <4> QED
          BY <1>1, <1>2, <3>2, <4>1, Here DEF Placed, Working, Holding
      <3> QED
        BY <2>1, <3>1, <3>2
    <2>3. call'[p] = x /\ \A q \in Proc \ {p} : call'[q] = call[q]
      BY <2>1, Others DEF Go
    <2>4. /\ removed' \in [Name -> Proc \cup {None, Gone}]
          /\ removed'[n] = p
          /\ \A m \in Name \ {n} : removed'[m] = removed[m]
      BY <1>6, Typed
    <2>5. /\ account' \in [Name -> Id \cup {None}]
          /\ \A m \in Name \ {n} : account'[m] = account[m]
      BY <1>6, Typed
    <2>6. removed'[n] # Gone /\ \A q \in Proc : removed'[n] = q => q = p
      BY <2>4, Here
    <2>7. LeftAs(n)'
      BY <2>2, <2>3, <2>6 DEF LeftAs, Leaving
    <2>9. x.at \in {"provision", "key", "records", "forget", "revokeKey"} => x.name = n
      BY <2>2
    <2> QED
      BY <1>1, <1>2, <1>3, <1>4, <2>1, <2>2, <2>4, <2>5, <2>6, <2>7, <2>9, Typed, Leaves
         DEF Keyed
  <1> QED
    BY <1>3, <1>5, <1>6

\* The deletion knows from here on that the name has no external API.
LEMMA DeleteApiRecordsOK ==
  ASSUME Inv, NEW p \in Proc, DeleteApiRecords(p)
  PROVE  Inv'
  <1>1. PICK n \in Name : n = call[p].name
    BY Here DEF DeleteApiRecords, Placed
  <1>2. call[p].at = "records"
    BY DEF DeleteApiRecords
  <1>3. /\ faults' = faults \/ (faults < MaxFaults /\ faults' = faults + 1)
        /\ UNCHANGED <<account, llm, rec, cloudflare, calls, removed>>
        /\ api' = api \/ api' = [api EXCEPT ![n] = "none"]
        /\ Go(p, NoCall) \/ (Go(p, At(p, "forget")) /\ api' = [api EXCEPT ![n] = "none"])
    BY <1>1 DEF DeleteApiRecords, Step, Attempt, others, counters
  <1>4. PICK x \in {NoCall, At(p, "forget")} :
           Go(p, x) /\ (x = NoCall \/ api' = [api EXCEPT ![n] = "none"])
    BY <1>3
  <1>5. /\ api' \in [Name -> {"none", "usable", "shut"}] /\ api'[n] \in {api[n], "none"}
        /\ \A m \in Name \ {n} : api'[m] = api[m]
        /\ x # NoCall => api'[n] = "none"
    BY <1>3, <1>4, Typed
  <1>6. /\ x \in Calls /\ x.at \in {"idle", "forget"} /\ x.at \notin Holding /\ Placed(x)
        /\ x.at = "forget" => x.name = n /\ api'[n] = "none"
    <2>1. CASE x = NoCall
      BY <2>1, NoCallPlaced
    <2>2. CASE x = At(p, "forget") /\ api'[n] = "none"
      <3>1. x \in Calls /\ x.at = "forget" /\ x.name = n /\ x.op = call[p].op
            /\ x.todo = call[p].todo
        BY <1>1, <2>2, AtOK DEF Place, Waiting
      <3> QED
        BY <1>1, <1>2, <2>2, <3>1, Here DEF Placed, Working, Holding
    <2> QED
      BY <1>4, <1>5, <2>1, <2>2
  <1>7. call'[p] = x /\ \A q \in Proc \ {p} : call'[q] = call[q] /\ Leaving(q)
    BY <1>4, Others DEF Go
  <1>8. removed[n] = p => account[n] = None
    BY <1>1, <1>2, Here DEF Leaving
  <1>9. LeftAs(n)'
    BY <1>3, <1>5, <1>6, <1>7, <1>8 DEF LeftAs, Leaving
  <1>11. faults' \in 0..MaxFaults
    BY <1>3, Typed
  <1>12. x.at \in {"provision", "key", "records", "forget", "revokeKey"} => x.name = n
    BY <1>6
  <1> QED
    BY <1>1, <1>2, <1>3, <1>4, <1>5, <1>6, <1>9, <1>11, <1>12, There, Typed, Leaves
       DEF Keyed

\* The last step of a deletion that was not disturbed: nothing of the name is left.
LEMMA RevokeLlmKeyOK ==
  ASSUME Inv, NEW p \in Proc, RevokeLlmKey(p)
  PROVE  Inv'
  <1>1. PICK n \in Name : n = call[p].name
    BY Here DEF RevokeLlmKey, Placed
  <1>2. /\ call[p].at = "revokeKey" /\ Go(p, NoCall)
        /\ UNCHANGED <<account, api, rec, cloudflare, calls>>
    BY DEF RevokeLlmKey
  <1>3. /\ faults' = faults \/ (faults < MaxFaults /\ faults' = faults + 1)
        /\ llm' = llm \ Keys(n) \/ llm' = llm
        /\ \/ removed' = removed
           \/ /\ llm' = llm \ Keys(n)
              /\ removed' = [removed EXCEPT ![n] = IF removed[n] = p THEN Gone ELSE removed[n]]
    BY <1>1 DEF RevokeLlmKey
  <1>4. call'[p] = NoCall /\ \A q \in Proc \ {p} : call'[q] = call[q] /\ Leaving(q)
    BY <1>2, Others DEF Go
  <1>5. removed[n] = p => account[n] = None /\ rec[n] = None /\ api[n] = "none"
    BY <1>1, <1>2, Here DEF Leaving
  <1>6. /\ removed' \in [Name -> Proc \cup {None, Gone}]
        /\ \A m \in Name \ {n} : removed'[m] = removed[m]
        /\ \/ removed'[n] = removed[n]
           \/ removed[n] = p /\ removed'[n] = Gone /\ ~Keyed(n)'
    BY <1>3, Typed DEF Keyed, Keys
  <1>7. LeftAs(n)'
    BY <1>2, <1>4, <1>6, NoCallPlaced, Here DEF LeftAs, Leaving
  <1>10. faults' \in 0..MaxFaults /\ llm' \subseteq Name \X BOOLEAN /\ \A m \in Name : Keyed(m)' => Keyed(m)
    BY <1>3, Typed DEF Keyed
  <1>11. removed'[n] = Gone =>
            account[n] = None /\ rec[n] = None /\ api[n] = "none" /\ ~Keyed(n)'
    BY <1>5, <1>6, <1>10, There
  <1> QED
    BY <1>1, <1>2, <1>6, <1>7, <1>10, <1>11, Typed, NoCallPlaced, Leaves

-----------------------------------------------------------------------------
\* The external API and the key are changed by others than the calls, with care
\* for names that are left.
LEMMA Elsewhere ==
  ASSUME Inv, NEW n \in Name, UNCHANGED <<account, rec, cloudflare, queue, call, removed>>,
         calls' \in 0..MaxCalls, faults' \in 0..MaxFaults,
         api' \in [Name -> {"none", "usable", "shut"}], llm' \subseteq Name \X BOOLEAN,
         \A m \in Name \ {n} : api'[m] = api[m] /\ (Keyed(m)' => Keyed(m)),
         account[n] = None /\ api[n] = "none" => api'[n] = "none",
         account[n] = None => (Keyed(n)' => Keyed(n))
  PROVE  Inv'
  <1>1. ASSUME NEW m \in Name, account[m] = None
        PROVE  (api[m] = "none" => api'[m] = "none") /\ (Keyed(m)' => Keyed(m))
    BY <1>1
  <1>2. ASSUME NEW q \in Proc PROVE Leaving(q)'
    <2>1. Leaving(q) /\ Placed(call[q])
      BY Here
    <2>2. CASE call[q].at \in {"records", "forget", "revokeKey"}
      <3>1. call[q].name \in Name
        BY <2>1, <2>2 DEF Placed
      <3> QED
        BY <1>1, <2>1, <3>1 DEF Leaving
    <2> QED
      BY <2>1, <2>2 DEF Leaving
  <1>3. ASSUME NEW m \in Name
        PROVE  removed'[m] = Gone => /\ account'[m] = None /\ rec'[m] = None
                                     /\ api'[m] = "none" /\ ~Keyed(m)'
    BY <1>1, There
  <1>4. RemovedOK'
    BY <1>2, <1>3 DEF RemovedOK
  <1>5. TypeOK' /\ QueueOK' /\ RecordsOK' /\ TokensOK'
    BY DEF Inv, TypeOK, QueueOK, RecordsOK, TokensOK, TokensOnRecord, cloudflare
  <1>6. CallsOK'
    BY DEF Inv, CallsOK, Placed, Knows, cloudflare
  <1> QED
    BY <1>4, <1>5, <1>6 DEF Inv

\* None of them makes anything for a name without an account.
LEMMA ElsewhereOK ==
  ASSUME Inv, NEW n \in Name, \/ SetApiAccess(n) \/ SynchronizeApi(n)
                               \/ RotateLlmKey(n) \/ DisableLlm(n)
  PROVE  Inv'
  <1>1. CASE SetApiAccess(n)
    BY <1>1, Typed, Elsewhere DEF SetApiAccess, Keyed
  <1>2. CASE SynchronizeApi(n)
    BY <1>2, Typed, Elsewhere DEF SynchronizeApi, Keyed, counters
  <1>3. CASE RotateLlmKey(n)
    <2>0. <<n, TRUE>> \in Name \X BOOLEAN
      OBVIOUS
    <2>1. llm' \subseteq Name \X BOOLEAN
      BY <1>3, <2>0, Typed DEF RotateLlmKey
    <2> QED
      BY <1>3, <2>1, Typed, Elsewhere DEF RotateLlmKey, Keyed
  <1>4. CASE DisableLlm(n)
    BY <1>4, Typed, Elsewhere DEF DisableLlm, Keyed
  <1> QED
    BY <1>1, <1>2, <1>3, <1>4

\* At first there is no call.
LEMMA InitOK == Init => Inv
  <1> SUFFICES ASSUME Init PROVE Inv
    OBVIOUS
  <1>1. /\ NoCall \in Calls /\ NoCall.at = "idle" /\ NoCall.op = "none" /\ NoCall.todo = {}
    BY DEF NoCall, Calls, Place
  <1>2. Placed(NoCall) /\ Knows(NoCall) /\ NoCall.at \notin Lined
    BY <1>1 DEF Placed, Knows, Working, Lined, Waiting, Holding
  <1>3. call \in [Proc -> Calls] /\ \A p \in Proc : call[p] = NoCall
    BY <1>1 DEF Init
  <1>4. TypeOK
    BY <1>2, <1>3, ConstantsAssumption DEF Init, TypeOK, Lined
  <1>5. QueueOK
    BY <1>2, <1>3 DEF Init, QueueOK, Lined
  <1>6. CallsOK /\ RecordsOK /\ TokensOK
    BY <1>2, <1>3 DEF Init, CallsOK, RecordsOK, TokensOK, TokensOnRecord
  <1>7. RemovedOK
    BY <1>1, <1>3, ConstantsAssumption DEF Init, RemovedOK, Leaving
  <1> QED
    BY <1>4, <1>5, <1>6, <1>7 DEF Inv

\* A restart ends every call and takes the lock from all; what is stored is
\* sound by itself.
LEMMA RestartOK ==
  ASSUME Inv, Restart
  PROVE  Inv'
  <1>1. /\ NoCall \in Calls /\ NoCall.at = "idle" /\ NoCall.todo = {}
        /\ NoCall.at \notin Lined /\ Placed(NoCall)
    BY NoCallOK DEF Lined, Waiting, Holding
  <1>2. /\ call' \in [Proc -> Calls] /\ \A p \in Proc : call'[p] = NoCall
        /\ queue' = <<>> /\ faults' \in 0..MaxFaults
        /\ UNCHANGED <<others, rec, cloudflare, calls, removed>>
    BY <1>1, Typed DEF Restart
  <1>3. TypeOK' /\ RecordsOK' /\ TokensOK'
    BY <1>1, <1>2 DEF Inv, TypeOK, RecordsOK, TokensOK, TokensOnRecord, cloudflare, others,
           Lined
  <1>4. QueueOK' /\ CallsOK'
    BY <1>1, <1>2 DEF QueueOK, CallsOK, Placed, Knows, Working, Lined
  <1>5. RemovedOK'
    BY <1>1, <1>2, There DEF RemovedOK, Keyed, Leaving, others
  <1> QED
    BY <1>3, <1>4, <1>5 DEF Inv

\* Every step keeps the invariant.
LEMMA StepOK == Inv /\ [Next]_vars => Inv'
  <1> SUFFICES ASSUME Inv, [Next]_vars PROVE Inv'
    OBVIOUS
  <1>1. ASSUME NEW t \in Task, NEW n \in Name,
               \/ BeginExecute(t, n) \/ BeginSetAllowed(t, n)
               \/ BeginCreate(t, n) \/ BeginEnable(t, n) \/ BeginOpenwebui(t, n)
               \/ BeginDelete(t, n)
        PROVE  Inv'
    BY <1>1, BeginOK DEF BeginExecute, BeginSetAllowed, BeginCreate, BeginEnable,
       BeginOpenwebui, BeginDelete, Op, UserOp
  <1>2. ASSUME NEW p \in Proc, Coroutine(p) PROVE Inv'
    BY <1>2, ExecuteOK, SetAllowedOK, BeginRevocationOK, FinishAllowingOK, StopSshOK, PostOK, RotateOK, RemoveOK,
       ReconcileOK, EnterSyncOK, ListUsersOK, NextRecordOK, LastReconcileOK, CreateLinuxUserOK,
       ProvisionOK, IssueLlmKeyOK, DisableApiOK, DeleteLinuxUserOK, DeleteApiRecordsOK,
       ForgetSshOK, RevokeLlmKeyOK DEF Coroutine
  <1>3. CASE UNCHANGED vars
    <2>1. UNCHANGED <<account, api, llm, rec, cloudflare, queue, call, calls, faults, removed>>
      BY <1>3 DEF vars, others, counters
    <2>2. TypeOK' /\ QueueOK' /\ RecordsOK' /\ TokensOK'
      BY <2>1 DEF Inv, TypeOK, QueueOK, RecordsOK, TokensOK, TokensOnRecord, cloudflare
    <2>3. CallsOK' /\ RemovedOK'
      BY <2>1 DEF Inv, CallsOK, Placed, Knows, RemovedOK, Keyed, Leaving, cloudflare
    <2> QED
      BY <2>2, <2>3 DEF Inv
  <1> QED
    BY <1>1, <1>2, <1>3, ElsewhereOK, SynchroniseOK, RestartOK DEF Next

-----------------------------------------------------------------------------
\* The invariant of the proofs holds whatever is called, fails or restarts.
THEOREM Invariance == Spec => []Inv
  BY InitOK, StepOK, PTL DEF Spec

\* Every state is well formed, and whoever works under the SSH lock is the
\* first of those in line for it (ssh_access_usecase.py, the asyncio lock).
THEOREM TypeCorrect == Spec => []TypeOK
  <1>1. Inv => TypeOK
    BY DEF Inv
  <1> QED
    BY <1>1, Invariance, PTL

\* No Service Token whose secret the portal has shown is ever lost sight of: it
\* is removed, or on the record of its user (SshAccessUseCase).
THEOREM NoTokenLost == Spec => []TokensOnRecord
  <1>1. Inv => TokensOnRecord
    BY DEF Inv, TokensOK
  <1> QED
    BY <1>1, Invariance, PTL

\* A deletion that is reported complete has left nothing of the name behind, and
\* nothing comes back (DeleteAccountUseCase).
THEOREM DeletionForgets == Spec => []DeletedIsForgotten
  <1>1. Inv => DeletedIsForgotten
    BY DEF Inv, RemovedOK, DeletedIsForgotten, Keyed
  <1> QED
    BY <1>1, Invariance, PTL
=============================================================================
