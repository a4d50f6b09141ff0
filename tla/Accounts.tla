------------------------------ MODULE Accounts ------------------------------
(***************************************************************************)
(* The life of a Linux account in the portal, and the SSH access that      *)
(* hangs on it: a Service Token for each user, on record in the portal's   *)
(* store, and one Cloudflare Access application for all of them, whose     *)
(* policy admits the tokens of the users on record.                        *)
(*                                                                         *)
(* The deletion of an account stops the external API and SSH before it     *)
(* removes the Linux user, and forgets both and the key of the language    *)
(* models after that.  Of those two the module keeps what a deletion and a *)
(* creation see of them; ApiCredentials and LlmAccess are their models.    *)
(*                                                                         *)
(* The calls are coroutines of the portal's event loop.  An asyncio lock,  *)
(* which is first come, first served, orders what is done to SSH; useradd  *)
(* and userdel run in worker threads, beside it.                           *)
(*                                                                         *)
(* A definition whose name begins with M_ is never used: it is the next    *)
(* definition with a plausible error, which the properties must notice.    *)
(***************************************************************************)
EXTENDS Naturals, Sequences

CONSTANTS
    Name,        \* names of users
    Id,          \* a Linux UID with the number of a Hub user
    Token,       \* Service Tokens Cloudflare can make, up to its limit
    Task,        \* calls in progress
    Sync,        \* the periodic synchronisation
    None,
    Gone,        \* a Service Token that was removed
    MaxCalls,    \* bound on calls
    MaxFaults    \* bound on requests and commands that fail, and on restarts

Proc == Task \cup {Sync}

UserOp == {"issue", "rotate", "revoke"}
Op == UserOp \cup {"allow", "deny", "create", "delete", "llm", "sync"}
State == {"unissued", "issuing", "ready", "rotating", "revoking", "disabled"}

Records == [id : Id, enabled : BOOLEAN, state : State, token : Token \cup {None}]

ASSUME ConstantsAssumption ==
    /\ Sync \notin Task
    /\ None \notin Name \cup Id \cup Token \cup Proc
    /\ None \notin Records
    /\ None \notin Name \X Id
    /\ Gone \notin Proc \cup {None}
    /\ Gone \notin Name \X Id
    /\ MaxCalls \in Nat
    /\ MaxFaults \in Nat

\* Places of calls at which the SSH lock is held.
Holding == {"post", "rotate", "allow", "begin", "remove", "policy", "users", "next", "last"}
Waiting == {"wait", "forget"}
Place == Waiting \cup Holding \cup
         {"idle", "useradd", "provision", "key", "shut", "userdel", "records", "revokeKey"}

VARIABLES
    account,     \* the Linux accounts
    api,         \* the external API of each name: none, usable or shut
    llm,         \* the names with a key LiteLLM accepts, and whether there was an
                 \* account of the name when it was generated
    rec,         \* store: ssh_credentials
    token,       \* Cloudflare: whose each Service Token is
    policy,      \* Cloudflare: tokens the Access application admits
    queue,       \* SshAccessUseCase.lock: its holder and those who wait for it
    call,        \* the calls in progress
    calls, faults,
    told,        \* history: tokens whose secret reached the portal
    removed      \* history: the deletion that removed the account, or Gone when
                 \* it was reported complete

cloudflare == <<token, policy, told>>
others == <<account, api, llm>>
counters == <<calls, faults>>
vars == <<others, rec, cloudflare, queue, call, counters, removed>>

NoCall == [op |-> "none", name |-> None, at |-> "idle", drop |-> FALSE,
           todo |-> {}, seen |-> {}]

Calls == [op : Op \cup {"none"}, name : Name \cup {None}, at : Place,
          drop : BOOLEAN, todo : SUBSET Name, seen : SUBSET Name]

TypeOK ==
    /\ account \in [Name -> Id \cup {None}]
    /\ api \in [Name -> {"none", "usable", "shut"}]
    /\ llm \subseteq Name \X BOOLEAN
    /\ rec \in [Name -> Records \cup {None}]
    /\ token \in [Token -> (Name \X Id) \cup {None, Gone}]
    /\ policy \subseteq Token
    /\ queue \in Seq(Proc)
    /\ call \in [Proc -> Calls]
    /\ calls \in 0..MaxCalls
    /\ faults \in 0..MaxFaults
    /\ told \subseteq Token
    /\ removed \in [Name -> Proc \cup {None, Gone}]
    /\ \A p \in Proc : call[p].at \in Holding => queue # <<>> /\ p = Head(queue)

Init ==
    /\ account = [n \in Name |-> None]
    /\ api = [n \in Name |-> "none"]
    /\ llm = {}
    /\ rec = [n \in Name |-> None]
    /\ token = [k \in Token |-> None]
    /\ policy = {}
    /\ queue = <<>>
    /\ call = [p \in Proc |-> NoCall]
    /\ calls = 0
    /\ faults = 0
    /\ told = {}
    /\ removed = [n \in Name |-> None]

-----------------------------------------------------------------------------
\* The lock, and how calls go on

\* asyncio.Lock: a call that asks for it stands last, and the first may enter.
Go(p, c) ==
    /\ call' = [call EXCEPT ![p] = c]
    /\ queue' =
         LET rest == IF call[p].at \in Waiting \cup Holding THEN Tail(queue) ELSE queue
         IN  CASE c.at \in Holding -> queue
               [] c.at \in Waiting -> Append(rest, p)
               [] OTHER -> rest

At(p, place) == [call[p] EXCEPT !.at = place]

\* An exception: a synchronisation takes the next name, all others end.
Raised(p) ==
    IF call[p].op = "sync" /\ call[p].at # "last"
    THEN [At(p, "next") EXCEPT !.name = None, !.drop = FALSE]
    ELSE NoCall

\* Work on a record is done: a deletion goes on, the rest is as above.
Done(p) == IF call[p].op = "delete" THEN At(p, "userdel") ELSE Raised(p)

\* A request or command with the given effect.  It is answered; or it fails,
\* with or without having been carried out, and the call goes on with an error.
Attempt(p, Effect, Same, answered, refused) ==
    \/ Effect /\ Go(p, answered) /\ UNCHANGED faults
    \/ /\ faults < MaxFaults
       /\ faults' = faults + 1
       /\ Effect \/ Same
       /\ Go(p, refused)

M_Enters(p, place) == call[p].at = place

Enters(p, place) == call[p].at = place /\ Head(queue) = p

\* Work on the record of a name, under the lock.
Mine(p) == rec[call[p].name]
Put(p, r) == rec' = [rec EXCEPT ![call[p].name] = r]

\* store.put or store.delete, and on to the next place.
Save(p, r, c) ==
    /\ Put(p, r)
    /\ Go(p, c)
    /\ UNCHANGED <<others, cloudflare, counters, removed>>

Step(p, c) ==
    Go(p, c) /\ UNCHANGED <<others, rec, cloudflare, counters, removed>>

-----------------------------------------------------------------------------
\* Calls begin

Begin(t, op, n, place) ==
    /\ call[t].at = "idle"
    /\ calls < MaxCalls
    /\ calls' = calls + 1
    /\ Go(t, [NoCall EXCEPT !.op = op, !.name = n, !.at = place])
    /\ UNCHANGED <<others, rec, cloudflare, faults, removed>>

\* SshCredentials.post, by anybody who is logged in, an account or not.
BeginExecute(t, n) == \E op \in UserOp : Begin(t, op, n, "wait")

\* SetAccountSshAccessUseCase; the Hub's user is prepared first, which fails
\* without an account.
BeginSetAllowed(t, n) ==
    /\ account[n] # None
    /\ Begin(t, "allow", n, "wait") \/ Begin(t, "deny", n, "wait")

BeginCreate(t, n) == Begin(t, "create", n, "useradd")

\* SetLlmAccessUseCase, in a worker thread: an enabling looks for the account,
\* and may generate a key many requests later.
BeginEnable(t, n) == account[n] # None /\ Begin(t, "llm", n, "key")

\* The key of an Open WebUI job, for anybody who is logged in: no account is
\* looked for.
BeginOpenwebui(t, n) == Begin(t, "llm", n, "key")

\* The page lists the accounts there are, or a deletion is tried again.
BeginDelete(t, n) == Begin(t, "delete", n, "shut")

\* Every 30 seconds, one after the other.
Synchronise ==
    /\ call[Sync].at = "idle"
    /\ Go(Sync, [NoCall EXCEPT !.op = "sync", !.at = "wait"])
    /\ UNCHANGED <<others, rec, cloudflare, counters, removed>>

-----------------------------------------------------------------------------
\* SshAccessUseCase: issue and revoke, whoever calls them

\* The tokens reconcile puts into the policy.
Wanted ==
    {k \in Token : \E n \in Name :
        /\ rec[n] # None
        /\ rec[n].enabled
        /\ rec[n].state \in {"issuing", "ready", "rotating"}
        /\ rec[n].token = k}

\* What is left to do of an issue, by what the record says.
IssueFrom(r) ==
    CASE r.token = None -> "post"
      [] r.token # None /\ r.state = "rotating" -> "rotate"
      [] OTHER -> "policy"

RevokeFrom(r) == IF r.token = None THEN "policy" ELSE "remove"

\* issue: the record is saved, and what is missing is done.
Issue(p, r) == Save(p, r, At(p, IssueFrom(r)))

\* revoke: the token is out of the wanted ones before it is removed.
Revoke(p, r, c) ==
    Save(p, [r EXCEPT !.state = "revoking"], [c EXCEPT !.at = RevokeFrom(r)])

\* CloudflareAccessClient.issue looks for a token with the name of this user
\* first and, if an answer was lost, finds it and gives it a new secret.
Candidates(label) ==
    LET mine == {k \in Token : token[k] = label}
    IN  IF mine # {} THEN mine ELSE {k \in Token : token[k] = None}

Post(p) ==
    LET label == <<call[p].name, Mine(p).id>>
    IN  /\ call[p].at = "post"
        /\ IF Candidates(label) = {} THEN Step(p, Raised(p))
           ELSE \E k \in Candidates(label) :
                  LET saved == [Mine(p) EXCEPT !.token = k]
                  IN  \/ /\ token' = [token EXCEPT ![k] = label]
                         /\ told' = told \cup {k}
                         /\ Put(p, saved)
                         /\ Go(p, At(p, IssueFrom(saved)))
                         /\ UNCHANGED faults
                      \/ /\ faults < MaxFaults
                         /\ faults' = faults + 1
                         /\ token' = [token EXCEPT ![k] = label] \/ UNCHANGED token
                         /\ Go(p, Raised(p))
                         /\ UNCHANGED <<rec, told>>
        /\ UNCHANGED <<others, policy, calls, removed>>

\* The secret of the token is replaced; without an answer the record stays.
Rotate(p) ==
    /\ call[p].at = "rotate"
    /\ \/ /\ Put(p, [Mine(p) EXCEPT !.state = "issuing"])
          /\ Go(p, At(p, "policy"))
          /\ UNCHANGED faults
       \/ /\ faults < MaxFaults
          /\ faults' = faults + 1
          /\ Go(p, Raised(p))
          /\ UNCHANGED rec
    /\ UNCHANGED <<others, cloudflare, calls, removed>>

M_Remove(p) ==
    /\ call[p].at = "remove"
    /\ Attempt(p, token' = [token EXCEPT ![Mine(p).token] = Gone], UNCHANGED token,
               At(p, "policy"), At(p, "policy"))
    /\ UNCHANGED <<others, rec, policy, told, calls, removed>>

\* A token that is not there is taken for removed.
Remove(p) ==
    /\ call[p].at = "remove"
    /\ Attempt(p, token' = [token EXCEPT ![Mine(p).token] = Gone], UNCHANGED token,
               At(p, "policy"), Raised(p))
    /\ UNCHANGED <<others, rec, policy, told, calls, removed>>

\* The record when the policy is written: the issue is complete, or the token
\* is forgotten, and with it the record of a former user.
Finished(p) ==
    LET r == Mine(p)
    IN  CASE r.state # "revoking" -> [r EXCEPT !.state = "ready"]
          [] r.state = "revoking" /\ call[p].drop -> None
          [] OTHER -> [r EXCEPT !.token = None,
                                !.state = IF r.enabled THEN "unissued" ELSE "disabled"]

\* reconcile: the policy of all users is replaced.
Reconcile(p) ==
    /\ call[p].at = "policy"
    /\ \/ policy' = Wanted /\ Put(p, Finished(p)) /\ Go(p, Done(p)) /\ UNCHANGED faults
       \/ /\ faults < MaxFaults
          /\ faults' = faults + 1
          /\ policy' = Wanted \/ UNCHANGED policy
          /\ Go(p, Raised(p))
          /\ UNCHANGED rec
    /\ UNCHANGED <<others, token, told, calls, removed>>

-----------------------------------------------------------------------------
\* SshAccessUseCase: execute and set_allowed

\* record: the identity of the account now, and the stored record unless it is
\* of another identity, which is an error.
Identified(n) == account[n] # None /\ (rec[n] # None => rec[n].id = account[n])

Current(n) ==
    IF rec[n] # None THEN rec[n]
    ELSE [id |-> account[n], enabled |-> TRUE, state |-> "unissued", token |-> None]

Execute(p) ==
    LET r == Current(call[p].name)
        op == call[p].op
    IN  /\ op \in UserOp
        /\ Enters(p, "wait")
        /\ CASE ~Identified(call[p].name) -> Step(p, NoCall)
             [] Identified(call[p].name) /\ ~r.enabled -> Step(p, NoCall)
             [] OTHER ->
                  \/ op = "revoke" /\ Revoke(p, r, call[p])
                  \/ /\ op = "rotate" /\ r.state = "ready"
                     /\ Issue(p, [r EXCEPT !.state = "rotating"])
                  \/ /\ op = "issue" /\ r.state \in {"unissued", "issuing"}
                     /\ Issue(p, [r EXCEPT !.state = "issuing"])
                  \/ /\ \/ op = "rotate" /\ r.state # "ready"
                        \/ op = "issue" /\ r.state \notin {"unissued", "issuing"}
                     /\ Step(p, NoCall)

\* The denial is saved before the revocation is begun, the permission before the
\* state that goes with it.
SetAllowed(p) ==
    LET r == Current(call[p].name)
        op == call[p].op
    IN  /\ op \in {"allow", "deny"}
        /\ Enters(p, "wait")
        /\ CASE ~Identified(call[p].name) -> Step(p, NoCall)
             [] Identified(call[p].name) /\ op = "deny" ->
                  Save(p, [r EXCEPT !.enabled = FALSE], At(p, "begin"))
             [] OTHER ->
                  IF r.state = "revoking" THEN Step(p, NoCall)
                  ELSE Save(p, [r EXCEPT !.enabled = TRUE], At(p, "allow"))

BeginRevocation(p) == call[p].at = "begin" /\ Revoke(p, Mine(p), call[p])

FinishAllowing(p) ==
    /\ call[p].at = "allow"
    /\ Save(p, [Mine(p) EXCEPT !.state = IF @ = "disabled" THEN "unissued" ELSE @], NoCall)

\* delete_user: without a record there is nothing to stop.
StopSsh(p) ==
    LET n == call[p].name
    IN  /\ call[p].op = "delete"
        /\ Enters(p, "wait")
        /\ IF rec[n] = None THEN Step(p, At(p, "userdel"))
           ELSE Revoke(p, [rec[n] EXCEPT !.enabled = FALSE], call[p])

-----------------------------------------------------------------------------
\* SshAccessUseCase.synchronize

EnterSync(p) ==
    /\ call[p].op = "sync"
    /\ Enters(p, "wait")
    /\ Step(p, At(p, "users"))

\* The accounts are listed in a worker thread, and then the records.
ListUsers(p) ==
    /\ call[p].at = "users"
    /\ Step(p, [At(p, "next") EXCEPT !.seen = {n \in Name : account[n] # None},
                                     !.todo = {n \in Name : rec[n] # None}])

\* The next record: one without an account, or of another one, is revoked and
\* removed; what an error or a restart left is done; the rest stays.
M_Next(p) ==
    /\ call[p].at = "next"
    /\ \/ call[p].todo = {} /\ Step(p, At(p, "last"))
       \/ \E n \in call[p].todo :
            LET r == rec[n]
                mine == [call[p] EXCEPT !.todo = @ \ {n}, !.name = n]
            IN  IF r.enabled /\ r.state \in {"issuing", "rotating"}
                THEN Step(p, [mine EXCEPT !.at = IssueFrom(r)])
                ELSE Step(p, [mine EXCEPT !.name = None])

NextRecord(p) ==
    /\ call[p].at = "next"
    /\ \/ call[p].todo = {} /\ Step(p, At(p, "last"))
       \/ \E n \in call[p].todo :
            LET r == rec[n]
                mine == [call[p] EXCEPT !.todo = @ \ {n}, !.name = n]
                RevokeAs(enabled, drop) ==
                  /\ rec' = [rec EXCEPT ![n].enabled = enabled, ![n].state = "revoking"]
                  /\ Go(p, [mine EXCEPT !.at = RevokeFrom(r), !.drop = drop])
                  /\ UNCHANGED <<others, cloudflare, counters, removed>>
                former == account[n] # None /\ r.id # account[n]
            IN  CASE n \notin call[p].seen \/ former -> RevokeAs(FALSE, TRUE)
                  [] n \in call[p].seen /\ ~former /\ account[n] # None
                       /\ r.state = "revoking" -> RevokeAs(r.enabled, FALSE)
                  [] n \in call[p].seen /\ ~former /\ account[n] # None
                       /\ r.enabled /\ r.state \in {"issuing", "rotating"} ->
                       Step(p, [mine EXCEPT !.at = IssueFrom(r)])
                  [] OTHER -> Step(p, [mine EXCEPT !.name = None])

\* At last the policy is written once more.
LastReconcile(p) ==
    /\ call[p].at = "last"
    /\ Attempt(p, policy' = Wanted, UNCHANGED policy, NoCall, NoCall)
    /\ UNCHANGED <<others, rec, token, told, calls, removed>>

-----------------------------------------------------------------------------
\* CreateAccountUseCase

\* useradd in a worker thread.  The identity is new, or a former one.
CreateLinuxUser(p) ==
    LET n == call[p].name
    IN  /\ call[p].at = "useradd"
        /\ IF account[n] # None THEN Step(p, NoCall)
           ELSE \E i \in Id :
                  /\ \A m \in Name : account[m] # i
                  /\ \/ /\ account' = [account EXCEPT ![n] = i]
                        /\ removed' = [removed EXCEPT ![n] = None]
                        /\ Go(p, At(p, "provision")) /\ UNCHANGED faults
                     \/ /\ faults < MaxFaults /\ faults' = faults + 1
                        /\ Go(p, NoCall) /\ UNCHANGED <<account, removed>>
                  /\ UNCHANGED <<api, llm, rec, cloudflare, calls>>

\* ProvisionAccountApiUseCase; its errors are left to the synchronisation.
Provision(p) ==
    LET n == call[p].name
        used == IF account[n] # None /\ api[n] = "none" THEN "usable" ELSE api[n]
    IN  /\ call[p].at = "provision"
        /\ Attempt(p, api' = [api EXCEPT ![n] = used], UNCHANGED api,
                   At(p, "key"), At(p, "key"))
        /\ UNCHANGED <<account, llm, rec, cloudflare, calls, removed>>

\* The keys of a name.
Keys(n) == {n} \X BOOLEAN

\* IssueLlmKeyUseCase, in a worker thread, which does not look for the account;
\* errors make a warning.  An enabling or an Open WebUI job may find a key, and
\* an enabling that fails blocks what there is.
IssueLlmKey(p) ==
    LET n == call[p].name
    IN  /\ call[p].at = "key"
        /\ \/ Attempt(p, llm' = llm \cup {<<n, account[n] # None>>}, UNCHANGED llm,
                      NoCall, NoCall)
           \/ /\ call[p].op = "llm"
              /\ llm' \in {llm, llm \ Keys(n)}
              /\ Go(p, NoCall)
              /\ UNCHANGED faults
        /\ UNCHANGED <<account, api, rec, cloudflare, calls, removed>>

-----------------------------------------------------------------------------
\* DeleteAccountUseCase

\* DisableAccountApiUseCase: a name without record needs an account for one.
DisableApi(p) ==
    LET n == call[p].name
    IN  /\ call[p].at = "shut"
        /\ IF account[n] = None /\ api[n] = "none" THEN Step(p, NoCall)
           ELSE /\ Attempt(p, api' = [api EXCEPT ![n] = "shut"], UNCHANGED api,
                           At(p, "wait"), NoCall)
                /\ UNCHANGED <<account, llm, rec, cloudflare, calls, removed>>

\* userdel in a worker thread, which may report an error for a user it removed.
DeleteLinuxUser(p) ==
    LET n == call[p].name
    IN  /\ call[p].at = "userdel"
        /\ IF account[n] = None THEN Step(p, NoCall)
           ELSE /\ Attempt(p, account' = [account EXCEPT ![n] = None], UNCHANGED account,
                           At(p, "records"), NoCall)
                /\ removed' = [removed EXCEPT ![n] = p]
                /\ UNCHANGED <<api, llm, rec, cloudflare, calls>>

\* DeleteAccountApiRecordsUseCase: only what was shut.
DeleteApiRecords(p) ==
    LET n == call[p].name
    IN  /\ call[p].at = "records"
        /\ IF api[n] = "usable" THEN Step(p, NoCall)
           ELSE /\ Attempt(p, api' = [api EXCEPT ![n] = "none"], UNCHANGED api,
                           At(p, "forget"), NoCall)
                /\ UNCHANGED <<account, llm, rec, cloudflare, calls, removed>>

M_ForgetSsh(p) ==
    LET n == call[p].name
    IN  /\ Enters(p, "forget")
        /\ IF rec[n] # None /\ rec[n].state # "disabled" THEN Step(p, At(p, "revokeKey"))
           ELSE Save(p, None, At(p, "revokeKey"))

\* forget_user: only a record whose token is revoked.
ForgetSsh(p) ==
    LET n == call[p].name
    IN  /\ Enters(p, "forget")
        /\ IF rec[n] # None /\ rec[n].state # "disabled" THEN Step(p, NoCall)
           ELSE Save(p, None, At(p, "revokeKey"))

\* RevokeLlmAccessUseCase; a key that may be left makes a warning.
RevokeLlmKey(p) ==
    LET n == call[p].name
    IN  /\ call[p].at = "revokeKey"
        /\ \/ /\ llm' = llm \ Keys(n)
              /\ removed' = [removed EXCEPT ![n] = IF @ = p THEN Gone ELSE @]
              /\ UNCHANGED faults
           \/ /\ faults < MaxFaults /\ faults' = faults + 1
              /\ llm' = llm \ Keys(n) \/ UNCHANGED llm
              /\ UNCHANGED removed
        /\ Go(p, NoCall)
        /\ UNCHANGED <<account, api, rec, cloudflare, calls>>

-----------------------------------------------------------------------------
\* What else changes the external API and the key: SetAccountApiAccessUseCase,
\* the synchronisation of the external API, RotateLlmKeyUseCase, which keeps the
\* event loop to itself, and SetLlmAccessUseCase when access is stopped.
SetApiAccess(n) ==
    /\ calls < MaxCalls /\ calls' = calls + 1
    /\ \/ account[n] # None /\ api' = [api EXCEPT ![n] = "usable"]
       \/ (account[n] # None \/ api[n] # "none") /\ api' = [api EXCEPT ![n] = "shut"]
    /\ UNCHANGED <<account, llm, rec, cloudflare, queue, call, faults, removed>>

SynchronizeApi(n) ==
    /\ \/ account[n] # None /\ api[n] = "none" /\ api' = [api EXCEPT ![n] = "usable"]
       \/ account[n] = None /\ api[n] # "none" /\ api' = [api EXCEPT ![n] = "none"]
    /\ UNCHANGED <<account, llm, rec, cloudflare, queue, call, counters, removed>>

RotateLlmKey(n) ==
    /\ account[n] # None
    /\ calls < MaxCalls /\ calls' = calls + 1
    /\ llm' = llm \cup {<<n, TRUE>>}
    /\ UNCHANGED <<account, api, rec, cloudflare, queue, call, faults, removed>>

DisableLlm(n) ==
    /\ account[n] # None
    /\ calls < MaxCalls /\ calls' = calls + 1
    /\ llm' = llm \ Keys(n)
    /\ UNCHANGED <<account, api, rec, cloudflare, queue, call, faults, removed>>

\* The portal restarts: the calls and the lock are gone, the stores remain.
Restart ==
    /\ faults < MaxFaults /\ faults' = faults + 1
    /\ call' = [p \in Proc |-> NoCall]
    /\ queue' = <<>>
    /\ UNCHANGED <<others, rec, cloudflare, calls, removed>>

Coroutine(p) ==
    \/ Execute(p) \/ SetAllowed(p) \/ BeginRevocation(p) \/ FinishAllowing(p) \/ StopSsh(p)
    \/ Post(p) \/ Rotate(p) \/ Remove(p) \/ Reconcile(p)
    \/ EnterSync(p) \/ ListUsers(p) \/ NextRecord(p) \/ LastReconcile(p)
    \/ CreateLinuxUser(p) \/ Provision(p) \/ IssueLlmKey(p)
    \/ DisableApi(p) \/ DeleteLinuxUser(p) \/ DeleteApiRecords(p)
    \/ ForgetSsh(p) \/ RevokeLlmKey(p)

Next ==
    \/ \E t \in Task, n \in Name :
         \/ BeginExecute(t, n) \/ BeginSetAllowed(t, n)
         \/ BeginCreate(t, n) \/ BeginEnable(t, n) \/ BeginOpenwebui(t, n)
         \/ BeginDelete(t, n)
    \/ \E n \in Name : \/ SetApiAccess(n) \/ SynchronizeApi(n)
                       \/ RotateLlmKey(n) \/ DisableLlm(n)
    \/ Synchronise
    \/ \E p \in Proc : Coroutine(p)
    \/ Restart

Spec == Init /\ [][Next]_vars

\* The event loop and the threads go on, and the timer comes again.
FairSpec == Spec /\ WF_vars(Synchronise) /\ \A p \in Proc : WF_vars(Coroutine(p))

-----------------------------------------------------------------------------
\* Properties

\* SshAccessUseCase: a Service Token whose secret the portal has ever shown is
\* either removed or on the record of its user, where a revocation, a deletion
\* or the synchronisation finds it, whatever failed or was cut off.
TokensOnRecord ==
    \A k \in told : token[k] # Gone =>
        LET n == token[k][1] IN rec[n] # None /\ rec[n].token = k

\* DeleteAccountUseCase: a deletion that reports neither an error nor a warning
\* leaves nothing of the name behind, and nothing comes back until the name is
\* created again, except a key that was generated when the account was gone.
DeletedIsForgotten ==
    \A n \in Name : removed[n] = Gone =>
        rec[n] = None /\ api[n] = "none" /\ <<n, TRUE>> \notin llm

\* A token should be admitted: it is on the record of a user who may have one,
\* and the user's account is the one it was issued to.
Entitled(k) ==
    k \in Wanted /\ \E n \in Name : rec[n] # None /\ rec[n].token = k /\ rec[n].id = account[n]

\* SshAccessUseCase.synchronize: the policy comes to admit the tokens it should
\* and no other that exists, after failures, restarts and deletions that were
\* not completed.
PolicySettles ==
    \A k \in Token :
        (token[k] \notin {None, Gone} /\ (k \in policy) # Entitled(k))
            ~> (token[k] = Gone \/ (k \in policy) = Entitled(k))
=============================================================================
