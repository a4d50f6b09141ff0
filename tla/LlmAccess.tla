----------------------------- MODULE LlmAccess -----------------------------
(***************************************************************************)
(* The keys with which one user calls the language models, at LiteLLM: the *)
(* external key, which the user asks for, and the Open WebUI key, which    *)
(* the portal stores in a file and hands to the user's Open WebUI job.     *)
(*                                                                         *)
(* Everything is kept by LiteLLM and changed one HTTP request at a time.   *)
(* The use cases run in worker threads of their own, except the rotation,  *)
(* which runs on the event loop and blocks it.  A lock per user orders     *)
(* some of those that issue an external key, and no others.                *)
(*                                                                         *)
(* A request is answered, or the answer is an error, which the use case    *)
(* handles, or the connection breaks while the answer is read, which       *)
(* raises an exception no use case expects.  In the last two cases the     *)
(* request may or may not have been carried out.                           *)
(*                                                                         *)
(* A definition whose name begins with M_ is never used: it is the next    *)
(* definition with a plausible error, which the properties must notice.    *)
(***************************************************************************)
EXTENDS Naturals, FiniteSets

CONSTANTS
    Task,        \* calls in progress
    Key,         \* keys LiteLLM can generate: bounds how many it does
    NoKey,
    NoTask,
    MaxCalls,    \* bound on calls of the use cases
    MaxFaults    \* bound on requests and commands that fail

ASSUME ConstantsAssumption ==
    /\ NoKey \notin Key
    /\ NoTask \notin Task
    /\ MaxCalls \in Nat
    /\ MaxFaults \in Nat

\* The use cases; "undo" is an enabling that failed and is being taken back.
Op == {"disable", "enable", "rotate", "webui", "create", "delete"}

\* Places of calls: what the next request is about.
Blocking == {"mark", "list", "each", "webui", "unmark", "jobs", "purge", "again"}
Issuing == {"check", "targets", "drop", "delete", "verify", "exists", "issue",
            "generate"}
Place == {"idle", "forget", "user", "may", "stored", "lock", "recheck", "write",
          "discard"} \cup Blocking \cup Issuing \cup {"ok", "bad", "broken"}

VARIABLES
    user,        \* LiteLLM's user: absent, allowed, or denied (admin_disabled)
    use,         \* what each key is for, or that it is unused or deleted
    blocked,     \* keys LiteLLM refuses
    store,       \* the key in the user's Open WebUI key file, or NoKey
    lock,        \* external_api_key_lock: the call that holds it, or NoTask
    account,     \* the Linux user exists
    job,         \* the key the user's Open WebUI job was started with, or NoKey
    call,        \* the calls in progress
    calls, faults,
    known,       \* history: keys that were handed to the user or to a job
    locked,      \* history: keys issued by the use cases that take the lock, and
                 \* not overlooked by one of them since
    stale,       \* history: calls that were in progress when access was stopped
    excused,     \* history: keys issued by such calls since, or overlooked by a stop
    held,        \* history: calls whose stop has not been taken back since
    forgotten,   \* history: keys whose file was removed with the account, or for an
                 \* answer that LiteLLM does not know them
    stopped      \* history: the last that was reported is that access is stopped

litellm == <<user, use, blocked, locked, stale, excused, held>>
counters == <<calls, faults>>
vars == <<litellm, store, lock, account, job, call, counters, known, forgotten, stopped>>

NoCall == [op |-> "none", at |-> "idle", todo |-> {}, failed |-> FALSE, key |-> NoKey]

Calls == [op : Op \cup {"none", "undo"}, at : Place, todo : SUBSET Key,
          failed : BOOLEAN, key : Key \cup {NoKey}]

TypeOK ==
    /\ user \in {"absent", "allowed", "denied"}
    /\ use \in [Key -> {"unused", "external", "openwebui", "deleted"}]
    /\ blocked \subseteq Key
    /\ store \in Key \cup {NoKey}
    /\ lock \in Task \cup {NoTask}
    /\ account \in BOOLEAN
    /\ job \in Key \cup {NoKey}
    /\ call \in [Task -> Calls]
    /\ calls \in 0..MaxCalls
    /\ faults \in 0..MaxFaults
    /\ known \subseteq Key
    /\ locked \subseteq Key
    /\ stale \subseteq Task
    /\ excused \subseteq Key
    /\ held \subseteq Task
    /\ forgotten \subseteq Key
    /\ stopped \in BOOLEAN

Init ==
    /\ user = "absent"
    /\ use = [k \in Key |-> "unused"]
    /\ blocked = {}
    /\ store = NoKey
    /\ lock = NoTask
    /\ account = FALSE
    /\ job = NoKey
    /\ call = [t \in Task |-> NoCall]
    /\ calls = 0
    /\ faults = 0
    /\ known = {}
    /\ locked = {}
    /\ stale = {}
    /\ excused = {}
    /\ held = {}
    /\ forgotten = {}
    /\ stopped = FALSE

-----------------------------------------------------------------------------
\* LiteLLM

\* is_portal_external_key: the alias is the user's name.
External == {k \in Key : use[k] = "external"}

Webui == {k \in Key : use[k] = "openwebui"}

\* list_user_keys: keys the record says are the user's.
UserKeys == External \cup Webui

\* user_admin_disabled: neither absent, which is an error, nor denied.
Permitted == user = "allowed"

\* openwebui_key_info: what LiteLLM says of a key.  Keys of another user do not
\* get into a user's file.
KeyInfo(k) ==
    CASE use[k] = "deleted" -> "missing"
      [] use[k] # "deleted" /\ k \in blocked -> "blocked"
      [] OTHER -> "valid"

Running == {t \in Task : call[t].at # "idle"}

\* A call moves on; leaving the with-block gives the lock back.
Go(t, c) ==
    /\ call' = [call EXCEPT ![t] = c]
    /\ lock' = IF lock = t /\ c.at \notin Issuing THEN NoTask ELSE lock

At(t, place) == [call[t] EXCEPT !.at = place]

\* A request with the given effect, and how the call goes on when it is
\* answered and when the answer is an error.
Request(t, Effect, answered, refused) ==
    /\ \/ Effect /\ Go(t, answered) /\ UNCHANGED faults
       \/ /\ faults < MaxFaults
          /\ faults' = faults + 1
          /\ Effect \/ UNCHANGED litellm
          /\ Go(t, refused) \/ Go(t, At(t, "broken"))
    /\ UNCHANGED <<store, account, job, calls, known, forgotten, stopped>>

\* A request that changes nothing.
Query(t, answered, refused) == Request(t, UNCHANGED litellm, answered, refused)

\* list_user_keys asks in three ways, until an answer shows keys of the user.
\* When one request fails and the others show none, the keys are overlooked:
\* the list is empty, and there is no error.
Overlook(t, next) ==
    /\ faults < MaxFaults /\ faults' = faults + 1
    /\ Go(t, next)
    /\ IF call[t].at = "list"
       THEN /\ excused' = IF call[t].op = "enable" THEN excused ELSE excused \cup UserKeys
            /\ UNCHANGED locked
       ELSE locked' = {} /\ UNCHANGED excused
    /\ UNCHANGED <<user, use, blocked, stale, held, store, account, job, calls, known,
                   forgotten, stopped>>

\* A list of keys, and how the call goes on with it, without keys, and on an error.
Listing(t, listed, empty, refused) ==
    Query(t, listed, refused) \/ Overlook(t, empty)

\* The call goes on without a request.
Step(t, c) ==
    Go(t, c) /\ UNCHANGED <<litellm, store, account, job, counters, known, forgotten, stopped>>

\* /user/new, with "already exists" taken for success.
EnsureUser ==
    /\ user' = IF user = "absent" THEN "allowed" ELSE user
    /\ UNCHANGED <<use, blocked, locked, stale, excused, held>>

\* set_user_admin_disabled(True): the calls in progress may have read the
\* user's mark before, and one may have a key that is not in the file yet.
Deny(t) ==
    /\ user' = "denied"
    /\ stale' = Running \ {t}
    /\ excused' = excused \cup {call[u].key : u \in {v \in Task : call[v].at = "write"}}
    /\ held' = held \cup {t}
    /\ UNCHANGED <<use, blocked, locked>>

\* set_user_admin_disabled(False)
Allow ==
    /\ user' = "allowed"
    /\ held' = {}
    /\ UNCHANGED <<use, blocked, locked, stale, excused>>

\* /key/block, /key/unblock
SetBlocked(k, flag) ==
    /\ blocked' = IF flag THEN blocked \cup {k} ELSE blocked \ {k}
    /\ excused' = excused \ {k}
    /\ UNCHANGED <<user, use, locked, stale, held>>

\* Keys that are deleted; whether they were blocked no longer matters.
Delete(keys) ==
    /\ use' = [k \in Key |-> IF k \in keys THEN "deleted" ELSE use[k]]
    /\ blocked' = blocked \ keys
    /\ locked' = locked \ keys
    /\ excused' = excused \ keys

\* /user/delete deletes the user's keys with the user.
DeleteUser(t) ==
    /\ user' = "absent"
    /\ Delete(UserKeys)
    /\ stale' = Running \ {t}
    /\ held' = IF account THEN {} ELSE {t}

\* /key/generate
Generate(t, k) ==
    /\ use' = [use EXCEPT ![k] = IF call[t].op = "webui" THEN "openwebui" ELSE "external"]
    /\ locked' = IF call[t].op \in {"enable", "rotate"} THEN locked \cup {k} ELSE locked
    /\ excused' = IF t \in stale THEN excused \cup {k} ELSE excused
    /\ UNCHANGED <<user, blocked, stale, held>>

-----------------------------------------------------------------------------
\* The calls begin

Begin(t, op, place) ==
    /\ call[t].at = "idle"
    /\ calls < MaxCalls
    /\ calls' = calls + 1
    /\ \A u \in Task : call[u].op # "rotate"    \* the event loop is free
    /\ call' = [call EXCEPT ![t] = [NoCall EXCEPT !.op = op, !.at = place]]
    /\ UNCHANGED <<user, use, blocked, locked, stale, excused, store, lock, job,
                   faults, known, forgotten>>

\* An administrator stops or allows the user's access.
BeginSetLlmAccess(t) ==
    /\ account
    /\ Begin(t, "disable", "mark") \/ Begin(t, "enable", "user")
    /\ UNCHANGED <<account, stopped, held>>

\* The user, who may be logged in still after the account is gone, asks for
\* a new external key.
BeginRotate(t) ==
    /\ Begin(t, "rotate", "lock")
    /\ UNCHANGED <<account, stopped, held>>

\* The spawner prepares an Open WebUI job, one at a time for each user, who may
\* be logged in still, as no account is looked for.
BeginOpenwebui(t) ==
    /\ \A u \in Task : call[u].op # "webui"
    /\ Begin(t, "webui", "user")
    /\ stopped' = (stopped /\ account)
    /\ held' = IF account THEN held ELSE {}
    /\ UNCHANGED account

\* The Linux user is created; its first key is issued without the lock.
CreateAccount(t) ==
    /\ ~account
    /\ account' = TRUE
    /\ stopped' = FALSE
    /\ held' = {}
    /\ Begin(t, "create", "issue")

\* The Linux user is deleted; its keys are revoked after that.
DeleteAccount(t) ==
    /\ account
    /\ account' = FALSE
    /\ Begin(t, "delete", "forget")
    /\ UNCHANGED <<stopped, held>>

-----------------------------------------------------------------------------
\* SetLlmAccessUseCase, and the blocking it shares with RevokeLlmAccessUseCase

\* An enabling that cannot be completed: the user is marked again, unless it
\* was the mark that could not be cleared, and all keys are blocked again.
Undo(t, place) == [NoCall EXCEPT !.op = "undo", !.at = place]

\* The end of set_user_keys_blocked; a deletion leaves out the key file.
AfterKeys(t, failed) ==
    [call[t] EXCEPT !.todo = {}, !.failed = failed,
                    !.at = IF call[t].op = "delete" THEN "purge" ELSE "webui"]

\* The end of set_openwebui_key_blocked.
AfterWebui(t, failed) ==
    CASE call[t].op = "disable" -> [At(t, "jobs") EXCEPT !.failed = failed]
      [] call[t].op = "undo" -> [At(t, "bad") EXCEPT !.failed = failed]
      [] call[t].op = "enable" /\ failed -> Undo(t, "mark")
      [] OTHER -> At(t, "unmark")

Mark(t) ==
    /\ call[t].at = "mark"
    /\ Request(t, Deny(t), At(t, "list"),
               IF call[t].op = "undo" THEN At(t, "list")
               ELSE [At(t, "jobs") EXCEPT !.failed = TRUE])

\* The keys to block or unblock.  The Open WebUI key is left to its file,
\* except in a deletion.
Targets(t) == IF call[t].op = "delete" THEN UserKeys ELSE External

List(t) ==
    /\ call[t].at = "list"
    /\ LET empty == AfterKeys(t, call[t].failed)
       IN  Listing(t, IF Targets(t) = {} THEN empty
                      ELSE [At(t, "each") EXCEPT !.todo = Targets(t)],
                   empty, AfterKeys(t, TRUE))

\* One key of the list; a failure is remembered and the next key taken.
Each(t) ==
    /\ call[t].at = "each"
    /\ \E k \in call[t].todo :
        LET Then(failed) ==
              IF call[t].todo = {k} THEN AfterKeys(t, failed \/ call[t].failed)
              ELSE [call[t] EXCEPT !.todo = @ \ {k}, !.failed = failed \/ @]
        IN  IF use[k] = "deleted"
            THEN Step(t, Then(TRUE))
            ELSE Request(t, SetBlocked(k, call[t].op # "enable"), Then(FALSE), Then(TRUE))

\* LiteLLM is understood not to know the stored key, because it is deleted, or
\* by an HTTP 401 or 404 for another reason: its file is removed.
Missing(t, next) ==
    /\ store # NoKey
    /\ \/ use[store] = "deleted" /\ UNCHANGED faults
       \/ faults < MaxFaults /\ faults' = faults + 1
    /\ store' = NoKey
    /\ forgotten' = forgotten \cup {store}
    /\ Go(t, next)
    /\ UNCHANGED <<litellm, account, job, calls, known, stopped>>

\* set_openwebui_key_blocked
StoredKey(t) ==
    LET done == AfterWebui(t, call[t].failed)
    IN  /\ call[t].at = "webui"
        /\ \/ store = NoKey /\ Step(t, done)
           \/ Missing(t, done)
           \/ /\ store # NoKey /\ use[store] # "deleted"
              /\ Request(t, SetBlocked(store, call[t].op # "enable"),
                         done, AfterWebui(t, TRUE))

\* The user's mark is cleared last, and the lock is asked for.
Unmark(t) ==
    /\ call[t].at = "unmark"
    /\ Request(t, Allow, At(t, "lock"), Undo(t, "list"))

\* Back on the event loop: the user's Open WebUI job is cancelled.
StopJobs(t) ==
    /\ call[t].at = "jobs"
    /\ \A u \in Task : call[u].op # "rotate"
    /\ \/ job' = NoKey /\ UNCHANGED faults
             /\ Go(t, At(t, IF call[t].failed THEN "bad" ELSE "ok"))
       \/ /\ faults < MaxFaults /\ faults' = faults + 1
          /\ Go(t, At(t, "bad")) /\ UNCHANGED job
    /\ UNCHANGED <<litellm, store, account, calls, known, forgotten, stopped>>

-----------------------------------------------------------------------------
\* RevokeLlmAccessUseCase

Forget(t) ==
    /\ call[t].at = "forget"
    /\ store' = NoKey
    /\ forgotten' = (forgotten \cup {store}) \ {NoKey}
    /\ Go(t, At(t, "list"))
    /\ UNCHANGED <<litellm, account, job, counters, known, stopped>>

\* /user/delete, tried with two forms of the request; keys that could not be
\* blocked make a warning of the answer.
Purge(t) ==
    LET done == At(t, IF call[t].failed THEN "bad" ELSE "ok")
    IN  \/ /\ call[t].at = "purge"
           /\ Request(t, DeleteUser(t), done, At(t, "again"))
        \/ /\ call[t].at = "again"
           /\ Request(t, DeleteUser(t), done, At(t, "bad"))

-----------------------------------------------------------------------------
\* The lock, EnsureLlmKeyUseCase and RotateLlmKeyUseCase

M_Acquire(t) ==
    /\ call[t].at = "lock"
    /\ IF call[t].op = "enable" THEN Step(t, At(t, "exists"))
       ELSE /\ lock = NoTask
            /\ IF ~account THEN Step(t, At(t, "bad"))
               ELSE /\ lock' = t
                    /\ call' = [call EXCEPT ![t].at = "check"]
                    /\ UNCHANGED <<litellm, store, account, job, counters, known, forgotten, stopped>>

\* The lock is taken; a rotation looks at the account and at the mark then.
Acquire(t) ==
    /\ call[t].at = "lock"
    /\ lock = NoTask
    /\ IF call[t].op = "rotate" /\ ~account
       THEN Step(t, At(t, "bad"))
       ELSE /\ lock' = t
            /\ call' = [call EXCEPT ![t].at =
                          IF call[t].op = "rotate" THEN "check" ELSE "exists"]
            /\ UNCHANGED <<litellm, store, account, job, counters, known, forgotten, stopped>>

\* A call that fails; an enabling is taken back.
Failed(t) == IF call[t].op = "enable" THEN Undo(t, "mark") ELSE At(t, "bad")

\* An enabling issues an external key only if there is none.
Exists(t) ==
    /\ call[t].at = "exists"
    /\ Listing(t, At(t, IF External = {} THEN "issue" ELSE "ok"), At(t, "issue"), Failed(t))

\* user_admin_disabled: a user that is not there is an error.
M_Check(t, place, next) ==
    /\ call[t].at = place
    /\ Query(t, At(t, next), At(t, "bad"))

Check(t, place, next) ==
    /\ call[t].at = place
    /\ Query(t, At(t, IF Permitted THEN next ELSE "bad"), At(t, "bad"))

\* delete_portal_external_keys: the old keys are blocked one by one, deleted
\* by their alias, and looked for once more.
RotationTargets(t) ==
    /\ call[t].at = "targets"
    /\ Listing(t, IF External = {} THEN At(t, "issue")
                  ELSE [At(t, "drop") EXCEPT !.todo = External],
               At(t, "issue"), At(t, "bad"))

BlockOld(t) ==
    /\ call[t].at = "drop"
    /\ \E k \in call[t].todo :
        LET rest == call[t].todo \ {k}
        IN  IF use[k] = "deleted" THEN Step(t, At(t, "bad"))
            ELSE Request(t, SetBlocked(k, TRUE),
                         [call[t] EXCEPT !.todo = rest,
                                         !.at = IF rest = {} THEN "delete" ELSE @],
                         At(t, "bad"))

DeleteOld(t) ==
    /\ call[t].at = "delete"
    /\ Request(t, Delete(External) /\ UNCHANGED <<user, stale, held>>,
               At(t, "verify"), At(t, "bad"))

Verify(t) ==
    /\ call[t].at = "verify"
    /\ Listing(t, At(t, IF External = {} THEN "issue" ELSE "bad"), At(t, "issue"), At(t, "bad"))

-----------------------------------------------------------------------------
\* IssueLlmKeyUseCase and IssueOpenWebuiKeyUseCase

\* ensure_user, at the beginning of a use case
UserFor(t) ==
    /\ call[t].at = "user"
    /\ Request(t, EnsureUser, At(t, IF call[t].op = "enable" THEN "list" ELSE "may"),
               At(t, "bad"))

\* and again before a key is generated.
UserForKey(t) ==
    /\ call[t].at = "issue"
    /\ Request(t, EnsureUser, At(t, IF call[t].op = "webui" THEN "recheck" ELSE "generate"),
               Failed(t))

\* Of the two, only the issue of an Open WebUI key looks at the mark again.
Recheck(t) == Check(t, "recheck", "generate")

GenerateKey(t) ==
    /\ call[t].at = "generate"
    /\ IF \E k \in Key : use[k] = "unused"
       THEN \E k \in Key :
              /\ use[k] = "unused"
              /\ Request(t, Generate(t, k),
                         [At(t, IF call[t].op = "webui" THEN "write" ELSE "ok")
                            EXCEPT !.key = k], Failed(t))
       ELSE Step(t, Failed(t))

-----------------------------------------------------------------------------
\* EnsureOpenWebuiKeyUseCase

M_Stored(t) ==
    /\ call[t].at = "stored"
    /\ IF store = NoKey THEN Step(t, At(t, "issue"))
       ELSE Query(t, IF KeyInfo(store) # "valid" THEN At(t, "issue")
                     ELSE [At(t, "ok") EXCEPT !.key = store], At(t, "issue"))

\* The stored key is looked up: it is used, given up, or stands in the way.
Stored(t) ==
    /\ call[t].at = "stored"
    /\ \/ store = NoKey /\ Step(t, At(t, "issue"))
       \/ Missing(t, At(t, "issue"))
       \/ /\ store # NoKey /\ KeyInfo(store) # "missing"
          /\ Query(t, IF KeyInfo(store) = "valid" THEN [At(t, "ok") EXCEPT !.key = store]
                      ELSE At(t, "bad"), At(t, "bad"))

\* The new key is written to the file; a key that cannot be is blocked.
Write(t) ==
    /\ call[t].at = "write"
    /\ \/ store' = call[t].key /\ UNCHANGED faults /\ Go(t, At(t, "ok"))
       \/ /\ faults < MaxFaults /\ faults' = faults + 1
          /\ Go(t, At(t, "discard")) /\ UNCHANGED store
    /\ UNCHANGED <<litellm, account, job, calls, known, forgotten, stopped>>

Discard(t) ==
    /\ call[t].at = "discard"
    /\ IF use[call[t].key] = "deleted" THEN Step(t, At(t, "bad"))
       ELSE Request(t, SetBlocked(call[t].key, TRUE), At(t, "bad"), At(t, "bad"))

-----------------------------------------------------------------------------
M_Return(t) ==
    LET c == call[t]
        good == c.at = "ok"
        took == t \in held /\
                  \/ good /\ c.op \in {"disable", "delete"}
                  \/ c.op = "undo" /\ c.at = "bad" /\ ~c.failed
        gave == ~took /\ c.op \in {"enable", "undo", "delete"}
    IN  /\ c.at \in {"ok", "bad", "broken"}
        /\ Go(t, NoCall)
        /\ known' = IF good THEN known \cup {c.key} ELSE known
        /\ job' = IF good /\ c.op = "webui" THEN c.key ELSE job
        /\ stopped' = ((stopped \/ took) /\ ~gave)
        /\ held' = IF gave THEN {} ELSE held \ {t}
        /\ stale' = stale \ {t}
        /\ UNCHANGED <<user, use, blocked, locked, excused, store, account, forgotten,
                       counters>>

\* A call ends: the key is handed over, an Open WebUI job starts with it.
Return(t) ==
    LET c == call[t]
        good == c.at = "ok"
        took == t \in held /\
                  \/ good /\ c.op \in {"disable", "delete"}
                  \/ c.op = "undo" /\ c.at = "bad" /\ ~c.failed
        gave == ~took /\ c.op \in {"enable", "undo", "delete"}
    IN  /\ c.at \in {"ok", "bad", "broken"}
        /\ Go(t, NoCall)
        /\ known' = IF good /\ c.key # NoKey THEN known \cup {c.key} ELSE known
        /\ job' = IF good /\ c.op = "webui" THEN c.key ELSE job
        /\ stopped' = ((stopped \/ took) /\ ~gave)
        /\ held' = IF gave THEN {} ELSE held \ {t}
        /\ stale' = stale \ {t}
        /\ UNCHANGED <<user, use, blocked, locked, excused, store, account, forgotten,
                       counters>>

Calling(t) ==
    \/ Mark(t) \/ List(t) \/ Each(t) \/ StoredKey(t) \/ Unmark(t) \/ StopJobs(t)
    \/ Forget(t) \/ Purge(t)
    \/ Acquire(t) \/ Exists(t) \/ RotationTargets(t) \/ BlockOld(t) \/ DeleteOld(t)
    \/ Verify(t)
    \/ Check(t, "check", "targets") \/ Check(t, "may", "stored") \/ Recheck(t)
    \/ UserFor(t) \/ UserForKey(t) \/ GenerateKey(t) \/ Stored(t) \/ Write(t) \/ Discard(t)
    \/ Return(t)

Next ==
    \E t \in Task :
        \/ BeginSetLlmAccess(t) \/ BeginRotate(t) \/ BeginOpenwebui(t)
        \/ CreateAccount(t) \/ DeleteAccount(t)
        \/ Calling(t)

Spec == Init /\ [][Next]_vars

-----------------------------------------------------------------------------
\* Properties

\* Nobody is about to change whether the user may use the models.
Settled == \A t \in Task : call[t].op \notin {"disable", "enable", "undo", "delete"}

\* Keys that are known to somebody and that LiteLLM accepts.
Usable == (known \cap UserKeys) \ blocked

\* SetLlmAccessUseCase and RevokeLlmAccessUseCase: after access was reported
\* stopped, no key anybody knows is accepted, whatever an enabling or an
\* issue did at the same time, unless a call that was in progress when access
\* was stopped issued it, the stop overlooked it when a listing failed in part,
\* or its file was removed while LiteLLM had it still.
StoppedHasNoKey == stopped /\ Settled => Usable \subseteq excused \cup forgotten

\* The comment in SetLlmAccessUseCase: issuing is stopped first, and then the
\* keys of both kinds.
DisabledHasNoKey == stopped /\ account /\ Settled => Usable = {}

\* EnsureOpenWebuiKeyUseCase: a key that was handed to an Open WebUI job and
\* is accepted is the one in the file, where alone a stop looks for it, unless
\* the file was removed, by a deletion of the account or as that of a key
\* LiteLLM was understood not to know.
NoStrayKey == (known \cap Webui) \ blocked \subseteq {store} \cup forgotten

Register == INSTANCE KeyRegister WITH held <- External \cap locked

\* external_api_key_lock: the keys issued under it behave as a register, so
\* that an old key is gone, or was overlooked, before a new one exists.
KeyIsRegister == Register!Spec
=============================================================================
