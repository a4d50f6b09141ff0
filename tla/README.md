# HPC-portal in TLA+

TLA+ models of the HPC portal, the TLC runs that check them on small instances,
and theorems that TLAPS checks for every instance. Paths are relative to
`src/src/hpc_portal/` unless they start with `src/`.

1. [The system](#1-the-system)
2. [Modules](#2-modules)
3. [ApiCredentials](#3-apicredentials)
4. [ApiPublications](#4-apipublications)
5. [ApiGateway](#5-apigateway)
6. [LlmAccess and KeyRegister](#6-llmaccess-and-keyregister)
7. [LlmModels](#7-llmmodels)
8. [JobRoutes](#8-jobroutes)
9. [Accounts](#9-accounts)
10. [WebSearch](#10-websearch)
11. [Runs](#11-runs)
12. [What the code does not keep](#12-what-the-code-does-not-keep)
13. [Proofs](#13-proofs)
14. [Not modelled](#14-not-modelled)
15. [Plan](#15-plan)

## 1. The system

One node runs JupyterHub, Slurm, LiteLLM and a shared Ollama. The portal is a
set of handlers inside the JupyterHub process: Tornado coroutines on one event
loop, worker threads through `asyncio.to_thread`, and periodic tasks
(`entrypoints/background_tasks.py`). Records live in an encrypted SQLite store
that commits every `put` by itself. Cloudflare, LiteLLM, Slurm, nftables and
the Linux accounts are outside and can fail, answer late or not answer.

| Component | State | Operations | Hard | Correct when |
|---|---|---|---|---|
| **External API credentials** `application/usecase/api_credentials_usecase.py`, `hub_credentials_usecase.py`, `domain/external_api/credentials.py` | one record per user name: owner, enabled, state, IDs and secrets of a Service Token and a Hub token, revocations under way | issue, revoke the Service Token, rotate, ensure / rotate / revoke the Hub token, enable, disable, revoke, delete | awaits between commits at three stores; lost answers; restarts; a name that is given to another person | a ready record works; nothing is alive that no record names; a denial is never undone by what was under way |
| **External API synchronisation** `api_synchronization_usecase.py` | none of its own | sweep of deleted or revoking users, ensure and resume per user, refresh of publications, reconciliation of guards | decides on what it read before it waits | completes what was left undone and nothing else |
| **API publications** `api_publication_usecase.py`, `domain/external_api/publication.py` | registration per API: target, state, desired state, Access application; a lock per user | register, publish, unpublish, delete, refresh, unpublish all, delete all | local copies over awaits; a deletion that takes another lock; lost answers | no application without its registration's knowledge; a stop stands; only the owner's token is admitted |
| **Cloudflare Access client** `infrastructure/cloudflare/` | Service Tokens and Access applications at Cloudflare | create, rotate, remove, configure, by ID or managed name | POST is not idempotent | one object per managed name |
| **JupyterHub token gateway** `infrastructure/jupyterhub/token_gateway.py` | Hub tokens in JupyterHub's database | issue, revoke, revoke orphans, validate | commits of its own | a token survives only if it is the current one |
| **Port guard** `infrastructure/linux/port_guard.py`, `listener_inventory.py` | guarded ports in the store, one nftables table | protect, check, reconcile | process and port change between check and use; nft fails after the record is saved | a published port is closed to other users |
| **API invocation** `application/usecase/api_invocation_usecase.py`, `presentation/handlers/api_gateway.py`, `infrastructure/http/` | counters of running calls | authorise, relay | state read before awaits and used after them | only the owner, with the present tokens, reaches the owner's process |
| **Account management** `application/usecase/account_management_usecase.py` | Linux accounts | create, delete, API, SSH and LLM access, password, sudo | several services changed one after the other, threads, a name created again | no access survives the account |
| **SSH access** `application/usecase/ssh_access_usecase.py` | a record and a Service Token per user, one Access application for all | issue, rotate, revoke, allow, deny, delete, forget, synchronise | store, token and policy changed one after the other; deletion beside the queue of the lock | no token that no record names; the policy admits who should be admitted |
| **LLM access** `application/usecase/llm_access_usecase.py` | virtual keys in LiteLLM, key files, a per-user mark | ensure, rotate, block, unblock, delete | threads; a mark and keys changed without one lock; lost answers | a disabled user has no usable key; one external key |
| **LLM models** `application/usecase/llm_model_management_usecase.py` | models in Ollama and LiteLLM, a pull in progress | pull, cancel, status, register, synchronise, delete | threads against a watching coroutine; two services | both services list the same models |
| **Shared Ollama control** `src/ansible/roles/ollama/templates/hpc-ollama.j2` | container, image tag, lock directories, job files | start, stop, update, pull | detached workers; rollback; stale locks | one worker; a failed update ends with the old image running |
| **Slurm spawner** `infrastructure/jupyterhub/slurm_spawner.py` | job ID, spawn state | start, poll, stop, single Open WebUI | lost answer of sbatch; waits between check and use | one Open WebUI per user; a stop leaves no job |
| **Configurable HTTP proxy** `infrastructure/jupyterhub/configurable_http_proxy.py`, `route_manager.py` | routes | add, delete, check | deletion of what a list read before many waits does not need | a running server has its routes |
| **Jobs, job forms, batch scripts** `application/usecase/job_management_usecase.py`, ... | none | prepare, stop a user's Open WebUI jobs, list, render | servers the Hub has forgotten | what is reported stopped has ended |
| **Search MCP** `src/src/hpc_search_mcp/` | a semaphore | search, fetch a page, search and fetch | threads, deadlines, redirects, DNS that changes | permits come back; only vetted addresses are connected to; a call whose servers end is answered |
| **Resource inventory, settings, sessions, presentation** | none | - | pure or single calls | - |
| **Frontend**, **Ansible roles**, **dev/preview** | pages, installation | - | - | - |

How they interact: a handler calls one use case; use cases call each other
directly (disabling a user unpublishes the APIs and then revokes the
credentials; publishing reads the credentials; deleting an account does all of
this and then deletes the records). A lock per user name serialises the
credentials, another one the publications; the synchronisation takes both, one
after the other, every 30 seconds, and then one more for the SSH access of all
users. The keys for the language models are changed in worker threads under
locks of their own, the routes by coroutines without any lock. The search MCP
is a process of its own that LiteLLM calls.

## 2. Modules

| Module | Content |
|---|---|
| `ApiCredentials` | credentials of one user name, their use cases and the credential half of the synchronisation; properties |
| `ApiCredentialsProofs` | inductive invariant and theorems about `ApiCredentials`: first the lock and the denial, then what the record says of the Service Token and the Hub tokens |
| `MCApiCredentials` | instance for TLC: symmetry of requests |
| `ApiPublications` | publications of one user name, their use cases and the publication half of the synchronisation; properties |
| `ApiPublicationsProofs` | inductive invariants and theorems about `ApiPublications` |
| `MCApiPublications` | instance for TLC: symmetry of requests and of APIs |
| `ApiGateway` | processes, the port guard with nftables, calls and health checks through the relay, and what of the publications decides on targets and guards; properties |
| `ApiGatewayProofs` | inductive invariant and theorems about `ApiGateway` |
| `MCApiGateway` | instance for TLC: symmetry of users |
| `LlmAccess` | the language model keys of one user: LiteLLM, the key file, the key lock, the job that was given a key; properties |
| `KeyRegister` | abstract specification: the key issued under the key lock is a register |
| `LlmAccessProofs` | inductive invariants and theorems about `LlmAccess`, and that it implements `KeyRegister` |
| `MCLlmAccess` | instance for TLC: symmetry of calls and of keys |
| `LlmModels` | models at Ollama and LiteLLM, the pull worker of the control script and its files, the watchers; properties |
| `LlmModelsProofs` | inductive invariant and theorems about `LlmModels` |
| `MCLlmModels` | instance for TLC: symmetry of calls and of models |
| `JobRoutes` | servers, Slurm jobs, routes at the proxy, `check_routes`, the stop of Open WebUI jobs; properties |
| `JobRoutesProofs` | inductive invariant and theorems about `JobRoutes` |
| `Accounts` | accounts, SSH access with Cloudflare's tokens and policy, and what a creation and deletion see of the external API and of the LLM key; properties |
| `AccountsProofs` | inductive invariant and theorems about `Accounts` |
| `WebSearch` | the search MCP's threads, semaphore, name resolution and redirects; properties |
| `WebSearchProofs` | inductive invariant and theorems about `WebSearch` |

A run that needs no symmetry checks the module itself.

A definition whose name begins with `M_` is used nowhere: it is the definition
after it with one plausible mistake, kept to show that a property notices it
(`mutants` in PROJECT.json).

The first three modules share what one calls another for. `ApiPublications` sees of
the credentials what `ApiCredentials` allows them to do, and asks a listener, the
guard and a health check for an answer; `ApiGateway` models these and sees of a
publication its target and state, and of Cloudflare an answer. A module of all
three would have the product of their states and no property of its own: what
they have in common are the records, and each of these has one module that
models every write to it. `Accounts` joins the services a deletion calls one
after the other, and keeps of each of them whether something of the user is
left there. The models of sections 6, 7, 8 and 10 have no state in common with
each other: the Open WebUI key is written by `LlmAccess` and only read at the
start of a job, which `JobRoutes` has as one step of a start.

Conventions common to the modules:

- **Coroutines.** `pc[t]` is a point at which coroutine `t` stands: an await, a
  commit, or the entry of a lock. Code between two awaits that commits more
  than once has a step per commit, because a restart may separate them;
  `running` names the coroutine that has not given up the event loop, and
  `Turn(t)` keeps the others from moving (asyncio is cooperative). Worker
  threads take their steps whoever is running.
- **Locks.** `asyncio.Lock` is first come, first served: a sequence whose head
  is the holder. It is taken at the `async with` and passed on at its end,
  also on an exception.
- **Local copies.** A use case reads a record, changes its copy over several
  awaits and writes the copy back whole: `mine[t]`.
- **Cloudflare.** A call fails without effect, has its effect and answers, or
  has its effect and the answer is lost (any number of times in
  `ApiCredentials`, at most `MaxLost` times in `ApiPublications`); after the
  client has given up, the effect does not come later. The status, the 30-second timeout and an
  unreadable answer are one kind of failure.
- **Restart.** `Crash` drops coroutines, copies and locks and keeps the stores
  (`MaxCrashes`; in `JobRoutes` and `Accounts` restarts count as faults).
- **Calls in threads and requests to others** (sections 6 to 10). A call is a
  record with a place (`at`) and its local variables. Each HTTP request or
  command is a step: `Request` and `Attempt` have the effect and answer, have
  the effect and lose the answer, or have none and fail. `MaxFaults` bounds the
  failures of a run, `MaxCalls` the calls that are begun.
- **Identity.** A user name stands for an identity (UID and Hub user ID) or
  for none; the name can be given to another one, by the portal's deletion or
  by an administrator on the command line.
- **Abstraction.** Secrets are not strings: a Service Token at Cloudflare has a
  flag that says whether the portal has been told its present secret. IDs are
  never used twice; of the unused ones a fixed one is drawn. One user name is
  modelled: users share nothing here but the loop of the synchronisation, which
  treats them one after another and carries on after a failure.

## 3. ApiCredentials

| Model | Code |
|---|---|
| `rec` | record `credentials/<name>` in the store |
| `hub`, `cf` | live Hub tokens of the portal; Service Tokens at Cloudflare |
| `account` | identity behind the name (`getpwnam`, Hub user) |
| `lock`, `running`, `pc`, `job`, `mine` | coroutines (section 2) |
| `me[t]`, `ret[t]` | the identity a use case looked up before its first await; who called `RevokeCredentialRecordUseCase` |
| `seen` | the name is in the list of accounts the synchronisation read |
| `Issue...`, `Service...`, `Rotate...` | `IssueApiCredentialsUseCase.execute`, `.revoke_service`, `RotateApiCredentialsUseCase.execute` |
| `Hub...` | `ManageHubCredentialsUseCase.execute` with the actions ensure, rotate, revoke |
| `Revoke...` | `RevokeCredentialRecordUseCase`, `RevokeApiCredentialsUseCase` |
| `Enable...`, `Disable...`, `Delete...` | the use cases of these names, called by account management |
| `Sync...` | `SynchronizeUserApisUseCase`: snapshot, sweep, rows |
| `AccountRemoved`, `AccountCreated`, `HubTokenDeleted`, `Crash` | surroundings |

`Unpublish` is a step that succeeds or fails: its content is `ApiPublications`.
`asked` is history: the owner's last word on the Service Token. No guard reads
it. The initial states are a new installation and two records that an older
release left (both tokens issued without being asked, and one state for both),
which the code still takes up. A Hub user is never deleted by the portal, so a
name that is created again can have the same Hub user and its tokens, or a new
one.

| Property | Says |
|---|---|
| `TypeOK` | form of every variable |
| `ReadyIsUsable` | a ready record names a Service Token that exists, under its owner's name, with the secret the portal holds, whatever answers were lost |
| `TokensOnRecord` | a Service Token whose secret ever reached the portal is on record, so that a revocation finds it; none outlives its record |
| `DisabledIsRevoked` | a disabled record means that the Hub has no token left and Cloudflare none with a secret known to anybody |
| `SettledIsSole` | a Hub token that the synchronisation takes for good is the only live one |
| `DenialStands` | a denial ends only with Enable, the deletion of the records, or a new owner |
| `RevocationStands` | no Hub token is issued while the record is denied; one that the owner revoked is replaced only by the owner's own reissue; no Service Token is created unless the owner asked for one and has not been denied or revoked it since; the one exception is a synchronisation already on its way (`service_not_revived` in section 12) |
| `RevocationCompletes`, `ServiceCompletes`, `HubSettles` | what a failure interrupted comes to its end without the user: the revocation of a denied user, the Service Token that was asked for, the Hub token of everybody who may have one |

Fairness (`FairSpec`): every coroutine that can run gets its turn (the event
loop's ready queue is FIFO), the synchronisation is repeated, and a call to
Cloudflare that it repeats for ever succeeds at some time. The fairness is
strong because a step is disabled while another coroutine has the event loop.
Nothing is assumed of users and administrators; `AccountSettles` is a premise where a name that
changes hands for ever would keep the synchronisation busy.

## 4. ApiPublications

| Model | Code |
|---|---|
| `pub[a]` | record `publications/<name>/<a>`: owner, state, desired, `remote_clean` (`clean`), `cf_app_id` (`app`) |
| `recent[a]` | `cf_checked_at` less than 300 seconds ago |
| `apps` | Access applications: ID, managed name, whose Service Token they admit |
| `cred`, `account` | what a publication reads of the credentials and of the account |
| `lock` | `publication_lock`; the credential lock appears as `CredentialsFree` |
| `Register...`, `PublishEnter`, `StopEnter`, `Drop` | `RegisterApiUseCase`, `ChangeApiPublicationUseCase` |
| `Configure...` | `ConfigureApiPublicationUseCase` with `CloudflareAccessClient.app` |
| `Removal`, `RemoveRemote` | `RemoveRemoteApiPublicationUseCase` with `.remove_app` |
| `Refresh...`, `Sync...` | `RefreshApiPublicationUseCase` and the loop around it |
| `DisableDeny`, `Unpublish...`, `Revoke` | `DisableUserApisUseCase` with `UnpublishUserApisUseCase` |
| `DeleteEnter`, `DeleteNext` | `DeleteUserApiRecordsUseCase`, which has the credential lock only |
| `Credentials...`, `AccountChanges`, `Expire`, `Crash` | surroundings |

The credentials are here what `ApiCredentials` allows them to do, seen from
outside: busy, ready with a Service Token, denied, disabled. Listeners, port
guard and health check are answers, yes or no, each after an await; which
process has the port is left to the module on the port guard. `app` and
`remove_app` are one step each, although they are several requests: the client
is the only one to touch applications of the portal's managed names, and one
user's calls of them overlap only in the deletion of the records.

| Property | Says |
|---|---|
| `TypeOK` | form of every variable |
| `CleanIsClean` | a record that says nothing is left at Cloudflare is right (later removals skip the call because of it) |
| `AppAdmitsOwner` | there is one application per managed name, and it admits the registration's owner and nobody who had the name before or has it after |
| `StopStands` | what was stopped is wanted again, and what was deleted is there again, only because of a request, and never because the synchronisation wrote back what it had read before; it needs that nobody asks for a publication while the account is deleted (`Undisturbed`; section 12) |
| `StopCompletes` | once failures end, what was stopped is gone from Cloudflare |
| `PublicationSettles` | once failures and changes end, what is wanted is published, with the present Service Token |

Fairness (`FairSpec`): strong fairness of every coroutine and of the
synchronisation, because a step is disabled for the moments in which another
coroutine has the event loop, and the loop's queue is FIFO; 300 seconds go by.
That Cloudflare and the API answer in the end is a premise (`Calm`), not
fairness. `PublicationSettles` also supposes that requests end: a user who
registers an API that does not listen, again and again, sets it back to
checking each time, and TLC shows such a loop without the premise.

## 5. ApiGateway

| Model | Code |
|---|---|
| `listening` | sockets that accept connections to `127.0.0.1`; a listener is a user, a port and what tells it apart (PID, start time, socket number: `candidate_id`) |
| `nft` | the table `hpc_api_guard`: who, beside root, may connect to a port |
| `guards` | records `guards/<port>` |
| `pub[u]` | target and state of the one API of owner `u` |
| `lock` | `NftablesPortGuard.lock` |
| `pc`, `api`, `tgt`, `conn`, `job` | coroutines: where they stand, for whose API, with which target, and which listener accepted their connection |
| `todo` | guards that `reconcile` has not looked at yet |
| `ProtectValidate`, `ProtectSave`, `Apply` | `protect` |
| `Check`, `Apply` | `check` |
| `Reconcile...`, `Apply` | `reconcile` |
| `Arrive`, `Authorize` | `AuthorizeApiInvocationUseCase.execute` up to and after the wait for the signing keys |
| `Validate`, `Connect`, `Send` | `VerifiedConnector._create_connection` |
| `Break`, `Answer` | the end of a relayed call or of a health check |
| `Register...`, `Publish`, `Stop`, `Refresh...`, `Configure`, `Complete` | the use cases of `api_publication_usecase.py` |
| `Listen`, `End`, `Crash` | surroundings |

A coroutine that has the publication lock of an owner goes by the owner's name:
the lock lets one at a time at work, a request or the synchronisation. The
reconciliation is a coroutine of its own. In the code it follows the refresh in
the same round; the model lets them overlap, as it does with requests.

The event loop needs no `running` here: between two awaits the code commits at
most one record. The guard is saved and then nft is awaited, the listener is
looked at in a thread and then the guard is saved.

The rule for processes is the kernel's: several sockets on one port only if
they belong to one user (the workers of a server). A new listener never has the
identity of an old one that some record or coroutine still names. nft answers,
fails, or is killed after ten seconds with or without effect. A restart of the
machine clears processes and nftables, one of the portal only its coroutines.

The checks of a caller's tokens are one condition, and that the credentials are
withdrawn is here a `Stop`. A free slot, the timeouts and a caller who goes away
are one kind of end (`Break`). The state configuring counts as checking and
disabled as error. The deletion of registrations without the lock belongs to
`ApiPublications`. The conflict branch of `protect` is modelled but nothing can
reach it: a guard of another user whose process is there would mean two users on
one port.

| Property | Says |
|---|---|
| `TypeOK` | form of every variable |
| `ReachesOwner` | a request is sent to a process of the API's owner and nobody else's, although processes change between the two looks at them |
| `ServedIsGuarded` | as long as a process serves a call, its port is closed to other users, also when the registered worker has gone and the reconciliation comes by |
| `PublishedIsGuarded` | the port of a published API is closed to other users while its process is there |
| `PortFreed` | a port whose owner has left for good is opened again to those who come next |
| `Republished` | an API that is wanted is published again after its process was started anew, or the portal or the machine with its guards |

Fairness (`FairSpec`): weak fairness of every coroutine and of the repetition of
the reconciliation; strong fairness of `Refresh`, since the synchronisation
waits for the publication lock, which is first come, first served, however many
requests come before it. Processes, users and callers may stop at any time. That
nft, Cloudflare and the API do not fail for ever is a premise of the two
liveness properties (`Calm`), as is, for `Republished`, that the owner's
requests end and that the owner ends up with one process on the port: with two
`choose` cannot tell them apart.

## 6. LlmAccess and KeyRegister

| Model | Code |
|---|---|
| `user` | LiteLLM's user: absent, allowed, or marked `admin_disabled` |
| `use`, `blocked` | keys at LiteLLM: external (the alias is the user's name), Open WebUI, unused or deleted; those LiteLLM refuses |
| `store`, `job` | the key in the user's key file (`OpenWebuiKeyStore`); the key the user's Open WebUI job was started with |
| `lock` | `external_api_key_lock` |
| `call` | the use cases in progress, one per worker thread |
| `UserKeys`, `Query`, `Overlook` | `LlmManagementGateway.list_user_keys`: three requests, of which the first that shows keys counts; if one fails and the others show none, the list is empty and there is no error |
| `Mark`, `List`, `Each`, `StoredKey`, `Unmark`, `Undo` | `SetLlmAccessUseCase`, `SetUserLlmKeysBlockedUseCase`, `SetOpenWebuiKeyBlockedUseCase` |
| `StopJobs` | `SetAccountLlmAccessUseCase` after the use case: the Open WebUI job is cancelled |
| `Acquire`, `Exists`, `Check`, `RotationTargets`, `BlockOld`, `DeleteOld`, `Verify` | `EnsureLlmKeyUseCase`, `RotateLlmKeyUseCase`, `DeleteManagedLlmKeysUseCase` |
| `UserForKey`, `Recheck`, `GenerateKey` | `IssueLlmKeyUseCase`, `IssueOpenWebuiKeyUseCase` |
| `UserFor`, `Stored`, `Write`, `Discard` | `EnsureOpenWebuiKeyUseCase`, which does not look for the account |
| `Missing` | the stored key is taken for one LiteLLM does not know, by HTTP 401 or 404, and its file is removed |
| `CreateAccount`, `DeleteAccount`, `Forget`, `Purge` | account management, `RevokeLlmAccessUseCase` |

A request can be answered, be answered with an error, or break while the answer
is read (`TimeoutError`, `RemoteDisconnected`), which raises an exception no use
case expects: the call ends, and with it the undo of an enabling and the stop of
the Open WebUI job that would have followed. A rotation runs on the event loop
and blocks it, so that only one is under way. Metadata of keys is left out:
nothing reads it back.

`KeyRegister` is what the lock promises: there is at most one external key, and
the old one has gone before a new one exists. `KeyIsRegister` is the refinement,
with `held <- External \cap locked`: the keys issued under the lock. The first
key of a new account is issued without the lock; it is `External` but not
`locked`. So are keys that a listing under the lock overlooked: with them the
promise is broken (section 12).

| Property | Says |
|---|---|
| `TypeOK` | form of every variable |
| `StoppedHasNoKey` | after access was reported stopped, no key that anybody knows is accepted, whatever was issued, enabled or undone at the same time; excepted are a key issued by a call in progress when the user was marked (`disabled_has_no_key` in section 12), one that the stop's list overlooked, and one whose file was removed, by a deletion of the account or for an answer 401 or 404 (section 12) |
| `NoStrayKey` | an accepted Open WebUI key that a job was given is the one in the file, where alone a stop looks for it, with the same last exception |
| `KeyIsRegister` | `LlmAccess` implements `KeyRegister` |

## 7. LlmModels

| Model | Code |
|---|---|
| `installed` | models Ollama has |
| `chat`, `legacy` | deployments at LiteLLM the portal manages: `ollama_chat/...`, and `ollama/...` of an older release |
| `lock` | `model_lock` of each model |
| `worker`, `pulling`, `pid`, `named`, `last`, `result`, `logged` | the detached pull worker of `hpc-ollama.j2` and what it leaves: lock directory, process ID, its model, name of the last model, result, log |
| `proc` | administrators' calls, and a watcher per model (`WatchLlmModelPullUseCase`, started by `ModelPullScheduler`) |
| `HasModel` ... `DropLegacy` | `RegisterLlmModelUseCase`, request by request |
| `Find`, `Remove` | `UnregisterLlmModelUseCase` |
| `ModelNames`, `CheckInstalled` | `SynchronizeInstalledModelsUseCase`, `RegisterInstalledModelUseCase` |
| `Unlisted`, `Tags`, `Erase` | `DeleteInstalledModelUseCase` |
| `PullLooks`, `PullSweeps`, `Pull`, `PullStarted` | `PullLlmModelUseCase`, `hpc-ollama pull`: the look at a process ID of nobody, the removal of the files, the lock directory with the start of the worker, the answer |
| `WorkerStarts`, `WorkerNames`, `WorkerInstalls`, `WorkerEnds` | `_pull-worker`: process ID, model, download, end |
| `Cancel`, `CancelClean` | `CancelLlmModelPullUseCase`, `hpc-ollama pull-cancel`, with the sleep between them |
| `PullStatus`, `PollName`, `Poll`, `Return` | `GetLlmModelPullStatusUseCase`; the watcher, whose poll reads the model and then the other files |
| `Crash` | a restart of the portal, which ends its threads, its watchers and, since they are in its unit, the workers |

The last look of a watcher and its end are one step. Two workers for one model
and the update of Ollama are left out. Deployments that the portal does not
manage make a registration fail.

| Property | Says |
|---|---|
| `TypeOK` | form of every variable, and no model is registered twice |
| `GoneIsUnregistered` | a model that was reported deleted and not downloaded again is not offered, although a registration may have found it at Ollama before |
| `PulledIsWatched` | a downloaded model is registered or somebody is about to do so, unless its watcher reported a failure, was lost, or read the files between the worker's two writes, or its worker's files were taken away by another call (section 12), or it was being deleted |

## 8. JobRoutes

| Model | Code |
|---|---|
| `spawner`, `known`, `names` | servers: where start or stop stand, job ID, `proxy_spec`, alias, host; those in the Hub's lists; owner and Open WebUI port |
| `jobs` | Slurm's jobs |
| `routes` | the routing table of configurable-http-proxy |
| `check` | the run of `check_routes`: the list of routes it read, the servers still to visit, the routes found good, the request it waits for |
| `stopper` | `StopUserOpenWebuiJobsUseCase` |
| `Begin`, `PrepareOpenwebui`, `Submit`, `RouteInAdvance`, `WaitTcp`, `WaitJob`, `RegisterRoutes`, `SyncRoutes`, `WaitUp` | `HPCSlurmSpawner.start` and `submit_batch_script`, and JupyterHub after them |
| `StopServer`, `DeleteUser`, `Halt`, `Died` | stop; `proxy_delete_user`, which deletes a recorded alias, whatever comes of it, and then the server's own route, whose failure ends the stop; poll |
| `CheckBegins`, `PollJob`, `CheckAddsPrimary`, `CheckAddsAlias`, `Gather`, `DefaultCheck` | `check_routes_inner` and, after an exception, JupyterHub's own check |
| `JobBegins`, `JobEnds`, `RestartHub`, `TakeOver`, `RestartProxy` | Slurm; restarts of the Hub, which takes servers over, and of the proxy |

JupyterHub, batchspawner, Slurm and the proxy are modelled from how the portal
uses them. Successive requests for one server's two routes are one step, and so
are a request of `check_routes` and the list it reads after it. The order in
which servers are visited is that of dictionaries: any. A change of a dictionary
during the iteration raises an exception, as in Python. Services' routes, the
Hub's own and `extra_routes` do not change and are left out, as are progress
messages, a `scancel` that fails when a start is aborted, and a start that goes
on after JupyterHub has given it up.

| Property | Says |
|---|---|
| `TypeOK` | form of every variable |
| `OneOpenWebui` | no two Open WebUI servers of a user get beyond the look at the others, which comes before the wait for the key lock; servers taken over after a restart are excepted |
| `StoppedAreEnded` | when the stop of a user's Open WebUI jobs reports no error, every such job the user had has ended, also one whose `sbatch` never answered or that the Hub forgot |
| `RoutesSettle` | in the end the proxy has the two routes of every ready server and no other, whatever checks, starts and stops did to each other's routes |

Fairness (`FairSpec`): every start, stop and check goes on, since each of their
waits has a timeout, and `check_routes` is repeated. Slurm and users owe
nothing; the calls and faults are bounded, so that the system comes to rest.

## 9. Accounts

| Model | Code |
|---|---|
| `account` | the Linux accounts: an identity (UID and Hub user ID) per name |
| `api`, `llm` | whether an external API record, and a key that LiteLLM accepts, exist (sections 3 and 6), the key with whether there was an account when it was generated |
| `rec` | record `ssh_credentials/<name>`: identity, enabled, state, token ID |
| `token`, `policy` | Service Tokens at Cloudflare; the tokens the SSH application admits |
| `queue` | `SshAccessUseCase.lock` |
| `Execute`, `Post`, `Rotate`, `Remove`, `Reconcile` | `SshAccessUseCase.execute`, `.issue`, `.revoke`, `.reconcile` |
| `SetAllowed`, `BeginRevocation`, `FinishAllowing` | `.set_allowed`, which saves twice, for a denial and for a permission |
| `StopSsh`, `ForgetSsh` | `.delete_user`, `.forget_user` |
| `Synchronise`, `EnterSync`, `ListUsers`, `NextRecord`, `LastReconcile` | `.synchronize` |
| `CreateLinuxUser`, `Provision`, `IssueLlmKey` | `CreateAccountUseCase` |
| `DisableApi`, `DeleteLinuxUser`, `DeleteApiRecords`, `RevokeLlmKey` | `DeleteAccountUseCase` |
| `BeginEnable`, `BeginOpenwebui`, `IssueLlmKey` | `SetAccountLlmAccessUseCase`, which looks for the account many requests before it generates a key; `PrepareOpenwebuiLaunchUseCase`, which does not look |
| `SetApiAccess`, `SynchronizeApi`, `RotateLlmKey`, `DisableLlm`, `Restart` | what else changes the same state |

The requests of `cloudflare.app` are one step, and so is the look for a token of
a managed name with the POST after it. `useradd`, `chpasswd`, the home directory
and the `userdel` after a failure are one step that succeeds or fails. In the
synchronisation the revocation of a former user's token and the deletion of the
record are one call.

| Property | Says |
|---|---|
| `TypeOK` | form of every variable, and the lock is held by the head of its queue |
| `TokensOnRecord` | a Service Token whose secret the portal has ever shown is removed or on its user's record, where a revocation, a deletion or the synchronisation finds it |
| `DeletedIsForgotten` | a deletion that reports neither error nor warning leaves no record, no external API and no LLM key, but for one that was generated when the account was gone (section 12) |
| `PolicySettles` | the policy comes to admit the tokens of users on record whose account is the one they were issued to, and no other |

Fairness (`FairSpec`): weak fairness of every coroutine and of the timer. It is
enough, because a place once reached is left only by the coroutine's own step,
and the lock is passed on in order.

## 10. WebSearch

| Model | Code |
|---|---|
| `free` | `_FETCH_SEMAPHORE` |
| `found` | URLs for which a reference was signed |
| `call` | the threads: tool, URL, redirects so far, addresses vetted, connection, deadline, pages and failures so far |
| `SearchWeb`, `SearchAndFetchWeb`, `FetchWebPage` | the tools of `server.py` |
| `SearXNG`, `NextCandidate` | `search_service.search_web`, the loop of `search_and_fetch_web` |
| `Verify`, `Acquire`, `Busy`, `Release` | `verify_fetch_reference`, the semaphore with its wait of two seconds and its `finally` |
| `ResolveA`, `ResolveAAAA` | `_validate_and_resolve_url`, `_resolve_public_addresses` |
| `Connect`, `Request`, `Redirected`, `Read` | `_open_pinned_socket`, `_request_once`, the redirect, `_read_response_body` |
| `Expire`, `Restart` | a call's deadline passes; systemd |

DNS gives other addresses each time it is asked. What is in a page, the text that
is taken from it, and the signature of a reference are outcomes. The deadline is
not looked at while response headers are read, nor in the model. An exception
that is no `WebFetchError` (a path that cannot be sent, a `Location` that is no
URL, some errors of name resolution, some names of character sets) ends the whole
of a combined search.

| Property | Says |
|---|---|
| `TypeOK` | form of every variable, and the permits given out are those of the threads between acquire and release |
| `OnlyPublic` | a connection is open only to a public address that was given for the host of the URL being fetched, whatever DNS says now and however many redirects led there |
| `AnswersCome` | a call whose servers end what they send is answered, whichever others are kept by servers that do not, and the answer of a combined search accounts for every candidate it tried and lacks pages only for want of candidates or time |

Fairness (`FairSpec`): the threads go on where their wait has an end: two seconds
for a permit, the lifetime of a DNS query, the timeout of a connection. Nothing is
assumed of a thread that reads what a server sends (`Reading`), SearXNG or a page:
the timeouts of its socket are of the wait for the next bytes, and the deadline
is not looked at between them, but between two pieces of a body. That a server
comes to an end is a premise of `AnswersCome`, for each call by itself: what
happens to the other is not supposed. That a deadline passes is assumed nowhere.

## 11. Runs

| Run | Instance | Checks |
|---|---|---|
| `credentials` | 1 request + synchronisation, 2 identities, 2 Service Token IDs, 3 Hub token IDs, 1 restart | all safety properties of `ApiCredentials` |
| `credentials_live` | FairSpec, 1 request + synchronisation, 1 identity, 1 Service Token ID, no restart | `RevocationCompletes`, `ServiceCompletes`, `HubSettles` |
| `publications` | 1 request + synchronisation, 2 identities, 1 API, 2 Service Tokens, 1 lost answer | all safety properties of `ApiPublications` |
| `publications_live` | FairSpec, 1 request + synchronisation, 1 identity, 1 API, 2 Service Tokens, one after the other the present one, 1 restart | `StopCompletes`, `PublicationSettles` |
| `gateway` | FairSpec, 1 user with an API and 1 without, 1 call, 1 port, 2 identities of listeners, the reconciliation, 1 restart | all properties of `ApiGateway` |
| `llm_access` | 3 threads, 3 keys, 4 calls, 2 failures | all properties of `LlmAccess`, with the refinement |
| `llm_models` | 2 threads, 2 models with their watchers, 3 calls, 1 failure, 1 restart, of these 3 altogether (`Few`) | all properties of `LlmModels` |
| `routes` | FairSpec, 2 servers of 1 user, 1 job, 2 starts or stops, 1 failure or restart | all properties of `JobRoutes` |
| `accounts` | FairSpec, 1 name, 2 identities, 2 tokens, 2 calls at a time + synchronisation, 4 calls, 1 failure or restart | all properties of `Accounts` |
| `web_search` | FairSpec, 2 threads, 1 host, 1 permit, 2 results, 2 pages, 1 redirect | all properties of `WebSearch` |
| `service_not_revived`, `disabled_has_no_key` | see section 12 | one property each, which does not hold |

Why the bounds are enough to be of interest. A request and the
synchronisation are two contenders for one lock, and a third, the deletion of
records or a change of the account, comes beside it. Two identities are a former
and a present owner. The Service Token IDs allow one token in use, one being
created and one left over. One lost answer puts every single call of a use case
in doubt, one restart falls between any two commits. A restart drops the
coroutines and keeps the stores, as a failed call does to the coroutine that
made it; `credentials_live` therefore leaves restarts to the other runs, where
the state after one is checked. One API is enough because the APIs of
a user share only the lock, which requests for one API already contend for, and
the limit of their number, which nothing but the registration under that lock
reads. So the order in which the APIs of a user are stopped, all of them before
the first is removed, is in the model and in no run. Unbounded in the runs of the
first three modules: the number of requests, rounds of the
synchronisation and failed calls. The sets of IDs bound how many objects are
alive at a time, not how many are ever made: an ID is free again when no store
and no copy has it, which no step can tell from a new one. Where the free IDs
run out a creation cannot succeed, only fail.

For the gateway one port is the interesting case, as all conflicts are about one
port, and the guard handles ports alike and one after the other; two users
are the owner and another one; two identities are the
registered worker and a second one, or the process before and after it was
started again. `gateway` has one user with an API, so that a call meets every kind
of process; that another owner's guard is on the port when a process comes is not
in it, but in a larger instance below.

`publications` has one request, so that two requests of a user never overlap in it;
what then is lost is in section 12. `publications_live` has one identity: a name
that passed to and fro between two for ever could have the wrong one whenever the
synchronisation looks.

In `llm_access` three calls are an administrator's, the user's and the start of a
job, and four let one come after another has ended; three keys are an external
one, an Open WebUI one and a new one; two failures are one of a use case and one
of its undo. In `llm_models` two administrators and a watcher meet, and three
calls are a pull, a cancellation and another pull; each of them counts against
failures and restarts. In `routes` a check meets the
start of one server and the stop of another, and with one job one of them is
without. In `accounts` four calls are an issue, a deletion, a creation and
another issue, or an enabling beside a deletion. In `web_search` one permit for two
threads makes each wait for the other, which a server may keep for ever.

Other instances checked once, by hand, without a violation:

- the properties of `credentials` with 2 requests beside the synchronisation and 1
  identity;
- `CleanIsClean` and `AppAdmitsOwner` with 2 requests, 1 identity and no lost answer;
  these two, `StopStands` and the invariants behind the theorems about
  `ApiPublications` with 2 requests and 1 lost answer, as long as the deletion of the
  account is undisturbed (section 13);
- `Republished` with 2 users who have an API each on the one port, so that the guard
  of one is there when the other's process comes, and without calls;
- `routes` with 2 jobs and no failure, and with 1 server, 2 jobs and a restart;
- `accounts` with 2 names, and with 2 failures;
- `web_search` with 2 hosts, and with 3 threads and 2 permits.

Deadlock is checked where calls go on without end. `llm_access`, `llm_models`
and `routes` say `CHECK_DEADLOCK FALSE`, since `MaxCalls` lets the system stop
there, as do the two runs with a violation.

## 12. What the code does not keep

Two runs end in a counterexample; PROJECT.json quotes the line of the sources each
contradicts.

- `service_not_revived`: the synchronisation looks at a state it got before it
  waits for the lock, and issues a Service Token that its owner has revoked
  meanwhile (a test says that the synchronisation does not revive it).
- `disabled_has_no_key`: a stop marks the user and then blocks the keys it lists,
  without the lock under which keys are issued. An issue that had looked at the
  mark before generates its key after the list was read: the user is disabled
  and has a key that works. A comment says that new keys are stopped first.

What else was met while modelling. It is kept out of the properties by the
exceptions they state, by a premise, or by the bounds of a run, or it is in none. TLC
finds the behaviours marked with (*) when the exception is taken out of the property
that is named, or with the bounds that are.

*Credentials and publications.*

- (*) The deletion of a user's records takes the credential lock and not the
  publication lock. A publication that waits for the guard or for Cloudflare
  meanwhile writes its registration back when the deletion is complete
  (api_credentials_usecase.py:445), and so does the refresh of one that was registered
  during the deletion. `StopStands` is violated with 2 requests; if an answer is lost
  besides, so are `CleanIsClean` and `AppAdmitsOwner`.
- A Service Token whose creation was never answered is not in the record; a
  revocation completes without it. Nobody knows its secret.
- With a saved ID that is gone, `app` creates a new application without a search
  by name; two lost answers lead to two applications of one name, and
  `remove_app` removes one and reports success. (`CleanIsClean` is checked with
  one lost answer.)
- The time of the last configuration survives the removal of the application;
  stop, publish (fails at the health check), one refresh that finds no listener
  and one that does, all within 300 seconds, end in state published without an
  application. The next configuration repairs it.
- The sweep decides on an old list of accounts and an old record, and may
  disable a user who is neither deleted nor being revoked any more.
- `StopStands` fails also when the account is replaced beside the portal, and one
  request revokes for the former owner while another registers for the new one.

*Language model keys.*

- (*) When one of the three requests behind the list of a user's keys fails and the
  others show none, the list is empty without an error (management_gateway.py:185). A
  stop then reports success and has blocked nothing; a rotation generates the new
  key beside the old one, although a comment says that the old is deleted first
  (llm_access_usecase.py:473). Excepted from `StoppedHasNoKey` (`excused`) and from
  `KeyIsRegister` (`locked`).
- (*) HTTP 401, as for a wrong administration key, and 404 count as "key not found".
  The key file is removed, a second key is issued, and the first is accepted still
  and on no file (llm_access_usecase.py:641, 705). Excepted from `NoStrayKey` and
  `StoppedHasNoKey` (`forgotten`).
- A connection that breaks while an answer is read raises an exception that the
  use cases do not handle: the undo of an enabling, or the stop of the Open WebUI
  job, does not happen.
- A deletion removes the key file first; if revoking then fails, no later stop
  finds the Open WebUI key (`forgotten`).
- The late end of a deletion can remove the mark of an account that was created
  again under the name.

*Models.*

- (*) The worker of a download writes its process ID and then its model
  (hpc-ollama.j2:275); `pull-status` reads the model and then the process ID. A
  watcher whose first poll falls between the writes takes the download for another
  model's and ends; the model is downloaded and never registered. Excepted from
  `PulledIsWatched` (`misread`).
- `pull-cancel` has killed the worker of one model and sleeps; a pull of another
  begins; the cancellation removes the pid file and lock of the second, whose
  watcher then sees nothing under way and ends, and the model is downloaded but
  never registered (`README.md` of the repository, line 159, says it is).
- Two pulls find the files of a worker that is gone; the second removes them when
  the first has made its own, and both go on with the lock.
- A worker that is killed before it wrote its process ID leaves the lock
  directory for good. A pull that fails at once can remove the lock of another.
- A pull of a model whose former watcher is just registering it gets none of its
  own. After a restart a completed pull is registered only when an administrator
  asks for the status, a synchronisation or a registration.
- A model downloaded between the two unregistrations of a deletion is installed
  and not registered.

*Servers and routes.*

- A check deletes the fresh routes of a server that became active after it was
  passed; a change of the list of servers raises an exception, and JupyterHub's
  own check, which follows, deletes all aliases. The next check repairs both.
- A job whose `sbatch` was never answered is known to nobody but Slurm; only the
  stop of a user's Open WebUI jobs finds it.
- The port of an Open WebUI job is computed from the name of its server
  (`presentation/job_form.py:110-116`, a sum modulo 20000); two with the same
  port on one node can answer for each other while a start waits for a listener.

*Accounts.*

- (*) A creation, an enabling of access (account_management_usecase.py:432) or the
  start of an Open WebUI job (job_management_usecase.py:274) that is under way while
  the account is deleted generates a key after the deletion has revoked them all.
  The deletion answers without a warning. Excepted from `DeletedIsForgotten`, which
  does not speak of keys generated when the account was gone (`llm`).
- Without a record of the user, the deletion leaves nothing that holds up an issue
  of SSH access that is queued behind it, although a comment says it does
  (`ssh_access_usecase.py:190`). `forget_user` then raises; the revocation of the
  LLM key that should follow is skipped, and trying again stops at `userdel`:
  the LLM key of a deleted account stays accepted. Likewise when the deletion of
  the API records fails. The SSH record is found by the synchronisation, unless
  the name is created again with the same identity.
- The late end of a deletion can remove records and keys of an account that was
  created again.
- A restart between the two saves of a denial leaves a disabled record whose
  token the synchronisation takes out of the policy but never removes.
- A token whose creation was not answered is admitted nowhere, but counts against
  the limit of tokens.

*Search.*

- (*) A server that goes on sending headers keeps a thread of the search server, and
  its permit, beyond the deadline, which the docstrings give for the whole of a
  fetch (web_fetch.py:385, 417, 450). `AnswersCome` has the premise that the
  servers a call reads from come to an end; the other calls are answered still.

## 13. Proofs

`ApiCredentialsProofs`, for any finite or infinite sets of coroutines,
identities and tokens and any bounds, from `ConstantsAssumption` alone:

| Theorem | Says |
|---|---|
| `TypeCorrect` | `Spec => []TypeOK` |
| `MutualExclusion` | no two coroutines work on the record at the same time, at any commit or await |
| `DenialIsFinal` | `Spec => DenialStands` |
| `Invariance` | `Spec => []Inv`, the inductive invariant |

The argument. `TypeOK` is not inductive by itself: a step inside the lock
writes a local copy back to the store, so that the copy must be known to be a
record there, and a step for a former owner's record needs the identity it
looked up. `Inv` joins the types of the stores (`StoresOK`) and of the
coroutines (`ControlOK`) with what holds of each coroutine where it stands
(`LocalOK`): one at a point inside the lock is at the head of the lock's queue,
so that there is only one of them; its copy agrees with the stored record on
the owner and on the denial, since nobody else can have written the record
after it was read; and the points that only certain jobs or callers reach are
reached by those. A step that writes a copy back therefore cannot end a denial,
and `DenialStands` follows action by action.

The second half of `ApiCredentialsProofs`, from the same assumption and on top of
`Inv`:

| Theorem | Says |
|---|---|
| `ReadyUsable` | `Spec => []ReadyIsUsable` |
| `TokensRecorded` | `Spec => []TokensOnRecord` |
| `DisabledRevoked` | `Spec => []DisabledIsRevoked` |
| `SettledSole` | `Spec => []SettledIsSole` |
| `RevocationIsFinal` | `Spec => RevocationStands` |
| `TokenInvariance` | `Spec => []TokInv`, inductive together with `Inv` |

The argument. Cloudflare and the Hub are changed by calls that may fail, apart
from the record, so that the record is always behind or ahead of them; none of
the four invariants is inductive. `Sound` says by how much: which states of a
record name a token that is there, and that the tokens its fields do not name
are of no use to anybody. The coroutine inside the lock has the stored record as
its copy, or the stored one with the Hub token it was just given
(`PlaceSound`), and `Stand`, `HubStand` and `WishStand` say for each place which
states of the record, which Hub tokens and whose wish it can meet there. A step
owes that the record it goes on with is sound again; four lemmas (`GotoSound`,
`SaveSound`, `LeaveSound`, `StaySound`) conclude the rest once for all actions.
`RevocationIsFinal` needs the wish (`asked`) to be part of soundness: a record
that says that something is being issued, and is not a former owner's, says so
because the owner asked for it.

`ApiPublicationsProofs`, for any requests, APIs, identities, Service Tokens,
lost answers and restarts:

| Theorem | Says |
|---|---|
| `TypeCorrect` | `Spec => []TypeOK` |
| `OneInside` | two coroutines work on registrations at the same time only if one of them, and one only, is the deletion of an account |
| `TrueRecords` | `Spec => [](lost + crashes = 0 => CleanIsClean /\ AppAdmitsOwner)` |
| `TrueAfterOneFault` | `Spec /\ []Undisturbed => [](lost + crashes <= 1 => CleanIsClean /\ AppAdmitsOwner)` |
| `StopIsRespected` | `Spec /\ []Undisturbed => StopStands` |
| `Invariance` | `Spec => []Inv`, the inductive invariant of the lock |

The argument. `Inv` says who has the publication lock: its queue has each
coroutine once, those behind the first wait, and whoever is at a place where a
copy is worked on is the first, but for the one deletion of an account, which
enters no queue (`QueueOK`, `LocalOK`, `OneDeletion`). The invariants of the
data are three more.

- `Data`, for any number of requests. A record is `Sound` if it tells the truth
  about the applications; what is stored is sound, except while the application
  just configured is not on record yet (`Unrecorded`), and so is every copy
  inside the lock. The deletion of an account works without the lock, so that a
  copy need not be the stored record; but it removes applications and records
  only, and soundness survives that. From it follow `CleanIsClean` and
  `AppAdmitsOwner`.
- `Single`, for `StopStands`: copies agree with the store (`Agrees`). A
  refresh or a configuration that writes its copy back then writes what is
  stored, and a stopped registration is not revived. `Deed` says of every step
  what it may do to the stored registrations. This needs `Undisturbed`: nobody
  registers or publishes for a name between the revocation and the end of the
  deletion of its account. The code does not promise that: section 12 has the
  behaviour with two requests in which the deletion drops a record, and the
  request that is configuring it writes it back. A restart needs no
  condition, since it takes the copies with it.
- `OneLost`, for one fault. While nothing is lost the application on record is
  there (`Exact`); so when an answer is lost, or a restart comes between
  Cloudflare and the record, the application that nobody heard of is the only
  one of its name and is the one on record, or is found by its name the next
  time. Two faults do break the properties (section 12).

With one request, as in the run `publications`, every behaviour is `Undisturbed`. With
more nothing in the code brings it about: administrators and users keep to it or
do not.

`ApiGatewayProofs`, for any users, ports, calls and restarts, from
`ConstantsAssumption` alone:

| Theorem | Says |
|---|---|
| `TypeCorrect` | `Spec => []TypeOK` |
| `OwnerOnly` | `Spec => []ReachesOwner` |
| `Served` | `Spec => []ServedIsGuarded` |
| `Published` | `Spec => []PublishedIsGuarded` |
| `Invariance` | `Spec => []Inv`, the inductive invariant |

The argument. Listeners on one port belong to one user (`Exclusive`), and one
that has gone never comes back. A coroutine that has connected therefore knows:
if the registered process is there at the second look, it was there when the
connection was accepted, and whoever accepted it belongs to the same user
(`ConnOK`); this gives `OwnerOnly`. For the guard, `GuardOK` says that a
listener somebody relies on, because a call has passed its check, is being
answered, or its API is published, is guarded by nftables and by a record of its
user. Nobody comes to rely on a listener but by `Apply` after a check, when
nftables agrees with the records, or, for a worker that accepted a connection,
by the second look at the registered process beside it. Every `Apply` keeps it,
since it makes nftables agree with the records and the record is right. The two
steps that change a record do not harm it: `protect` has seen a listener of its
own user on that port, so that no other user's listener is there to be relied
on, and `reconcile` has seen none of the guard's user. Both hold over the wait
between the look and the change because the lock lets nobody else in (`LockOK`):
a queue in which each waits once and whose head alone is inside. One lemma for
each action, and lemmas for what actions have in common (coming to rest, going
on, beginning with a listener), carry `Inv` over every step.

`LlmAccessProofs`, for any calls, keys and failures:

| Theorem | Says |
|---|---|
| `TypeCorrect` | `Spec => []TypeOK` |
| `NoKeyStrays` | `Spec => []NoStrayKey` |
| `LockIsRegister` | `Spec => KeyIsRegister`: initial states map to the initial state of `KeyRegister`, every step to one of its steps or to a stutter |
| `StoppedIsClosed` | `Spec => []StoppedHasNoKey` |
| `Invariance`, `StopInvariance` | the two inductive invariants |

The argument. `Inv` says where a call of each kind can be (`Placed`), that a key
serves the purpose it was made for until it is deleted, that the file is empty
while an Open WebUI key is being made (`KeyOK`), and that whoever is about to
issue under the key lock holds it and has seen that there is no key of that kind
(`LockOK`). The refinement follows: a key is issued only when the register is
empty, and two keys are never exchanged in one step. For `StoppedHasNoKey` a
second invariant is needed, since between the mark and the report the property
speaks of nothing: `Stop` says that from the mark on every key still accepted is
owed by a call of those that stop the access, which is going to block it or to
report that it could not (`Owed`, `Pending`), and that no call adds another
unless it began before the mark (`Barred`) - as long as no call is giving the
access back (`Loose`), after which nothing is promised until it has returned.
What a listing that fails in part overlooks, and what loses its file for an
answer 401 or 404, is noted (`excused`, `forgotten`) by the step that does it:
the theorems say that these are the only ways, beside a call under way at the
mark and a deletion, and section 12 describes each.

`LlmModelsProofs`, for any models, administrators' calls and restarts:

| Theorem | Says |
|---|---|
| `TypeCorrect` | `Spec => []TypeOK` |
| `GoneStaysGone` | `Spec => []GoneIsUnregistered` |
| `PulledIsCaredFor` | `Spec => []PulledIsWatched` |
| `Invariance` | the inductive invariant |

The argument. Whoever works on the deployments of a model holds its lock
(`Locked`), so that what it has counted there is still so when it goes on
(`Fits`). A deletion therefore ends with no deployment, and who would offer the
model had to see it at Ollama under the same lock (`GoneForGood`). For the
second, the lock of the control script is a directory and its holder a process
ID in a file, both of which a cancellation can take from another: `Sole` says
that a worker nobody disturbed is the only one and the process noted, and
`Watched` that a model with such a worker, or with a result it left, is
registered, or its request is being started, or its watcher is at a place from
which it goes on to register it; a watcher that has read the file of the model
before it was written and that of the process after is where it does not, and
its model is `misread`. A step of an actor owes what it does to its own record
(`Goes`), to the models of others (`Keeps`) and to the model it watches
(`Heeds`).

`JobRoutesProofs`, for any servers, users, jobs, calls and faults:

| Theorem | Says |
|---|---|
| `TypeCorrect` | `Spec => []TypeOK` |
| `OneAtATime` | `Spec => []OneOpenWebui` |
| `StopEndsJobs` | `Spec => []StoppedAreEnded` |
| `Invariance` | the inductive invariant |

The argument. There is no lock. A server that is past the question whether
another Open WebUI of the user is active (`Beyond`) is known to the Hub and not
idle, whatever it waits for, so that the next to ask sees it: no two of a user
are past it (`Solo`), except that a restart takes servers over without asking.
The jobs of a user at the beginning of the stop never change their owner and
never begin again (`Evolves`); `squeue` lists all of them that have not ended,
after the servers were stopped, and `scancel` ends them or the use case fails
(`Stopped`). `check_routes` writes only what neither speaks of.

`AccountsProofs`, for any names, identities, tokens and calls:

| Theorem | Says |
|---|---|
| `TypeCorrect` | `Spec => []TypeOK` |
| `NoTokenLost` | `Spec => []TokensOnRecord` |
| `DeletionForgets` | `Spec => []DeletedIsForgotten` |
| `Invariance` | the inductive invariant |

The argument. The line for the SSH lock holds each call once and only its first
can be inside (`QueueOK`), so that what the holder has read stays true over its
awaits (`Knows`): a record in which a token is to be saved has none, and one
that forgets a token had it removed. `DeletedIsForgotten` speaks of the moment a
deletion reports success; `Leaving` says at which of its later places which part
of the name is already gone, and stays gone. An external API or an SSH record is
made only by a step that finds an account, or by one that has the lock and found a
record. A key may be generated by a call that found the account long before, or
never looked; it is told from the others by whether there was an account at that
moment (`llm`), and only the others are spoken of, which the deletion has revoked.

`WebSearchProofs`, for a finite set of calls and any permits, results, pages and
redirects:

| Theorem | Says |
|---|---|
| `TypeCorrect` | `Spec => []TypeOK`, with the count of the semaphore |
| `PublicOnly` | `Spec => []OnlyPublic` |
| `AnswersComplete` | a combined call that has answered has all its pages, or has tried every candidate, or ran out of time, or reports an error |
| `Invariance` | the inductive invariant |

The argument. Permits are counted by the places of calls, so that a step stays
on its side of the semaphore or hands one permit over, however its fetch ends.
Addresses on the way to a connection belong to the URL at which the fetch is,
which a redirect changes together with dropping them (`Pinned`), and are public
from the check on. A combined call has tried as many candidates as have become
pages or failures, and the one it is at (`Counted`).

Assumptions. Each proof uses the `ConstantsAssumption` of its module and nothing
else: bounds are natural numbers (the number of permits is positive), names for
"none" are in none of the sets they stand beside, the synchronisation is not a
request, models and administrators' calls have different names, and only in
`WebSearch` a set of calls is finite, because permits are counted. TLC evaluates
all of them in the runs. Two theorems about `ApiPublications` name a hypothesis
of their own, `[]Undisturbed`, and those about its invariants a bound on the
faults; section 12 has the behaviours that make them necessary. The bounds are
parameters: for every natural number the theorems hold of the system that stops
there, and every finite behaviour is one of such a system. TLC has found each
inductive invariant to hold on the instance of the run of its module or a
smaller one, too.

Not proved, only model-checked:

- Liveness: `RevocationCompletes`, `ServiceCompletes`, `HubSettles`,
  `StopCompletes`, `PublicationSettles`, `PortFreed`, `Republished`,
  `RoutesSettle`, `PolicySettles` and `AnswersCome`. The provers have no rule for
  fairness and ENABLED.

## 14. Not modelled

- The control script's start, stop and update with rollback (`OllamaControl` in
  the plan), and the replacement of Slurm's configuration.
- Passwords, display names, sudo: single calls of Linux tools that change nothing
  another operation reads. A password is verified and then set, and two
  administrators can take sudo from each other at the same time; neither is
  excluded by the code, and neither says anything of the other's state.
- Presentation, sessions, settings, forms, lists of jobs, resource inventory,
  inference runtime, files: no state of their own, or one call.
- The extraction of text from HTML, and the bearer token of the search server.
- Frontend, development preview, Ansible roles other than the Ollama control
  script: no state shared with the portal, or installation.
- Encryption and SQLite: a `put` is an atomic write that survives a restart.
- Clocks: only the 300 seconds of a configuration and the deadline of a search.
  The comparison of a JWT's issue time with `service_valid_from`, in whole
  seconds and with a time taken before the rotation, needs a clock and the
  tokens of a call.

## 15. Plan

Done: `ApiCredentials`, `ApiPublications`, `ApiGateway`, `LlmAccess` with
`KeyRegister`, `LlmModels`, `JobRoutes`, `Accounts` and `WebSearch`, with proofs of
their safety properties. Most important first:

1. `Invocation`: a clock, JWTs and Service Tokens against rotation, stop and
   restart, as an extension of `ApiGateway`.
2. `OllamaControl`: update worker, rollback, lock directories.
3. `CleanIsClean` and `AppAdmitsOwner` with one fault and disturbed deletions
   (section 13).
4. Pure functions against reference definitions: free port ranges, the rows of
   the nft ruleset, route specifications, run times.
