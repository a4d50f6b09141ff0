--------------------------- MODULE ApiCredentials ---------------------------
(***************************************************************************)
(* The external-API credentials of one user name: the encrypted record the *)
(* portal keeps, the dedicated JupyterHub tokens, the Cloudflare Service   *)
(* Token, and the use cases that move the three together.                  *)
(*                                                                         *)
(* The portal is one asyncio process.  A coroutine runs until it awaits,   *)
(* and every use case below holds the user's credential lock (a FIFO       *)
(* asyncio.Lock) while it works, on a local copy of the record that it     *)
(* writes back with single-statement SQLite transactions.  A step of this  *)
(* module ends where a commit or an await ends, so that a restart can fall *)
(* between any two of them.                                                *)
(*                                                                         *)
(* A definition whose name begins with M_ is never used: it is the next    *)
(* definition with a plausible error, which the properties must notice.    *)
(***************************************************************************)
EXTENDS Naturals, Sequences, FiniteSets

CONSTANTS
    Request,     \* coroutines serving user and administrator requests
    Sync,        \* the coroutine of the periodic synchronisation
    Owner,       \* identities (Linux UID, Hub user ID) the name can stand for
    HubId,       \* IDs of JupyterHub tokens
    CfId,        \* IDs of Cloudflare Service Tokens
    NoRecord, NoToken, NoAccount,
    MaxCrashes   \* bound on the restarts of the portal

Proc == Request \cup {Sync}

CredentialState ==
    {"unissued", "revoking_cloudflare", "issuing", "ready",
     "rotating_cloudflare", "rotating_jupyterhub", "revoking", "disabled"}

Record ==
    [owner     : Owner,
     enabled   : BOOLEAN,
     state     : CredentialState,
     requested : BOOLEAN,                     \* service_requested
     cf        : CfId \cup {NoToken},         \* cf_token_id
     hub       : {"none", "ready", "rotating", "revoked"},   \* hub_state
     hubTok    : HubId \cup {NoToken},        \* hub_token_id
     pending   : SUBSET (HubId \cup {NoToken})]   \* revoke_pending

\* A Service Token, by ID and managed name; "told" says that its current secret
\* reached the portal, which stores it in the step in which it arrives.
CfToken == [id : CfId, name : Owner, told : BOOLEAN]

ASSUME ConstantsAssumption ==
    /\ Sync \notin Request
    /\ NoToken \notin HubId \cup CfId
    /\ NoAccount \notin Owner
    /\ NoRecord \notin Record
    /\ MaxCrashes \in Nat

\* What a request can ask for.  "hub_ensure" is the provisioning of a new
\* account; "delete" is the account deletion, which disables the API first.
Job == {"issue", "revoke_service", "rotate", "hub_ensure", "hub_rotate",
        "hub_revoke", "enable", "disable", "delete"}

\* Queued for the credential lock, by the use case that asks for it.
Waiting == {"i_wait", "u_wait", "r_wait", "h_wait", "e_wait", "d_wait",
            "rv_wait", "p_wait"}

\* Inside the credential lock, between two commits or at an await.
Holding == {"i_fresh", "i_request", "i_create", "i_rotate", "i_done",
            "u_remove", "u_done", "r_rotate", "h_decide", "h_revoke", "h_issue",
            "h_store", "h_drop", "d_hub", "rv_hub", "rv_cf", "rv_delete",
            "p_remote"}

\* The part of Holding that awaits Cloudflare.  Anywhere else inside the lock
\* the coroutine has the event loop, and only threads and other systems move.
Awaiting == {"i_create", "i_rotate", "u_remove", "r_rotate", "rv_cf", "p_remote"}

\* Outside the lock.
Outside == {"idle", "d_unpublish", "userdel", "forget", "s_sweep", "s_rows"}

VARIABLES
    account,   \* identity the name has now, or NoAccount
    rec,       \* the stored record, or NoRecord
    hub,       \* IDs of the live "HPC external API" tokens of the Hub user
    cf,        \* Service Tokens that exist at Cloudflare
    lock,      \* the credential lock: its holder and, behind it, its waiters
    running,   \* the coroutine that has not given up the event loop, if any
    job,       \* what each coroutine was asked for
    pc,        \* where each coroutine stands
    mine,      \* its local copy of the record
    me,        \* the identity it looked up before it first awaited
    ret,       \* who called RevokeCredentialRecord
    seen,      \* the name was in the synchronisation's snapshot of accounts
    crashes,   \* restarts so far
    asked      \* the owner's last word on the Service Token; see Withdrawn

control == <<lock, running, job, pc, mine>>

vars == <<account, rec, hub, cf, control, me, ret, seen, crashes, asked>>

TypeOK ==
    /\ account \in Owner \cup {NoAccount}
    /\ rec \in Record \cup {NoRecord}
    /\ hub \subseteq HubId
    /\ cf \subseteq CfToken
    /\ lock \in Seq(Proc)
    /\ running \in SUBSET Proc
    /\ job \in [Proc -> Job \cup {"sync", "none"}]
    /\ pc \in [Proc -> Waiting \cup Holding \cup Outside]
    /\ mine \in [Proc -> Record \cup {NoRecord}]
    /\ me \in [Proc -> Owner \cup {NoAccount}]
    /\ ret \in [Proc -> {"none", "issue", "hub", "revoke", "reraise"}]
    /\ seen \in BOOLEAN
    /\ crashes \in 0 .. MaxCrashes
    /\ asked \in {"no", "yes", "overtaken"}
-----------------------------------------------------------------------------
(***************************************************************************)
(* Records, tokens and identities.                                         *)
(***************************************************************************)

\* {**identity, "enabled": True, "state": "unissued"}
FreshRecord(o) ==
    [owner |-> o, enabled |-> TRUE, state |-> "unissued", requested |-> FALSE,
     cf |-> NoToken,
     hub |-> "none", hubTok |-> NoToken, pending |-> {}]

\* queries.credential_record: the record is there and is the caller's.
Mine(r) == r # NoRecord /\ account # NoAccount /\ r.owner = account

Available(r) == r.enabled /\ r.state = "ready"

\* HubTokenGateway.valid: the stored token is still the Hub's.
Valid(r) == r.hubTok \in hub

\* Identifiers are never used twice.  Which unused one is drawn makes no
\* difference, so one is enough.
OneOf(S) == {x \in S : x = CHOOSE y \in S : TRUE}
Copies == ({rec} \cup {mine[t] : t \in Proc}) \ {NoRecord}
NewCfIds   == OneOf(CfId \ ({x.id : x \in cf} \cup {r.cf : r \in Copies}))
NewHubIds  == OneOf(HubId \ (hub \cup UNION {r.pending \cup {r.hubTok} : r \in Copies}))

-----------------------------------------------------------------------------
(***************************************************************************)
(* Coroutines and the credential lock.                                     *)
(***************************************************************************)

\* t may take its next step: nobody else is between two awaits.
Turn(t) == running \subseteq {t}

\* Mutant: the use case does not take the lock.
M_Unlocked(t, p) == pc[t] = p

\* t reaches the head of the lock's queue and enters the critical section.
Enter(t, p) == pc[t] = p /\ lock # <<>> /\ Head(lock) = t

\* t keeps the lock and goes on at p with the local record m.
Goto(t, p, m) ==
    /\ pc' = [pc EXCEPT ![t] = p]
    /\ mine' = [mine EXCEPT ![t] = m]
    /\ running' = IF p \in Awaiting THEN {} ELSE {t}
    /\ UNCHANGED <<lock, job>>

\* t, behind whom the lock's queue is q, goes on outside the lock with job j.
\* A lock that is free is taken without giving up the event loop.
Outward(t, j, p, q) ==
    /\ lock' = IF p \in Waiting THEN Append(q, t) ELSE q
    /\ running' = IF lock' = <<t>> THEN {t} ELSE {}
    /\ pc' = [pc EXCEPT ![t] = p]
    /\ job' = [job EXCEPT ![t] = IF p = "idle" THEN "none" ELSE j]

\* t leaves "async with credential_lock", by return or exception, and goes on
\* at p, which may queue for the lock again.
Leave(t, p) ==
    /\ Outward(t, job[t], p, Tail(lock))
    /\ mine' = [mine EXCEPT ![t] = NoRecord]
    /\ me' = [me EXCEPT ![t] = NoAccount]
    /\ ret' = [ret EXCEPT ![t] = "none"]

\* t, outside the lock, goes on at p.
Advance(t, p) == Outward(t, job[t], p, lock) /\ UNCHANGED <<mine, me>>

FirstStep(j) ==
    CASE j = "issue" -> "i_wait"
      [] j = "revoke_service" -> "u_wait"
      [] j = "rotate" -> "r_wait"
      [] j \in {"hub_ensure", "hub_rotate", "hub_revoke"} -> "h_wait"
      [] j = "enable" -> "e_wait"
      [] OTHER -> "d_wait"

\* A handler is called for an existing account and asks for the lock.
Submit(t, j) ==
    /\ pc[t] = "idle"
    /\ account # NoAccount
    /\ Outward(t, j, FirstStep(j), lock)
    /\ UNCHANGED <<account, rec, hub, cf, mine, me, ret, seen, crashes, asked>>

\* Where an exception takes t: the synchronisation logs it and continues with
\* its next loop, a request reports it.
OnError(t) ==
    IF job[t] = "sync" /\ (pc[t] = "d_wait" \/ ret[t] \in {"revoke", "reraise"})
    THEN "s_rows" ELSE "idle"

\* A call to Cloudflare fails without effect: refused, unreachable, over the
\* token limit, or not to be matched by name.
CloudflareFails(t) ==
    /\ pc[t] \in Awaiting
    /\ Leave(t, OnError(t))
    /\ UNCHANGED <<account, rec, hub, cf, seen, crashes, asked>>

\* The answer of a call that had its effect arrives, or is lost on the way.
Answer(t, told, p, m) ==
    \/ /\ told
       /\ rec' = m
       /\ Goto(t, p, m)
       /\ UNCHANGED <<me, ret>>
    \/ /\ ~told
       /\ UNCHANGED rec
       /\ Leave(t, OnError(t))

\* Revoking Hub tokens one commit at a time, the recorded one first.
DeleteHubToken(S, first) ==
    \E x \in S : /\ first \in S => x = first
                 /\ hub' = hub \ {x}

-----------------------------------------------------------------------------
(***************************************************************************)
(* RevokeCredentialRecordUseCase, for an owner that changed (from the      *)
(* issuing and the Hub use cases) and for RevokeApiCredentialsUseCase.     *)
(***************************************************************************)

\* The owner's wish is withdrawn, by the owner or with the access.  "overtaken":
\* the synchronisation has seen the wish and is on its way to carry it out.
Withdrawn == IF pc[Sync] = "i_wait" THEN "overtaken" ELSE "no"

\* Mutant: a state that nothing recognises.
M_Misnamed(r) == [r EXCEPT !.enabled = FALSE, !.state = "revoked"]

\* Mutant: only the fields of the aggregate are saved, and the token IDs lost.
M_Bare(r) == [FreshRecord(r.owner) EXCEPT !.enabled = FALSE, !.state = "revoking"]

Denied(r) == [r EXCEPT !.enabled = FALSE, !.state = "revoking"]

\* begin_revocation, saved before anything is revoked.
BeginRevocation(t, r, who) ==
    /\ rec' = Denied(r)
    /\ Goto(t, "rv_hub", Denied(r))
    /\ ret' = [ret EXCEPT ![t] = who]
    /\ asked' = Withdrawn

AfterRevoke(t) ==
    IF job[t] = "sync" THEN "s_rows"
    ELSE IF job[t] = "delete" /\ ret[t] = "revoke" THEN "userdel" ELSE "idle"

\* complete_revocation: nothing but the owner and "disabled" is kept.
Disabled(r) == [FreshRecord(r.owner) EXCEPT !.enabled = FALSE, !.state = "disabled"]

CompleteRevocation(t) ==
    /\ rec' = Disabled(mine[t])
    /\ \/ /\ ret[t] \in {"issue", "hub"}
          /\ Goto(t, "rv_delete", Disabled(mine[t]))
          /\ UNCHANGED <<me, ret>>
       \/ /\ ret[t] \notin {"issue", "hub"}
          /\ Leave(t, AfterRevoke(t))

RevokeEnter(t) ==
    /\ Enter(t, "rv_wait")
    /\ \/ /\ rec # NoRecord
          /\ BeginRevocation(t, rec, ret[t])
          /\ UNCHANGED me
       \/ /\ rec = NoRecord
          /\ Leave(t, AfterRevoke(t))
          /\ UNCHANGED <<rec, asked>>
    /\ UNCHANGED <<account, hub, cf, seen, crashes>>

\* Mutant: tokens that are not on record are left alone.
M_Recorded(r) == hub \cap (r.pending \cup {r.hubTok})

\* The recorded token, the orphans and the pending ones: all there are.
Revocable(r) == hub

RevokeHub(t) ==
    /\ pc[t] = "rv_hub"
    /\ \/ /\ DeleteHubToken(Revocable(mine[t]), mine[t].hubTok)
          /\ UNCHANGED <<rec, control, me, ret>>
       \/ /\ Revocable(mine[t]) = {} /\ mine[t].cf # NoToken
          /\ Goto(t, "rv_cf", mine[t])
          /\ UNCHANGED <<rec, hub, me, ret>>
       \/ /\ Revocable(mine[t]) = {} /\ mine[t].cf = NoToken
          /\ CompleteRevocation(t)
          /\ UNCHANGED hub
    /\ UNCHANGED <<account, cf, seen, crashes, asked>>

\* remove treats a missing token as removed.
RevokeCloudflare(t, told) ==
    /\ pc[t] = "rv_cf"
    /\ cf' = {x \in cf : x.id # mine[t].cf}
    /\ \/ told /\ CompleteRevocation(t)
       \/ ~told /\ Leave(t, OnError(t)) /\ UNCHANGED rec
    /\ UNCHANGED <<account, hub, seen, crashes, asked>>

\* The caller deletes the former owner's record and starts a new one for the
\* identity it looked up when it began.
RevokeDelete(t) ==
    /\ pc[t] = "rv_delete"
    /\ rec' = NoRecord
    /\ Goto(t, IF ret[t] = "issue" THEN "i_fresh" ELSE "h_decide",
            FreshRecord(me[t]))
    /\ UNCHANGED <<account, hub, cf, me, ret, seen, crashes, asked>>

-----------------------------------------------------------------------------
(***************************************************************************)
(* IssueApiCredentialsUseCase.execute                                      *)
(***************************************************************************)

IssueStart(t, r) ==
    /\ rec' = r
    /\ \/ /\ r.enabled /\ r.state # "revoking_cloudflare" /\ ~Available(r)
          /\ Goto(t, "i_request", r)
          /\ UNCHANGED <<me, ret>>
       \/ /\ ~r.enabled \/ r.state = "revoking_cloudflare" \/ Available(r)
          /\ Leave(t, "idle")

IssueEnter(t) ==
    /\ Enter(t, "i_wait")
    /\ \/ /\ account = NoAccount
          /\ Leave(t, "idle")
          /\ UNCHANGED <<rec, asked>>
       \/ /\ account # NoAccount /\ rec # NoRecord /\ ~Mine(rec)
          /\ BeginRevocation(t, rec, "issue")
          /\ me' = [me EXCEPT ![t] = account]
       \/ /\ Mine(rec)
          /\ IssueStart(t, rec)
          /\ UNCHANGED asked
       \/ /\ account # NoAccount /\ rec = NoRecord
          /\ IssueStart(t, FreshRecord(account))
          /\ UNCHANGED asked
    /\ UNCHANGED <<account, hub, cf, seen, crashes>>

IssueFresh(t) ==
    /\ pc[t] = "i_fresh"
    /\ IssueStart(t, mine[t])
    /\ UNCHANGED <<account, hub, cf, seen, crashes, asked>>

\* Mutant: an interrupted rotation is not resumed.
M_NoRotation(r) == "i_done"

AfterCreate(r) == IF r.state = "rotating_cloudflare" THEN "i_rotate" ELSE "i_done"

IssueRequest(t) ==
    /\ pc[t] = "i_request"
    /\ LET r == [mine[t] EXCEPT !.requested = TRUE,
                  !.state = IF @ = "unissued" THEN "issuing" ELSE @] IN
       /\ rec' = r
       /\ Goto(t, IF r.cf = NoToken THEN "i_create" ELSE AfterCreate(r), r)
    /\ asked' = IF job[t] = "issue" THEN "yes" ELSE asked
    /\ UNCHANGED <<account, hub, cf, me, ret, seen, crashes>>

\* CloudflareAccessClient.issue: a token of that name is given a new secret,
\* or there is none and one is created; two are an error.
IssueCreate(t, told) ==
    /\ pc[t] = "i_create"
    /\ LET name == mine[t].owner
           named == {x \in cf : x.name = name} IN
       /\ Cardinality(named) <= 1
       /\ \E i \in IF named = {} THEN NewCfIds ELSE {x.id : x \in named} :
          /\ cf' = (cf \ named) \cup {[id |-> i, name |-> name, told |-> told]}
          /\ LET r == [mine[t] EXCEPT !.cf = i] IN
             Answer(t, told, AfterCreate(r), r)
    /\ UNCHANGED <<account, hub, seen, crashes, asked>>

\* CloudflareAccessClient.rotate of the recorded token.
RotateToken(t, told) ==
    \E x \in cf : /\ x.id = mine[t].cf
                  /\ cf' = (cf \ {x}) \cup {[x EXCEPT !.told = told]}

IssueRotate(t, told) ==
    /\ pc[t] = "i_rotate"
    /\ RotateToken(t, told)
    /\ Answer(t, told, "i_done", [mine[t] EXCEPT !.state = "issuing"])
    /\ UNCHANGED <<account, hub, seen, crashes, asked>>

\* complete_issuance judges the record as it is stored.
IssueDone(t) ==
    /\ pc[t] = "i_done"
    /\ IF rec.enabled /\ rec.state \notin {"revoking", "disabled"}
       THEN rec' = [mine[t] EXCEPT !.state = "ready"]
       ELSE UNCHANGED rec
    /\ Leave(t, "idle")
    /\ UNCHANGED <<account, hub, cf, seen, crashes, asked>>

-----------------------------------------------------------------------------
(***************************************************************************)
(* IssueApiCredentialsUseCase.revoke_service and RotateApiCredentials.     *)
(***************************************************************************)

\* The token's fields are dropped and the owner's wish with them.
ServiceRevoked(r) ==
    [r EXCEPT !.cf = NoToken, !.state = "unissued",
              !.requested = FALSE]

ServiceEnter(t) ==
    /\ Enter(t, "u_wait")
    /\ \/ /\ Mine(rec) /\ rec.enabled
          /\ LET r == [rec EXCEPT !.state = "revoking_cloudflare"] IN
             /\ rec' = r
             /\ Goto(t, IF r.cf = NoToken THEN "u_done" ELSE "u_remove", r)
          /\ asked' = Withdrawn
          /\ UNCHANGED <<me, ret>>
       \/ /\ ~(Mine(rec) /\ rec.enabled)
          /\ Leave(t, "idle")
          /\ UNCHANGED <<rec, asked>>
    /\ UNCHANGED <<account, hub, cf, seen, crashes>>

ServiceRemove(t, told) ==
    /\ pc[t] = "u_remove"
    /\ cf' = {x \in cf : x.id # mine[t].cf}
    /\ rec' = IF told THEN ServiceRevoked(mine[t]) ELSE rec
    /\ Leave(t, "idle")
    /\ UNCHANGED <<account, hub, seen, crashes, asked>>

ServiceDone(t) ==
    /\ pc[t] = "u_done"
    /\ rec' = ServiceRevoked(mine[t])
    /\ Leave(t, "idle")
    /\ UNCHANGED <<account, hub, cf, seen, crashes, asked>>

\* begin_rotation requires a ready record, and its state is saved before the
\* old secret stops working.
RotateEnter(t) ==
    /\ Enter(t, "r_wait")
    /\ \/ /\ Mine(rec) /\ Available(rec)
          /\ LET r == [rec EXCEPT !.state = "rotating_cloudflare"] IN
             /\ rec' = r
             /\ Goto(t, "r_rotate", r)
          /\ UNCHANGED <<me, ret>>
       \/ /\ ~(Mine(rec) /\ Available(rec))
          /\ Leave(t, "idle")
          /\ UNCHANGED rec
    /\ UNCHANGED <<account, hub, cf, seen, crashes, asked>>

Rotate(t, told) ==
    /\ pc[t] = "r_rotate"
    /\ RotateToken(t, told)
    /\ rec' = IF told THEN [mine[t] EXCEPT !.state = "ready"] ELSE rec
    /\ Leave(t, "idle")
    /\ UNCHANGED <<account, hub, seen, crashes, asked>>

-----------------------------------------------------------------------------
(***************************************************************************)
(* ManageHubCredentialsUseCase.  It awaits nothing but the lock and the    *)
(* revocation of a former owner, so its steps are the commits between      *)
(* which the portal can be restarted.                                      *)
(***************************************************************************)

HubAction(t) ==
    CASE job[t] = "hub_rotate" -> "rotate"
      [] job[t] = "hub_revoke" -> "revoke"
      [] OTHER -> "ensure"

\* Mutant: "ensure" issues a token whatever the owner revoked.
M_Issuing(t, r) == HubAction(t)

\* "ensure" finishes a revocation that was interrupted.
Action(t, r) ==
    IF HubAction(t) = "ensure" /\ r.hub = "revoked" THEN "revoke" ELSE HubAction(t)

\* Mutant: an interrupted rotation is left to the owner.
M_IssuesOnly(t, r) ==
    CASE job[t] = "sync" /\ r.state = "issuing" -> "i_wait"
      [] job[t] = "sync" /\ r.state = "revoking_cloudflare" -> "u_wait"
      [] OTHER -> "idle"

\* The synchronisation looks at the record it gets back and resumes what was
\* left unfinished at Cloudflare.
AfterHub(t, r) ==
    CASE job[t] = "sync" /\ r.state \in {"issuing", "rotating_cloudflare"} -> "i_wait"
      [] job[t] = "sync" /\ r.state = "revoking_cloudflare" -> "u_wait"
      [] OTHER -> "idle"

\* An automatic issue that an older release left waiting is no wish of the owner.
Inherited(r) == r.state = "issuing" /\ r.cf = NoToken /\ ~r.requested

HubEnter(t) ==
    /\ Enter(t, "h_wait")
    /\ \/ /\ account = NoAccount
          /\ Leave(t, "idle")
          /\ UNCHANGED <<rec, asked>>
       \/ /\ account # NoAccount /\ rec # NoRecord /\ ~Mine(rec)
          /\ BeginRevocation(t, rec, "hub")
          /\ me' = [me EXCEPT ![t] = account]
       \/ /\ Mine(rec) /\ Inherited(rec)
          /\ rec' = [rec EXCEPT !.state = "unissued"]
          /\ Goto(t, "h_decide", [rec EXCEPT !.state = "unissued"])
          /\ UNCHANGED <<me, ret, asked>>
       \/ /\ Mine(rec) /\ ~Inherited(rec)
          /\ Goto(t, "h_decide", rec)
          /\ UNCHANGED <<rec, me, ret, asked>>
       \/ /\ account # NoAccount /\ rec = NoRecord
          /\ Goto(t, "h_decide", FreshRecord(account))
          /\ UNCHANGED <<rec, me, ret, asked>>
    /\ UNCHANGED <<account, hub, cf, seen, crashes>>

\* "ensure" has nothing to do: a valid token and no revocation pending, or a
\* revocation by the owner that is complete.
Settled(r) ==
    \/ r.hub = "ready" /\ Valid(r) /\ r.pending = {}
    \/ r.hub = "revoked" /\ r.hubTok = NoToken /\ r.pending = {}

Rotating(r) == r.hub = "rotating" \/ r.state = "rotating_jupyterhub"

HubDecide(t) ==
    /\ pc[t] = "h_decide"
    /\ LET r == mine[t]
           action == Action(t, r)
           revoked == [r EXCEPT !.hub = "revoked"]
           rotating == [r EXCEPT !.hub = "rotating", !.pending = {r.hubTok}] IN
       \/ /\ ~r.enabled \/ (HubAction(t) = "ensure" /\ Settled(r))
          /\ Leave(t, AfterHub(t, r))
          /\ UNCHANGED rec
       \/ /\ r.enabled /\ ~(HubAction(t) = "ensure" /\ Settled(r))
          /\ \/ /\ action = "revoke"
                /\ rec' = revoked
                /\ Goto(t, "h_revoke", revoked)
             \/ /\ action = "rotate" /\ ~Rotating(r)
                /\ rec' = rotating
                /\ Goto(t, "h_issue", rotating)
             \/ /\ action = "ensure" \/ (action = "rotate" /\ Rotating(r))
                /\ Goto(t, "h_issue", r)
                /\ UNCHANGED rec
          /\ UNCHANGED <<me, ret>>
    /\ UNCHANGED <<account, hub, cf, seen, crashes, asked>>

HubRevoke(t) ==
    /\ pc[t] = "h_revoke"
    /\ \/ /\ DeleteHubToken(hub, mine[t].hubTok)
          /\ UNCHANGED <<rec, control, me, ret>>
       \/ /\ hub = {}
          /\ rec' = [mine[t] EXCEPT !.hubTok = NoToken, !.pending = {}]
          /\ Leave(t, AfterHub(t, mine[t]))
          /\ UNCHANGED hub
    /\ UNCHANGED <<account, cf, seen, crashes, asked>>

\* Mutant: a token is taken to exist once it was recorded.
M_Recordless(r) == r.hubTok = NoToken

\* A new token is needed when the recorded one is gone or is to be revoked;
\* tokens of lost attempts are removed first.
NeedsToken(r) == ~Valid(r) \/ r.hubTok \in r.pending

\* Mutant: tokens of lost attempts stay.
M_NoOrphans(r) == {}

Orphans(r) == hub \ {r.hubTok}

HubIssue(t) ==
    /\ pc[t] = "h_issue"
    /\ LET r == mine[t]
           orphans == Orphans(r) IN
       \/ /\ ~NeedsToken(r)
          /\ Goto(t, "h_drop", r)
          /\ UNCHANGED hub
       \/ /\ NeedsToken(r)
          /\ DeleteHubToken(orphans, r.hubTok)
          /\ UNCHANGED control
       \/ /\ NeedsToken(r) /\ orphans = {}
          /\ \E i \in NewHubIds :
                /\ hub' = hub \cup {i}
                /\ Goto(t, "h_store", [r EXCEPT !.hubTok = i])
    /\ UNCHANGED <<account, rec, cf, me, ret, seen, crashes, asked>>

HubStore(t) ==
    /\ pc[t] = "h_store"
    /\ rec' = mine[t]
    /\ Goto(t, "h_drop", mine[t])
    /\ UNCHANGED <<account, hub, cf, me, ret, seen, crashes, asked>>

Superseded(r) == hub \cap r.pending

HubDrop(t) ==
    /\ pc[t] = "h_drop"
    /\ LET r == mine[t]
           done == [r EXCEPT !.hub = "ready", !.pending = {},
                    !.state = IF @ # "rotating_jupyterhub" THEN @
                              ELSE IF r.cf = NoToken THEN "unissued" ELSE "ready"] IN
       \/ /\ DeleteHubToken(Superseded(r), r.hubTok)
          /\ UNCHANGED <<rec, control, me, ret>>
       \/ /\ Superseded(r) = {}
          /\ rec' = done
          /\ Leave(t, AfterHub(t, done))
          /\ UNCHANGED hub
    /\ UNCHANGED <<account, cf, seen, crashes, asked>>

-----------------------------------------------------------------------------
(***************************************************************************)
(* EnableApiCredentials, DisableUserApis, DeleteAccount.                   *)
(***************************************************************************)

\* The fresh record is saved and the lock given up before the Hub token is
\* prepared by the Hub use case.
EnableEnter(t) ==
    /\ Enter(t, "e_wait")
    /\ \/ /\ account # NoAccount
          /\ rec # NoRecord => rec.state = "disabled"
          /\ rec' = FreshRecord(account)
          /\ Leave(t, "h_wait")
       \/ /\ account = NoAccount \/ (rec # NoRecord /\ rec.state # "disabled")
          /\ Leave(t, "idle")
          /\ UNCHANGED rec
    /\ UNCHANGED <<account, hub, cf, seen, crashes, asked>>

\* A user without a record is given one, so that the denial is remembered.
DisableEnter(t) ==
    /\ Enter(t, "d_wait")
    /\ \/ /\ rec = NoRecord /\ account = NoAccount
          /\ Leave(t, OnError(t))
          /\ UNCHANGED <<rec, asked>>
       \/ /\ rec # NoRecord \/ account # NoAccount
          /\ LET r == IF rec = NoRecord THEN FreshRecord(account) ELSE rec IN
             /\ rec' = Denied(r)
             /\ Goto(t, "d_hub", Denied(r))
          /\ asked' = Withdrawn
          /\ UNCHANGED <<me, ret>>
    /\ UNCHANGED <<account, hub, cf, seen, crashes>>

DisableHub(t) ==
    /\ pc[t] = "d_hub"
    /\ hub' = hub \ {mine[t].hubTok}
    /\ Leave(t, "d_unpublish")
    /\ UNCHANGED <<account, rec, cf, seen, crashes, asked>>

\* unpublish_all, outside the credential lock.  The revocation follows whether
\* or not it succeeds; its exception is raised again afterwards.
Unpublish(t, ok) ==
    /\ pc[t] = "d_unpublish"
    /\ ret' = [ret EXCEPT ![t] = IF ok THEN "revoke" ELSE "reraise"]
    /\ Advance(t, "rv_wait")
    /\ UNCHANGED <<account, rec, hub, cf, seen, crashes, asked>>

\* userdel, in a worker thread, once the API is disabled.
DeleteLinuxUser(t) ==
    /\ pc[t] = "userdel"
    /\ account # NoAccount
    /\ account' = NoAccount
    /\ pc' = [pc EXCEPT ![t] = "forget"]
    /\ UNCHANGED <<rec, hub, cf, lock, running, job, mine, me, ret, seen, crashes, asked>>

\* The request ends early when the SSH access cannot be cleaned up or userdel
\* fails; it goes on when the thread has deleted the account.
DeleteResumes(t) ==
    /\ \/ pc[t] = "userdel" /\ Advance(t, "idle")
       \/ pc[t] = "forget" /\ Advance(t, "p_wait")
    /\ UNCHANGED <<account, rec, hub, cf, ret, seen, crashes, asked>>

\* DeleteUserApiRecords: only a completely revoked record is forgotten, and
\* only after the user's publications, if any, are gone from Cloudflare.
DeleteEnter(t) ==
    /\ Enter(t, "p_wait")
    /\ IF rec # NoRecord /\ rec.state # "disabled"
       THEN Leave(t, "idle")
       ELSE Goto(t, "p_remote", rec) /\ UNCHANGED <<me, ret>>
    /\ UNCHANGED <<account, rec, hub, cf, seen, crashes, asked>>

DeleteRecords(t) ==
    /\ pc[t] = "p_remote"
    /\ rec' = NoRecord
    /\ Leave(t, "idle")
    /\ UNCHANGED <<account, hub, cf, seen, crashes, asked>>

-----------------------------------------------------------------------------
(***************************************************************************)
(* SynchronizeUserApis, for this name.                                     *)
(***************************************************************************)

\* The list of accounts is read in a worker thread and looked at later.
SyncSnapshot ==
    /\ pc[Sync] = "idle"
    /\ seen' = (account # NoAccount)
    /\ Outward(Sync, "sync", "s_sweep", lock)
    /\ UNCHANGED <<account, rec, hub, cf, mine, me, ret, crashes, asked>>

\* Mutant: revocations under way are left to the administrator.
M_DeletedOnly == rec # NoRecord /\ ~seen

ToSweep == rec # NoRecord /\ (~seen \/ rec.state = "revoking")

\* First loop: deleted accounts and revocations under way.
SyncSweep ==
    /\ pc[Sync] = "s_sweep"
    /\ Advance(Sync, IF ToSweep THEN "d_wait" ELSE "s_rows")
    /\ UNCHANGED <<account, rec, hub, cf, ret, seen, crashes, asked>>

\* Second loop: every account of the list.
SyncRow ==
    /\ pc[Sync] = "s_rows"
    /\ Advance(Sync, IF seen THEN "h_wait" ELSE "idle")
    /\ UNCHANGED <<account, rec, hub, cf, ret, seen, crashes, asked>>

-----------------------------------------------------------------------------
(***************************************************************************)
(* What happens around the portal.                                         *)
(***************************************************************************)

\* The Linux account is removed without the portal.
AccountRemoved ==
    /\ account # NoAccount
    /\ account' = NoAccount
    /\ UNCHANGED <<rec, hub, cf, control, me, ret, seen, crashes, asked>>

\* The name is given to an account, of the same Hub user or of a new one,
\* whose predecessor took its tokens along.
AccountCreated(o) ==
    /\ account = NoAccount
    /\ account' = o
    /\ hub' = hub \/ (running = {} /\ hub' = {})
    /\ UNCHANGED <<rec, cf, control, me, ret, seen, crashes, asked>>

\* The owner deletes a token on JupyterHub's own token page, which the same
\* event loop serves.
HubTokenDeleted ==
    /\ running = {}
    /\ \E i \in hub : hub' = hub \ {i}
    /\ UNCHANGED <<account, rec, cf, control, me, ret, seen, crashes, asked>>

\* The portal restarts: coroutines and locks are gone, stores stay.
Crash ==
    /\ crashes < MaxCrashes
    /\ crashes' = crashes + 1
    /\ lock' = <<>>
    /\ running' = {}
    /\ job' = [t \in Proc |-> "none"]
    /\ pc' = [t \in Proc |-> "idle"]
    /\ mine' = [t \in Proc |-> NoRecord]
    /\ me' = [t \in Proc |-> NoAccount]
    /\ ret' = [t \in Proc |-> "none"]
    /\ UNCHANGED <<account, rec, hub, cf, seen, asked>>

-----------------------------------------------------------------------------
(***************************************************************************)
(* Initial states: a new installation, or a store left by an older release *)
(* that issued both tokens without being asked and kept one state for both.*)
(***************************************************************************)

InitProcesses ==
    /\ lock = <<>>
    /\ running = {}
    /\ job = [t \in Proc |-> "none"]
    /\ pc = [t \in Proc |-> "idle"]
    /\ mine = [t \in Proc |-> NoRecord]
    /\ me = [t \in Proc |-> NoAccount]
    /\ ret = [t \in Proc |-> "none"]
    /\ seen = FALSE
    /\ crashes = 0

InitNew == /\ rec = NoRecord
           /\ hub = {}
           /\ cf = {}
           /\ asked = "no"

InitInherited == /\ rec = [FreshRecord(account) EXCEPT !.state = "issuing"]
                 /\ hub = {}
                 /\ cf = {}
                 /\ asked = "no"

\* A Hub token rotation was interrupted, the new token saved or not.
InitRotating ==
    \E old \in OneOf(HubId), i \in OneOf(CfId) :
    \E new \in {old} \cup OneOf(HubId \ {old}) :
        /\ rec = [FreshRecord(account) EXCEPT
                     !.state = "rotating_jupyterhub", !.cf = i,
                     !.hubTok = new, !.pending = {old}]
        /\ hub = {old, new}
        /\ cf = {[id |-> i, name |-> account, told |-> TRUE]}
        /\ asked = "yes"

Init ==
    /\ account \in Owner
    /\ InitProcesses
    /\ InitNew \/ InitInherited \/ InitRotating

Revoke(t) ==
    \/ RevokeEnter(t) \/ RevokeHub(t) \/ RevokeDelete(t)
    \/ \E told \in BOOLEAN : RevokeCloudflare(t, told)

Issue(t) ==
    \/ IssueEnter(t) \/ IssueFresh(t) \/ IssueRequest(t) \/ IssueDone(t)
    \/ \E told \in BOOLEAN : IssueCreate(t, told) \/ IssueRotate(t, told)

Service(t) ==
    \/ ServiceEnter(t) \/ ServiceDone(t) \/ RotateEnter(t)
    \/ \E told \in BOOLEAN : ServiceRemove(t, told) \/ Rotate(t, told)

Hub(t) ==
    \/ HubEnter(t) \/ HubDecide(t) \/ HubRevoke(t)
    \/ HubIssue(t) \/ HubStore(t) \/ HubDrop(t)

Admin(t) ==
    \/ EnableEnter(t) \/ DisableEnter(t) \/ DisableHub(t)
    \/ DeleteResumes(t) \/ DeleteEnter(t) \/ DeleteRecords(t)
    \/ \E ok \in BOOLEAN : Unpublish(t, ok)

Coroutine(t) ==
    /\ Turn(t)
    /\ \/ Revoke(t) \/ Issue(t) \/ Service(t) \/ Hub(t) \/ Admin(t)
       \/ CloudflareFails(t)

Synchronise ==
    /\ Turn(Sync)
    /\ SyncSnapshot \/ SyncSweep \/ SyncRow

Handle(t) ==
    /\ Turn(t)
    /\ \E j \in Job : Submit(t, j)

Surroundings ==
    \/ AccountRemoved
    \/ \E o \in Owner : AccountCreated(o)
    \/ HubTokenDeleted

Next ==
    \/ \E t \in Request : Handle(t)
    \/ \E t \in Proc : Coroutine(t) \/ DeleteLinuxUser(t)
    \/ Synchronise
    \/ Surroundings
    \/ Crash

Spec == Init /\ [][Next]_vars

\* A call of the synchronisation to Cloudflare succeeds and is answered.
CloudflareAnswers ==
    /\ Turn(Sync)
    /\ \/ RevokeCloudflare(Sync, TRUE) \/ ServiceRemove(Sync, TRUE)
       \/ IssueCreate(Sync, TRUE) \/ IssueRotate(Sync, TRUE)

\* The event loop calls back everything that is ready, the timer of the
\* synchronisation included; every await ends, by its timeout at the latest;
\* and a call that is repeated for ever succeeds at some time.
Fairness ==
    /\ \A t \in Proc : SF_vars(Coroutine(t))
    /\ SF_vars(Synchronise)
    /\ SF_vars(CloudflareAnswers)

FairSpec == Spec /\ Fairness

-----------------------------------------------------------------------------
(***************************************************************************)
(* Safety.                                                                 *)
(***************************************************************************)

\* A record that says "ready" names a Service Token that exists, under the
\* owner's name, with the secret the portal holds: no lost answer, restart or
\* interrupted rotation leaves a ready record whose secret Cloudflare refuses.
ReadyIsUsable ==
    rec # NoRecord /\ rec.state = "ready" =>
        \E x \in cf : x.id = rec.cf /\ x.name = rec.owner /\ x.told

\* A Service Token whose secret ever reached the portal is on record, so a
\* later revocation finds it; in particular none outlives its record.
TokensOnRecord ==
    \A x \in cf : x.told => rec # NoRecord /\ rec.cf = x.id /\ rec.owner = x.name

\* The final state of a revocation means what it says at both services: the
\* Hub has no token left, and Cloudflare none with a secret known to anybody.
DisabledIsRevoked ==
    rec # NoRecord /\ rec.state = "disabled" =>
        hub = {} /\ \A x \in cf : ~x.told

\* A Hub token that the synchronisation takes for good, and so never looks
\* into again, is the only one: no lost issue or half-done reissue leaves a
\* second token behind it.
SettledIsSole ==
    rec # NoRecord /\ rec.hub = "ready" /\ Settled(rec) => hub = {rec.hubTok}

\* A denial ends by the administrator's Enable, by the deletion of the user's
\* records, or because the name has a new owner; no issue, rotation or
\* synchronisation that was under way brings the access back.
DenialStands ==
    [][rec # NoRecord /\ ~rec.enabled /\ (rec' # NoRecord => rec'.enabled) =>
         \E t \in Proc : \/ Enter(t, "e_wait") /\ job[t] = "enable"
                         \/ pc[t] = "p_remote" /\ job[t] = "delete"
                         \/ pc[t] = "rv_delete" /\ me[t] # rec.owner]_vars

\* The IDs of Service Tokens that come into being.
Created == ~({x.id : x \in cf'} \subseteq {x.id : x \in cf})

\* What the owner has revoked comes back only at the owner's wish.  No Hub token
\* is issued while the stored record is denied; while it says that the owner
\* revoked the token, nothing but the owner's own reissue issues one or takes
\* that mark away, and "ensure" never does.  A Service Token comes into being
\* only because its owner asked for one and has neither revoked it nor been
\* denied since, but for a synchronisation already queued to carry it out.
RevocationStands ==
    [][LET issued == ~(hub' \subseteq hub)
           unmarked == rec' # NoRecord /\ rec'.enabled /\ rec'.hub # "revoked" IN
       /\ rec # NoRecord =>
             /\ issued => rec.enabled
             /\ rec.enabled /\ rec.hub = "revoked" /\ (issued \/ unmarked) =>
                   \E t \in Proc : pc[t] \in Holding /\ job[t] = "hub_rotate"
       /\ Created => asked # "no"]_vars

-----------------------------------------------------------------------------
(***************************************************************************)
(* Liveness, under FairSpec.                                               *)
(***************************************************************************)

\* A revocation that was begun is completed, whoever began it and whatever
\* failed on the way, because every synchronisation takes it up again.
RevocationCompletes ==
    (rec # NoRecord /\ rec.state = "revoking")
        ~> (rec # NoRecord => rec.state # "revoking")

AccountSettles == <>[][UNCHANGED account]_account

Unfinished ==
    /\ rec # NoRecord
    /\ rec.state \in {"issuing", "rotating_cloudflare", "revoking_cloudflare"}

\* What a user began with the Service Token and an error left unfinished comes
\* to an end without the user, provided the name does not change hands for ever.
ServiceCompletes == AccountSettles => (Unfinished ~> ~Unfinished)

\* Every enabled user gets a Hub token, or keeps it revoked, in a state that the
\* synchronisation has nothing to add to.
HubSettles ==
    AccountSettles => ((Mine(rec) /\ rec.enabled)
                          ~> (Mine(rec) /\ rec.enabled => Settled(rec)))

-----------------------------------------------------------------------------
(***************************************************************************)
(* What the sources say of the program and the program does not keep.      *)
(***************************************************************************)

\* "The owner's revocation of one token changes no other and is not undone by
\* the periodic synchronisation": it is, by one that had looked before.
ServiceNotRevived == [][Created => asked = "yes"]_vars
=============================================================================
