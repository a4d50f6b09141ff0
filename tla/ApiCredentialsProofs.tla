------------------------ MODULE ApiCredentialsProofs ------------------------
(***************************************************************************)
(* Proofs about ApiCredentials, for any number of coroutines, identities,  *)
(* tokens and restarts.                                                    *)
(*                                                                         *)
(* The argument is the credential lock.  A coroutine between two commits   *)
(* is at the head of the lock's queue, so there is at most one, and nobody *)
(* else writes the record meanwhile; its local copy therefore agrees with  *)
(* the stored record on who the owner is and whether the access is denied, *)
(* and writing the copy back cannot undo a denial.                         *)
(***************************************************************************)
EXTENDS ApiCredentials, TLAPS

Inside(t) == lock # <<>> /\ Head(lock) = t

StoresOK ==
    /\ account \in Owner \cup {NoAccount}
    /\ rec \in Record \cup {NoRecord}
    /\ hub \subseteq HubId
    /\ cf \subseteq CfToken
    /\ seen \in BOOLEAN
    /\ crashes \in 0 .. MaxCrashes
    /\ asked \in {"no", "yes", "overtaken"}

ControlOK ==
    /\ lock \in Seq(Proc)
    /\ running \in SUBSET Proc
    /\ job \in [Proc -> Job \cup {"sync", "none"}]
    /\ pc \in [Proc -> Waiting \cup Holding \cup Outside]
    /\ mine \in [Proc -> Record \cup {NoRecord}]
    /\ me \in [Proc -> Owner \cup {NoAccount}]
    /\ ret \in [Proc -> {"none", "issue", "hub", "revoke", "reraise"}]

\* The local copy m and the stored record r tell the same about the denial.
Agree(m, r) == m \in Record /\ m.owner = r.owner /\ m.enabled = r.enabled

\* The steps of a revocation, and those who ask for one on behalf of a new owner.
Revoking == {"rv_hub", "rv_cf", "rv_delete"}
Heirs == {"issue", "hub"}

LocalOK(t) ==
    /\ pc[t] \in Holding => Inside(t)
    /\ pc[t] \in Holding \ {"p_remote"} => mine[t] \in Record
    /\ pc[t] \in Holding /\ rec # NoRecord => Agree(mine[t], rec)
    /\ pc[t] = "e_wait" => job[t] = "enable"
    /\ pc[t] \in {"userdel", "forget", "p_wait", "p_remote"} => job[t] = "delete"
    /\ pc[t] = "rv_wait" => ret[t] \notin Heirs
    /\ pc[t] = "rv_delete" => ret[t] \in Heirs
    /\ pc[t] \in Revoking /\ ret[t] \in Heirs =>
           me[t] \in Owner /\ me[t] # mine[t].owner

Inv == StoresOK /\ ControlOK /\ \A t \in Proc : LocalOK(t)

\* The types, one half for the stores and one for the coroutines.
LEMMA TypeSplit == TypeOK <=> StoresOK /\ ControlOK
  BY DEF TypeOK, StoresOK, ControlOK

\* The places of the coroutines do not overlap.
LEMMA PlacesDisjoint ==
    /\ Waiting \cap Holding = {}
    /\ Outside \cap Holding = {}
    /\ Waiting \cap Outside = {}
  BY DEF Waiting, Holding, Outside

\* Whoever is inside the lock is alone there.
LEMMA Alone ==
  ASSUME Inv, NEW t \in Proc, Inside(t)
  PROVE  \A u \in Proc \ {t} : pc[u] \notin Holding
  BY DEF Inv, LocalOK, Inside

-----------------------------------------------------------------------------
(***************************************************************************)
(* What the steps of a coroutine do to the control state.                  *)
(***************************************************************************)

\* Going on inside the lock keeps the control state in order, if the new local
\* record and the new stored one agree.
LEMMA GotoOK ==
  ASSUME Inv, NEW t \in Proc, Inside(t),
         NEW p \in Holding, NEW m \in Record \cup {NoRecord}, Goto(t, p, m),
         NEW i \in Owner \cup {NoAccount}, me' = [me EXCEPT ![t] = i],
         NEW w \in {"none", "issue", "hub", "revoke", "reraise"},
         ret' = [ret EXCEPT ![t] = w],
         p # "p_remote" => m \in Record,
         rec' # NoRecord => Agree(m, rec'),
         p = "p_remote" => job[t] = "delete",
         p = "rv_delete" => w \in Heirs,
         p \in Revoking /\ w \in Heirs => i \in Owner /\ i # m.owner
  PROVE  ControlOK' /\ \A u \in Proc : LocalOK(u)'
  <1>1. ControlOK'
    BY DEF Inv, ControlOK, Goto
  <1>2. ASSUME NEW u \in Proc PROVE LocalOK(u)'
    <2>1. CASE u = t
      BY <2>1, PlacesDisjoint DEF Inv, ControlOK, LocalOK, Goto, Inside, Waiting, Outside, Holding, Revoking
    <2>2. CASE u # t
      <3>1. pc'[u] = pc[u] /\ job'[u] = job[u] /\ ret'[u] = ret[u]
        BY <2>2 DEF Inv, ControlOK, Goto
      <3>2. pc[u] \notin Holding
        BY <2>2, Alone
      <3> QED
        BY <3>1, <3>2 DEF Inv, LocalOK, Holding, Revoking
    <2> QED
      BY <2>1, <2>2
  <1> QED
    BY <1>1, <1>2

\* Going on inside the lock without a word to the caller keeps it in order.
LEMMA GotoSame ==
  ASSUME Inv, NEW t \in Proc, Inside(t),
         NEW p \in Holding \ {"rv_delete"}, NEW m \in Record,
         Goto(t, p, m), UNCHANGED <<me, ret>>,
         rec' # NoRecord => Agree(m, rec'),
         p = "p_remote" => job[t] = "delete",
         p \in Revoking /\ ret[t] \in Heirs => me[t] \in Owner /\ me[t] # m.owner
  PROVE  ControlOK' /\ \A u \in Proc : LocalOK(u)'
  <1>1. me' = [me EXCEPT ![t] = me[t]] /\ ret' = [ret EXCEPT ![t] = ret[t]]
    BY DEF Inv, ControlOK
  <1>2. me[t] \in Owner \cup {NoAccount}
        /\ ret[t] \in {"none", "issue", "hub", "revoke", "reraise"}
    BY DEF Inv, ControlOK
  <1> QED
    BY <1>1, <1>2, GotoOK

\* Leaving the lock keeps it in order.
LEMMA LeaveOK ==
  ASSUME Inv, NEW t \in Proc, Inside(t),
         NEW p \in (Waiting \cup Outside) \ {"e_wait", "rv_wait"}, Leave(t, p),
         p \in {"userdel", "forget", "p_wait"} => job[t] = "delete"
  PROVE  ControlOK' /\ \A u \in Proc : LocalOK(u)'
  <1>1. ControlOK'
    <2>1. lock' \in Seq(Proc)
      BY DEF Inv, ControlOK, Leave, Outward, Inside
    <2>2. running' \in SUBSET Proc
      BY DEF Leave, Outward
    <2>3. job' \in [Proc -> Job \cup {"sync", "none"}]
      BY DEF Inv, ControlOK, Leave, Outward
    <2> QED
      BY <2>1, <2>2, <2>3 DEF Inv, ControlOK, Leave, Outward
  <1>2. ASSUME NEW u \in Proc PROVE LocalOK(u)'
    <2>1. pc'[u] \notin Holding
      BY Alone, PlacesDisjoint DEF Inv, ControlOK, Leave, Outward
    <2>2. CASE u = t
      <3>1. pc'[u] = p /\ (p # "idle" => job'[u] = job[u])
        BY <2>2 DEF Inv, ControlOK, Leave, Outward
      <3> QED
        BY <3>1, <2>1, <2>2 DEF LocalOK, Holding, Revoking, Waiting, Outside
    <2>3. CASE u # t
      <3>1. pc'[u] = pc[u] /\ job'[u] = job[u] /\ ret'[u] = ret[u]
        BY <2>3 DEF Inv, ControlOK, Leave, Outward
      <3> QED
        BY <2>1, <3>1 DEF Inv, LocalOK, Holding, Revoking
    <2> QED
      BY <2>2, <2>3
  <1> QED
    BY <1>1, <1>2

\* So does a step outside the lock, which leaves the record alone.
LEMMA OutwardOK ==
  ASSUME Inv, NEW t \in Proc, pc[t] \notin Holding,
         NEW j \in Job \cup {"sync", "none"}, NEW p \in Waiting \cup Outside,
         Outward(t, j, p, lock), UNCHANGED <<rec, mine, me>>,
         NEW w \in {"none", "issue", "hub", "revoke", "reraise"},
         ret' = [ret EXCEPT ![t] = w],
         p = "e_wait" => j = "enable",
         p \in {"userdel", "forget", "p_wait"} => j = "delete",
         p = "rv_wait" => w \notin Heirs
  PROVE  ControlOK' /\ \A u \in Proc : LocalOK(u)'
  <1>1. ControlOK'
    BY DEF Inv, ControlOK, Outward
  <1>2. ASSUME NEW u \in Proc PROVE LocalOK(u)'
    <2>1. CASE u = t
      <3>1. pc'[u] = p /\ (p # "idle" => job'[u] = j) /\ ret'[u] = w
        BY <2>1 DEF Inv, ControlOK, Outward
      <3>2. p \notin Holding
        BY PlacesDisjoint
      <3> QED
        BY <2>1, <3>1, <3>2 DEF LocalOK, Holding, Revoking
    <2>2. CASE u # t
      <3>1. pc'[u] = pc[u] /\ job'[u] = job[u] /\ ret'[u] = ret[u]
        BY <2>2 DEF Inv, ControlOK, Outward
      <3>2. lock # <<>> => lock' # <<>> /\ Head(lock') = Head(lock)
        BY DEF Inv, ControlOK, Outward
      <3> QED
        BY <3>1, <3>2 DEF Inv, LocalOK, Inside
    <2> QED
      BY <2>1, <2>2
  <1> QED
    BY <1>1, <1>2

\* A step of the surroundings leaves it as it is.
LEMMA StayOK ==
  ASSUME Inv, UNCHANGED <<rec, control, me, ret>>
  PROVE  ControlOK' /\ \A u \in Proc : LocalOK(u)'
  BY DEF Inv, ControlOK, LocalOK, Inside, Agree, control

-----------------------------------------------------------------------------
(***************************************************************************)
(* Records and places.                                                     *)
(***************************************************************************)

\* What becomes of a record agrees with it, unless it is denied.
LEMMA Edits ==
  ASSUME NEW r \in Record
  PROVE  /\ Agree(r, r)
         /\ \A s \in CredentialState : Agree([r EXCEPT !.state = s], r)
         /\ \A q \in BOOLEAN : Agree([r EXCEPT !.requested = q], r)
         /\ \A c \in CfId \cup {NoToken} : Agree([r EXCEPT !.cf = c], r)
         /\ \A h \in {"none", "ready", "rotating", "revoked"} : Agree([r EXCEPT !.hub = h], r)
         /\ \A i \in HubId \cup {NoToken} : Agree([r EXCEPT !.hubTok = i], r)
         /\ \A P \in SUBSET (HubId \cup {NoToken}) : Agree([r EXCEPT !.pending = P], r)
  <1>1. Agree(r, r)
    BY DEF Agree
  <1>2. ASSUME NEW s \in CredentialState PROVE Agree([r EXCEPT !.state = s], r)
    BY DEF Agree, Record
  <1>3. ASSUME NEW q \in BOOLEAN PROVE Agree([r EXCEPT !.requested = q], r)
    BY DEF Agree, Record
  <1>4. ASSUME NEW c \in CfId \cup {NoToken} PROVE Agree([r EXCEPT !.cf = c], r)
    BY DEF Agree, Record
  <1>5. ASSUME NEW h \in {"none", "ready", "rotating", "revoked"} PROVE Agree([r EXCEPT !.hub = h], r)
    BY DEF Agree, Record
  <1>6. ASSUME NEW i \in HubId \cup {NoToken} PROVE Agree([r EXCEPT !.hubTok = i], r)
    BY DEF Agree, Record
  <1>7. ASSUME NEW P \in SUBSET (HubId \cup {NoToken}) PROVE Agree([r EXCEPT !.pending = P], r)
    BY DEF Agree, Record
  <1> QED
    BY <1>1, <1>2, <1>3, <1>4, <1>5, <1>6, <1>7

\* What is read from a record, and what its denial writes.
LEMMA Reads ==
  ASSUME NEW r \in Record
  PROVE  /\ r.state \in CredentialState /\ r.owner \in Owner /\ r.enabled \in BOOLEAN
         /\ r.hubTok \in HubId \cup {NoToken} /\ r.cf \in CfId \cup {NoToken}
         /\ r # NoRecord
         /\ Denied(r) \in Record
         /\ Denied(r).owner = r.owner
         /\ Denied(r).enabled = FALSE
         /\ Disabled(r) \in Record
         /\ Disabled(r).owner = r.owner
         /\ Disabled(r).enabled = FALSE
  <1>1. Disabled(r) \in Record /\ Disabled(r).owner = r.owner /\ Disabled(r).enabled = FALSE
    BY DEF Record, FreshRecord, Disabled, CredentialState
  <1> QED
    BY <1>1, ConstantsAssumption DEF Record, Denied, CredentialState

\* A new record, enabled or not, is a record.
LEMMA Fresh ==
  ASSUME NEW o \in Owner
  PROVE  /\ FreshRecord(o) \in Record
         /\ FreshRecord(o).owner = o
         /\ [FreshRecord(o) EXCEPT !.enabled = FALSE, !.state = "disabled"] \in Record
  BY DEF FreshRecord, Record, CredentialState

\* Where the exits of the use cases lead.
LEMMA Exits ==
  ASSUME NEW t \in Proc
  PROVE  /\ OnError(t) \in {"s_rows", "idle"}
         /\ AfterRevoke(t) \in {"s_rows", "userdel", "idle"}
         /\ AfterRevoke(t) = "userdel" => job[t] = "delete"
         /\ \A r : AfterHub(t, r) \in {"i_wait", "u_wait", "idle"}
  BY DEF OnError, AfterRevoke, AfterHub

\* Where a request queues first.
LEMMA Entrances ==
  ASSUME NEW j \in Job
  PROVE  /\ FirstStep(j) \in Waiting \ {"rv_wait", "p_wait"}
         /\ FirstStep(j) = "e_wait" => j = "enable"
  BY DEF FirstStep, Job, Waiting

\* Awaiting or not, whoever is at a place inside the lock is inside it, and
\* holds a record that agrees with the stored one.
LEMMA Holder ==
  ASSUME Inv, NEW t \in Proc, pc[t] \in Holding
  PROVE  /\ Inside(t)
         /\ pc[t] # "p_remote" => mine[t] \in Record
         /\ rec # NoRecord => Agree(mine[t], rec)
  BY DEF Inv, LocalOK

-----------------------------------------------------------------------------
(***************************************************************************)
(* Every step keeps the invariant, and all but three keep a denial.        *)
(***************************************************************************)

KeepsDenial ==
    rec # NoRecord => rec' # NoRecord /\ (~rec.enabled => ~rec'.enabled)

\* The beginning of a revocation denies the access and nothing else.
LEMMA BeginRevocationOK ==
  ASSUME Inv, NEW t \in Proc, Inside(t), rec # NoRecord,
         NEW w \in {"none", "issue", "hub", "revoke", "reraise"},
         BeginRevocation(t, rec, w), UNCHANGED <<account, hub, cf, seen, crashes>>,
         NEW i \in Owner \cup {NoAccount}, me' = [me EXCEPT ![t] = i],
         w \in Heirs => i \in Owner /\ i # rec.owner
  PROVE  Inv' /\ KeepsDenial
  <1>1. rec \in Record
    BY DEF Inv, StoresOK
  <1>2. Denied(rec) \in Record /\ Denied(rec).owner = rec.owner /\ ~Denied(rec).enabled
        /\ Denied(rec) # NoRecord
    BY <1>1, Reads, ConstantsAssumption
  <1>3. StoresOK'
    BY <1>2 DEF Inv, StoresOK, BeginRevocation, Withdrawn
  <1>4. ControlOK' /\ \A u \in Proc : LocalOK(u)'
    <2>1. ret' = [ret EXCEPT ![t] = w] /\ rec' = Denied(rec) /\ Goto(t, "rv_hub", Denied(rec))
      BY DEF BeginRevocation
    <2>2. Agree(Denied(rec), rec')
      BY <1>2, <2>1 DEF Agree
    <2> QED
      BY <1>2, <2>1, <2>2, GotoOK DEF Holding, Revoking
  <1>5. KeepsDenial
    BY <1>2 DEF KeepsDenial, BeginRevocation
  <1> QED
    BY <1>3, <1>4, <1>5 DEF Inv

\* The end of a revocation leaves the record denied.
LEMMA CompleteRevocationOK ==
  ASSUME Inv, NEW t \in Proc, pc[t] \in {"rv_hub", "rv_cf"},
         CompleteRevocation(t), StoresOK'
  PROVE  Inv' /\ KeepsDenial
  <1>1. Inside(t) /\ mine[t] \in Record
    BY Holder DEF Holding
  <1>2. Disabled(mine[t]) \in Record /\ Disabled(mine[t]).owner = mine[t].owner
        /\ ~Disabled(mine[t]).enabled /\ Disabled(mine[t]) # NoRecord
    BY <1>1, Reads, ConstantsAssumption
  <1>3. rec' = Disabled(mine[t])
    BY DEF CompleteRevocation
  <1>4. CASE ret[t] \in {"issue", "hub"} /\ Goto(t, "rv_delete", Disabled(mine[t])) /\ UNCHANGED <<me, ret>>
    <2>1. me[t] \in Owner /\ me[t] # Disabled(mine[t]).owner
      BY <1>2, <1>4 DEF Inv, LocalOK, Revoking, Heirs
    <2>2. me' = [me EXCEPT ![t] = me[t]] /\ ret' = [ret EXCEPT ![t] = ret[t]]
      BY <1>4 DEF Inv, ControlOK
    <2>3. Agree(Disabled(mine[t]), rec')
      BY <1>2, <1>3 DEF Agree
    <2>4. "rv_delete" \in Holding /\ ret[t] \in Heirs
      BY <1>4 DEF Holding, Heirs
    <2>5. ret[t] \in {"none", "issue", "hub", "revoke", "reraise"}
      BY <1>4
    <2>6. ControlOK' /\ \A u \in Proc : LocalOK(u)'
      BY <1>1, <1>2, <1>4, <2>1, <2>2, <2>3, <2>4, <2>5, GotoOK
    <2> QED
      BY <1>2, <1>3, <2>6 DEF Inv, KeepsDenial
  <1>5. CASE Leave(t, AfterRevoke(t))
    <2>1. AfterRevoke(t) \in (Waiting \cup Outside) \ {"e_wait", "rv_wait"}
      BY Exits DEF Waiting, Outside
    <2>2. AfterRevoke(t) \in {"userdel", "forget", "p_wait"} => job[t] = "delete"
      BY Exits
    <2>3. ControlOK' /\ \A u \in Proc : LocalOK(u)'
      BY <1>1, <1>5, <2>1, <2>2, LeaveOK
    <2> QED
      BY <1>2, <1>3, <2>3 DEF Inv, KeepsDenial
  <1> QED
    BY <1>4, <1>5 DEF CompleteRevocation

\* Who leaves the record, or agrees with it, keeps a denial.
LEMMA Keeps ==
  /\ rec' = rec => KeepsDenial
  /\ (rec # NoRecord => Agree(rec', rec)) => KeepsDenial
  BY ConstantsAssumption DEF KeepsDenial, Agree

\* Work that goes on inside the lock, outside a revocation.
LEMMA WorkOK ==
  ASSUME Inv, NEW t \in Proc, Inside(t),
         NEW p \in Holding \ (Revoking \cup {"p_remote"}), NEW m \in Record,
         Goto(t, p, m), UNCHANGED <<me, ret>>,
         rec' # NoRecord => Agree(m, rec'), StoresOK'
  PROVE  Inv'
  BY GotoSame DEF Inv, Revoking

\* Leaving the lock, for the places that assume nothing.
LEMMA ExitOK ==
  ASSUME Inv, NEW t \in Proc, Inside(t),
         NEW p \in {"idle", "s_rows", "i_wait", "u_wait", "h_wait", "d_unpublish"},
         Leave(t, p), StoresOK'
  PROVE  Inv'
  <1>1. p \in (Waiting \cup Outside) \ {"e_wait", "rv_wait"}
    BY DEF Waiting, Outside
  <1>2. p \notin {"userdel", "forget", "p_wait"}
    OBVIOUS
  <1> QED
    BY <1>1, <1>2, LeaveOK DEF Inv

\* A call that fails, or whose answer is lost, ends the use case.
LEMMA FailureOK ==
  ASSUME Inv, NEW t \in Proc, pc[t] \in Holding, Leave(t, OnError(t)),
         UNCHANGED rec, StoresOK'
  PROVE  Inv' /\ KeepsDenial
  <1>1. Inside(t)
    BY Holder
  <1>2. ControlOK' /\ \A u \in Proc : LocalOK(u)'
    BY <1>1, Exits, LeaveOK DEF Waiting, Outside
  <1> QED
    BY <1>2 DEF Inv, KeepsDenial

\* No step of a revocation undoes a denial, except that a new owner of the name
\* replaces the record of the former one.
LEMMA RevokeOK ==
  ASSUME Inv, NEW t \in Proc
  PROVE  /\ RevokeEnter(t) \/ RevokeHub(t) => Inv' /\ KeepsDenial
         /\ \A told \in BOOLEAN : RevokeCloudflare(t, told) => Inv' /\ KeepsDenial
         /\ RevokeDelete(t) => Inv' /\ (rec # NoRecord => me[t] # rec.owner)
  <1>1. ASSUME RevokeEnter(t) PROVE Inv' /\ KeepsDenial
    <2>1. Inside(t) /\ pc[t] = "rv_wait"
      BY <1>1 DEF RevokeEnter, Enter, Inside
    <2>2. CASE rec # NoRecord /\ BeginRevocation(t, rec, ret[t]) /\ UNCHANGED me
      <3>1. me' = [me EXCEPT ![t] = me[t]] /\ me[t] \in Owner \cup {NoAccount}
        BY <2>2 DEF Inv, ControlOK
      <3>2. ret[t] \in {"none", "issue", "hub", "revoke", "reraise"} \ Heirs
        BY <2>1 DEF Inv, ControlOK, LocalOK
      <3>3. UNCHANGED <<account, hub, cf, seen, crashes>>
        BY <1>1 DEF RevokeEnter
      <3> QED
        BY <2>1, <2>2, <3>1, <3>2, <3>3, BeginRevocationOK
    <2>3. CASE rec = NoRecord /\ Leave(t, AfterRevoke(t)) /\ UNCHANGED <<rec, asked>>
      <3>1. ControlOK' /\ \A u \in Proc : LocalOK(u)'
        BY <2>1, <2>3, Exits, LeaveOK DEF Waiting, Outside
      <3> QED
        BY <1>1, <2>3, <3>1 DEF Inv, StoresOK, KeepsDenial, RevokeEnter
    <2> QED
      BY <1>1, <2>2, <2>3 DEF RevokeEnter
  <1>2. ASSUME RevokeHub(t) PROVE Inv' /\ KeepsDenial
    <2>1. pc[t] = "rv_hub" /\ Inside(t) /\ mine[t] \in Record
          /\ (rec # NoRecord => Agree(mine[t], rec))
      BY <1>2, Holder DEF RevokeHub, Holding
    <2>2. CASE DeleteHubToken(Revocable(mine[t]), mine[t].hubTok) /\ UNCHANGED <<rec, control, me, ret>>
      <3>1. StoresOK'
        BY <1>2, <2>2 DEF Inv, StoresOK, RevokeHub, DeleteHubToken
      <3> QED
        BY <2>2, <3>1, StayOK, Keeps DEF Inv
    <2>3. CASE Goto(t, "rv_cf", mine[t]) /\ UNCHANGED <<rec, hub, me, ret>>
      <3>1. StoresOK'
        BY <1>2, <2>3 DEF Inv, StoresOK, RevokeHub
      <3>2. ret[t] \in Heirs => me[t] \in Owner /\ me[t] # mine[t].owner
        BY <2>1 DEF Inv, LocalOK, Revoking
      <3>3. "rv_cf" \in Holding \ {"rv_delete"}
        BY DEF Holding
      <3>4. ControlOK' /\ \A u \in Proc : LocalOK(u)'
        BY <2>1, <2>3, <3>2, <3>3, GotoSame
      <3> QED
        BY <2>3, <3>1, <3>4, Keeps DEF Inv
    <2>4. CASE CompleteRevocation(t) /\ UNCHANGED hub
      <3>1. rec' \in Record
        BY <2>1, <2>4, Reads DEF CompleteRevocation
      <3>2. StoresOK'
        BY <1>2, <2>4, <3>1 DEF Inv, StoresOK, RevokeHub
      <3> QED
        BY <2>1, <2>4, <3>2, CompleteRevocationOK
    <2> QED
      BY <1>2, <2>2, <2>3, <2>4 DEF RevokeHub
  <1>3. ASSUME NEW told \in BOOLEAN, RevokeCloudflare(t, told) PROVE Inv' /\ KeepsDenial
    <2>1. pc[t] = "rv_cf" /\ Inside(t) /\ mine[t] \in Record
      BY <1>3, Holder DEF RevokeCloudflare, Holding
    <2>2. CASE CompleteRevocation(t)
      <3>1. rec' \in Record
        BY <2>1, <2>2, Reads DEF CompleteRevocation
      <3>2. StoresOK'
        BY <1>3, <3>1 DEF Inv, StoresOK, RevokeCloudflare
      <3> QED
        BY <2>1, <2>2, <3>2, CompleteRevocationOK
    <2>3. CASE Leave(t, OnError(t)) /\ UNCHANGED rec
      <3>1. StoresOK'
        BY <1>3, <2>3 DEF Inv, StoresOK, RevokeCloudflare
      <3> QED
        BY <2>1, <2>3, <3>1, FailureOK DEF Holding
    <2> QED
      BY <1>3, <2>2, <2>3 DEF RevokeCloudflare
  <1>4. ASSUME RevokeDelete(t) PROVE Inv' /\ (rec # NoRecord => me[t] # rec.owner)
    <2>1. pc[t] = "rv_delete" /\ Inside(t) /\ mine[t] \in Record
          /\ (rec # NoRecord => Agree(mine[t], rec))
      BY <1>4, Holder DEF RevokeDelete, Holding
    <2>2. me[t] \in Owner /\ me[t] # mine[t].owner
      BY <2>1 DEF Inv, LocalOK, Revoking
    <2>3. FreshRecord(me[t]) \in Record
      BY <2>2, Fresh
    <2>4. StoresOK'
      BY <1>4 DEF Inv, StoresOK, RevokeDelete
    <2>5. rec' = NoRecord /\ UNCHANGED <<me, ret>>
      BY <1>4 DEF RevokeDelete
    <2>6. PICK p \in {"i_fresh", "h_decide"} : Goto(t, p, FreshRecord(me[t]))
      BY <1>4 DEF RevokeDelete
    <2>7. p \in Holding \ (Revoking \cup {"p_remote"})
      BY DEF Holding, Revoking
    <2>8. Inv'
      BY <2>1, <2>3, <2>4, <2>5, <2>6, <2>7, WorkOK
    <2> QED
      BY <2>1, <2>2, <2>8 DEF Agree
  <1> QED
    BY <1>1, <1>2, <1>3, <1>4

-----------------------------------------------------------------------------
(***************************************************************************)
(* Issuing, revoking and reissuing the Service Token.                      *)
(***************************************************************************)

\* The entry of an issue, with the record it found or made.
LEMMA IssueStartOK ==
  ASSUME Inv, NEW t \in Proc, Inside(t), NEW r \in Record,
         rec # NoRecord => Agree(r, rec), IssueStart(t, r),
         UNCHANGED <<account, hub, cf, seen, crashes, asked>>
  PROVE  Inv' /\ KeepsDenial
  <1>1. rec' = r
    BY DEF IssueStart
  <1>2. StoresOK'
    BY <1>1 DEF Inv, StoresOK
  <1>3. KeepsDenial
    BY <1>1, Keeps
  <1>4. CASE Goto(t, "i_request", r) /\ UNCHANGED <<me, ret>>
    <2>1. "i_request" \in Holding \ (Revoking \cup {"p_remote"})
      BY DEF Holding, Revoking
    <2>2. Agree(r, rec')
      BY <1>1 DEF Agree
    <2> QED
      BY <1>2, <1>3, <1>4, <2>1, <2>2, WorkOK
  <1>5. CASE Leave(t, "idle")
    BY <1>2, <1>3, <1>5, ExitOK
  <1> QED
    BY <1>4, <1>5 DEF IssueStart

\* A coroutine at a place inside the lock, with its record.
LEMMA AtWork ==
  ASSUME Inv, NEW t \in Proc, pc[t] \in Holding \ {"p_remote"}
  PROVE  /\ Inside(t)
         /\ mine[t] \in Record
         /\ rec # NoRecord => Agree(mine[t], rec)
  BY Holder

\* What may be done with an answer, and with its loss.
LEMMA AnswerOK ==
  ASSUME Inv, NEW t \in Proc, pc[t] \in Holding \ {"p_remote"},
         NEW told \in BOOLEAN, NEW p \in Holding \ (Revoking \cup {"p_remote"}),
         NEW m, Agree(m, mine[t]), Answer(t, told, p, m), cf' \subseteq CfToken,
         UNCHANGED <<account, hub, seen, crashes, asked>>
  PROVE  Inv' /\ KeepsDenial
  <1>1. Inside(t) /\ m \in Record /\ (rec # NoRecord => Agree(m, rec))
    BY AtWork DEF Agree
  <1>2. CASE rec' = m /\ Goto(t, p, m) /\ UNCHANGED <<me, ret>>
    <2>1. StoresOK'
      BY <1>1, <1>2 DEF Inv, StoresOK
    <2>2. Agree(m, rec')
      BY <1>1, <1>2 DEF Agree
    <2> QED
      BY <1>1, <1>2, <2>1, <2>2, WorkOK, Keeps
  <1>3. CASE UNCHANGED rec /\ Leave(t, OnError(t))
    <2>1. StoresOK'
      BY <1>3 DEF Inv, StoresOK
    <2> QED
      BY <1>3, <2>1, FailureOK
  <1> QED
    BY <1>2, <1>3 DEF Answer

\* A rotation at Cloudflare leaves tokens behind.
LEMMA RotateTokenOK ==
  ASSUME Inv, NEW t \in Proc, NEW told \in BOOLEAN, RotateToken(t, told)
  PROVE  cf' \subseteq CfToken
  BY DEF Inv, StoresOK, RotateToken, CfToken

\* No step of an issue undoes a denial.
LEMMA IssueOK ==
  ASSUME Inv, NEW t \in Proc, Issue(t)
  PROVE  Inv' /\ KeepsDenial
  <1>1. ASSUME IssueEnter(t) PROVE Inv' /\ KeepsDenial
    <2>1. Inside(t) /\ pc[t] = "i_wait" /\ UNCHANGED <<account, hub, cf, seen, crashes>>
      BY <1>1 DEF IssueEnter, Enter, Inside
    <2>2. CASE Leave(t, "idle") /\ UNCHANGED <<rec, asked>>
      <3>1. StoresOK'
        BY <2>1, <2>2 DEF Inv, StoresOK
      <3> QED
        BY <2>1, <2>2, <3>1, ExitOK, Keeps
    <2>3. CASE /\ account # NoAccount /\ rec # NoRecord /\ ~Mine(rec)
               /\ BeginRevocation(t, rec, "issue")
               /\ me' = [me EXCEPT ![t] = account]
      <3>1. account \in Owner /\ account # rec.owner
        BY <2>3 DEF Inv, StoresOK, Mine
      <3> QED
        BY <2>1, <2>3, <3>1, BeginRevocationOK
    <2>4. CASE Mine(rec) /\ IssueStart(t, rec) /\ UNCHANGED asked
      <3>1. rec \in Record /\ Agree(rec, rec)
        BY <2>4 DEF Inv, StoresOK, Mine, Agree
      <3> QED
        BY <2>1, <2>4, <3>1, IssueStartOK
    <2>5. CASE /\ account # NoAccount /\ rec = NoRecord
               /\ IssueStart(t, FreshRecord(account)) /\ UNCHANGED asked
      <3>1. FreshRecord(account) \in Record
        BY <2>5, Fresh DEF Inv, StoresOK
      <3> QED
        BY <2>1, <2>5, <3>1, IssueStartOK
    <2> QED
      BY <1>1, <2>2, <2>3, <2>4, <2>5 DEF IssueEnter
  <1>2. ASSUME IssueFresh(t) PROVE Inv' /\ KeepsDenial
    BY <1>2, AtWork, IssueStartOK DEF IssueFresh, Holding
  <1>3. ASSUME IssueRequest(t) PROVE Inv' /\ KeepsDenial
    <2>1. pc[t] \in Holding \ {"p_remote"}
      BY <1>3 DEF IssueRequest, Holding
    <2>2. PICK r, p : /\ r = [mine[t] EXCEPT !.requested = TRUE,
                                  !.state = IF @ = "unissued" THEN "issuing" ELSE @]
                      /\ rec' = r /\ Goto(t, p, r)
                      /\ p \in {"i_create", "i_rotate", "i_done"}
                      /\ UNCHANGED <<me, ret>>
      BY <1>3 DEF IssueRequest, AfterCreate
    <2>3. Agree(r, mine[t])
      BY <2>1, <2>2, AtWork DEF Agree, Record, CredentialState
    <2>4. r \in Record /\ (rec # NoRecord => Agree(rec', rec)) /\ Agree(r, rec')
      BY <2>1, <2>2, <2>3, AtWork DEF Agree
    <2>5. StoresOK'
      BY <1>3, <2>2, <2>4 DEF Inv, StoresOK, IssueRequest
    <2>6. p \in Holding \ (Revoking \cup {"p_remote"})
      BY <2>2 DEF Holding, Revoking
    <2> QED
      BY <2>1, <2>2, <2>4, <2>5, <2>6, AtWork, WorkOK, Keeps
  <1>4. ASSUME NEW told \in BOOLEAN, IssueCreate(t, told) PROVE Inv' /\ KeepsDenial
    <2>1. pc[t] \in Holding \ {"p_remote"} /\ mine[t] \in Record /\ mine[t].owner \in Owner
      BY <1>4, AtWork, Reads DEF IssueCreate, Holding
    <2> DEFINE named == {x \in cf : x.name = mine[t].owner}
    <2>2. PICK i : /\ i \in IF named = {} THEN NewCfIds ELSE {x.id : x \in named}
                   /\ cf' = (cf \ named) \cup {[id |-> i, name |-> mine[t].owner, told |-> told]}
                   /\ Answer(t, told, AfterCreate([mine[t] EXCEPT !.cf = i]),
                             [mine[t] EXCEPT !.cf = i])
      BY <1>4 DEF IssueCreate
    <2>3. i \in CfId
      BY <2>2 DEF NewCfIds, OneOf, Inv, StoresOK, CfToken
    <2>4. cf' \subseteq CfToken
      BY <2>1, <2>2, <2>3 DEF Inv, StoresOK, CfToken
    <2>5. Agree([mine[t] EXCEPT !.cf = i], mine[t])
      BY <2>1, <2>3, Edits
    <2>6. AfterCreate([mine[t] EXCEPT !.cf = i]) \in Holding \ (Revoking \cup {"p_remote"})
      BY DEF AfterCreate, Holding, Revoking
    <2>7. UNCHANGED <<account, hub, seen, crashes, asked>>
      BY <1>4 DEF IssueCreate
    <2> QED
      BY <2>1, <2>2, <2>4, <2>5, <2>6, <2>7, AnswerOK
  <1>5. ASSUME NEW told \in BOOLEAN, IssueRotate(t, told) PROVE Inv' /\ KeepsDenial
    <2>1. pc[t] \in Holding \ {"p_remote"} /\ mine[t] \in Record
      BY <1>5, AtWork DEF IssueRotate, Holding
    <2>2. Agree([mine[t] EXCEPT !.state = "issuing"], mine[t])
      BY <2>1, Edits DEF CredentialState
    <2>3. "i_done" \in Holding \ (Revoking \cup {"p_remote"})
      BY DEF Holding, Revoking
    <2> QED
      BY <1>5, <2>1, <2>2, <2>3, RotateTokenOK, AnswerOK DEF IssueRotate
  <1>6. ASSUME IssueDone(t) PROVE Inv' /\ KeepsDenial
    <2>1. Inside(t) /\ mine[t] \in Record /\ (rec # NoRecord => Agree(mine[t], rec))
      BY <1>6, AtWork DEF IssueDone, Holding
    <2>2. Agree([mine[t] EXCEPT !.state = "ready"], mine[t])
      BY <2>1, Edits DEF CredentialState
    <2>3. rec' = rec \/ (rec' \in Record /\ (rec # NoRecord => Agree(rec', rec)))
      BY <1>6, <2>1, <2>2 DEF IssueDone, Agree
    <2>4. StoresOK'
      BY <1>6, <2>3 DEF Inv, StoresOK, IssueDone
    <2> QED
      BY <1>6, <2>1, <2>3, <2>4, ExitOK, Keeps DEF IssueDone
  <1> QED
    BY <1>1, <1>2, <1>3, <1>4, <1>5, <1>6 DEF Issue

\* No revocation or rotation of the Service Token undoes a denial.
LEMMA ServiceOK ==
  ASSUME Inv, NEW t \in Proc, Service(t)
  PROVE  Inv' /\ KeepsDenial
  <1>1. ASSUME ServiceEnter(t) PROVE Inv' /\ KeepsDenial
    <2>1. Inside(t) /\ pc[t] = "u_wait" /\ UNCHANGED <<account, hub, cf, seen, crashes>>
      BY <1>1 DEF ServiceEnter, Enter, Inside
    <2>2. CASE Mine(rec) /\ rec.enabled
      <3>1. rec \in Record
        BY <2>2 DEF Inv, StoresOK, Mine
      <3>2. PICK r, p : /\ r = [rec EXCEPT !.state = "revoking_cloudflare"]
                        /\ rec' = r /\ Goto(t, p, r) /\ p \in {"u_done", "u_remove"}
                        /\ UNCHANGED <<me, ret>> /\ asked' = Withdrawn
        BY <1>1, <2>2 DEF ServiceEnter
      <3>3. r \in Record /\ Agree(r, rec) /\ Agree(r, rec')
        BY <3>1, <3>2, Edits DEF CredentialState, Agree
      <3>4. StoresOK'
        BY <2>1, <3>2, <3>3 DEF Inv, StoresOK, Withdrawn
      <3>5. p \in Holding \ (Revoking \cup {"p_remote"})
        BY <3>2 DEF Holding, Revoking
      <3> QED
        BY <2>1, <3>2, <3>3, <3>4, <3>5, WorkOK, Keeps
    <2>3. CASE Leave(t, "idle") /\ UNCHANGED <<rec, asked>>
      <3>1. StoresOK'
        BY <2>1, <2>3 DEF Inv, StoresOK
      <3> QED
        BY <2>1, <2>3, <3>1, ExitOK, Keeps
    <2> QED
      BY <1>1, <2>2, <2>3 DEF ServiceEnter
  <1>2. ASSUME NEW r \in Record PROVE Agree(ServiceRevoked(r), r)
    BY DEF Agree, ServiceRevoked, Record, CredentialState
  <1>3. ASSUME NEW told \in BOOLEAN, ServiceRemove(t, told) PROVE Inv' /\ KeepsDenial
    <2>1. Inside(t) /\ mine[t] \in Record /\ (rec # NoRecord => Agree(mine[t], rec))
      BY <1>3, AtWork DEF ServiceRemove, Holding
    <2>2. rec' = rec \/ (rec' \in Record /\ (rec # NoRecord => Agree(rec', rec)))
      BY <1>2, <1>3, <2>1 DEF ServiceRemove, Agree
    <2>3. StoresOK'
      BY <1>3, <2>2 DEF Inv, StoresOK, ServiceRemove
    <2> QED
      BY <1>3, <2>1, <2>2, <2>3, ExitOK, Keeps DEF ServiceRemove
  <1>4. ASSUME ServiceDone(t) PROVE Inv' /\ KeepsDenial
    <2>1. Inside(t) /\ mine[t] \in Record /\ (rec # NoRecord => Agree(mine[t], rec))
      BY <1>4, AtWork DEF ServiceDone, Holding
    <2>2. rec' \in Record /\ (rec # NoRecord => Agree(rec', rec))
      BY <1>2, <1>4, <2>1 DEF ServiceDone, Agree
    <2>3. StoresOK'
      BY <1>4, <2>2 DEF Inv, StoresOK, ServiceDone
    <2> QED
      BY <1>4, <2>1, <2>2, <2>3, ExitOK, Keeps DEF ServiceDone
  <1>5. ASSUME RotateEnter(t) PROVE Inv' /\ KeepsDenial
    <2>1. Inside(t) /\ UNCHANGED <<account, hub, cf, seen, crashes, asked>>
      BY <1>5 DEF RotateEnter, Enter, Inside
    <2>2. CASE Mine(rec) /\ Available(rec)
      <3>1. rec \in Record
        BY <2>2 DEF Inv, StoresOK, Mine
      <3>2. PICK r : /\ r = [rec EXCEPT !.state = "rotating_cloudflare"]
                     /\ rec' = r /\ Goto(t, "r_rotate", r) /\ UNCHANGED <<me, ret>>
        BY <1>5, <2>2 DEF RotateEnter
      <3>3. r \in Record /\ Agree(r, rec) /\ Agree(r, rec')
        BY <3>1, <3>2, Edits DEF CredentialState, Agree
      <3>4. StoresOK'
        BY <2>1, <3>2, <3>3 DEF Inv, StoresOK
      <3>5. "r_rotate" \in Holding \ (Revoking \cup {"p_remote"})
        BY DEF Holding, Revoking
      <3> QED
        BY <2>1, <3>2, <3>3, <3>4, <3>5, WorkOK, Keeps
    <2>3. CASE Leave(t, "idle") /\ UNCHANGED rec
      <3>1. StoresOK'
        BY <2>1, <2>3 DEF Inv, StoresOK
      <3> QED
        BY <2>1, <2>3, <3>1, ExitOK, Keeps
    <2> QED
      BY <1>5, <2>2, <2>3 DEF RotateEnter
  <1>6. ASSUME NEW told \in BOOLEAN, Rotate(t, told) PROVE Inv' /\ KeepsDenial
    <2>1. Inside(t) /\ mine[t] \in Record /\ (rec # NoRecord => Agree(mine[t], rec))
      BY <1>6, AtWork DEF Rotate, Holding
    <2>2. Agree([mine[t] EXCEPT !.state = "ready"], mine[t])
      BY <2>1, Edits DEF CredentialState
    <2>3. rec' = rec \/ (rec' \in Record /\ (rec # NoRecord => Agree(rec', rec)))
      BY <1>6, <2>1, <2>2 DEF Rotate, Agree
    <2>4. cf' \subseteq CfToken
      BY <1>6, RotateTokenOK DEF Rotate
    <2>5. StoresOK'
      BY <1>6, <2>3, <2>4 DEF Inv, StoresOK, Rotate
    <2> QED
      BY <1>6, <2>1, <2>3, <2>5, ExitOK, Keeps DEF Rotate
  <1> QED
    BY <1>1, <1>3, <1>4, <1>5, <1>6 DEF Service

-----------------------------------------------------------------------------
(***************************************************************************)
(* The Hub token.                                                          *)
(***************************************************************************)

\* The entry of the Hub use case does not undo a denial.
LEMMA HubEnterOK ==
  ASSUME Inv, NEW t \in Proc, HubEnter(t)
  PROVE  Inv' /\ KeepsDenial
  <1>1. Inside(t) /\ UNCHANGED <<account, hub, cf, seen, crashes>>
    BY DEF HubEnter, Enter, Inside
  <1>2. "h_decide" \in Holding \ (Revoking \cup {"p_remote"})
    BY DEF Holding, Revoking
  <1>3. CASE Leave(t, "idle") /\ UNCHANGED <<rec, asked>>
    <2>1. StoresOK'
      BY <1>1, <1>3 DEF Inv, StoresOK
    <2> QED
      BY <1>1, <1>3, <2>1, ExitOK, Keeps
  <1>4. CASE /\ account # NoAccount /\ rec # NoRecord /\ ~Mine(rec)
             /\ BeginRevocation(t, rec, "hub") /\ me' = [me EXCEPT ![t] = account]
    <2>1. account \in Owner /\ account # rec.owner
      BY <1>4 DEF Inv, StoresOK, Mine
    <2> QED
      BY <1>1, <1>4, <2>1, BeginRevocationOK
  <1>5. ASSUME NEW r \in Record, rec # NoRecord => Agree(r, rec), Goto(t, "h_decide", r),
               rec' = r \/ rec' = rec, UNCHANGED <<me, ret, asked>>
        PROVE  Inv' /\ KeepsDenial
    <2>1. StoresOK'
      BY <1>1, <1>5 DEF Inv, StoresOK
    <2>2. rec' # NoRecord => Agree(r, rec')
      BY <1>5 DEF Agree
    <2>3. rec' = rec \/ (rec # NoRecord => Agree(rec', rec))
      BY <1>5
    <2> QED
      BY <1>1, <1>2, <1>5, <2>1, <2>2, <2>3, WorkOK, Keeps
  <1>6. CASE /\ Mine(rec) /\ Inherited(rec)
             /\ rec' = [rec EXCEPT !.state = "unissued"]
             /\ Goto(t, "h_decide", [rec EXCEPT !.state = "unissued"])
             /\ UNCHANGED <<me, ret, asked>>
    <2>1. rec \in Record
      BY <1>6 DEF Inv, StoresOK, Mine
    <2>2. Agree([rec EXCEPT !.state = "unissued"], rec)
      BY <2>1, Edits DEF CredentialState
    <2>3. [rec EXCEPT !.state = "unissued"] \in Record
      BY <2>2 DEF Agree
    <2> QED
      BY <1>5, <1>6, <2>2, <2>3
  <1>7. CASE Mine(rec) /\ Goto(t, "h_decide", rec) /\ UNCHANGED <<rec, me, ret, asked>>
    <2>1. rec \in Record /\ Agree(rec, rec)
      BY <1>7 DEF Inv, StoresOK, Mine, Agree
    <2> QED
      BY <1>5, <1>7, <2>1
  <1>8. CASE /\ account # NoAccount /\ rec = NoRecord
             /\ Goto(t, "h_decide", FreshRecord(account)) /\ UNCHANGED <<rec, me, ret, asked>>
    <2>1. FreshRecord(account) \in Record
      BY <1>8, Fresh DEF Inv, StoresOK
    <2> QED
      BY <1>5, <1>8, <2>1
  <1> QED
    BY <1>3, <1>4, <1>6, <1>7, <1>8 DEF HubEnter

\* Nor does the decision what to do with the Hub token.
LEMMA HubDecideOK ==
  ASSUME Inv, NEW t \in Proc, HubDecide(t)
  PROVE  Inv' /\ KeepsDenial
  <1>1. /\ Inside(t) /\ mine[t] \in Record /\ (rec # NoRecord => Agree(mine[t], rec))
        /\ UNCHANGED <<account, hub, cf, seen, crashes, asked>>
    BY AtWork DEF HubDecide, Holding
  <1>2. CASE Leave(t, AfterHub(t, mine[t])) /\ UNCHANGED rec
    <2>1. StoresOK'
      BY <1>1, <1>2 DEF Inv, StoresOK
    <2>2. AfterHub(t, mine[t]) \in {"i_wait", "u_wait", "idle"}
      BY Exits
    <2> QED
      BY <1>1, <1>2, <2>1, <2>2, ExitOK, Keeps
  <1>3. ASSUME NEW m, Agree(m, mine[t]), NEW p \in {"h_revoke", "h_issue"}, Goto(t, p, m),
               rec' = m \/ rec' = rec, UNCHANGED <<me, ret>>
        PROVE  Inv' /\ KeepsDenial
    <2>1. m \in Record /\ (rec # NoRecord => Agree(m, rec))
      BY <1>1, <1>3 DEF Agree
    <2>2. (rec' # NoRecord => Agree(m, rec')) /\ (rec' = rec \/ (rec # NoRecord => Agree(rec', rec)))
      BY <1>3, <2>1 DEF Agree
    <2>3. StoresOK'
      BY <1>1, <1>3, <2>1 DEF Inv, StoresOK
    <2>4. p \in Holding \ (Revoking \cup {"p_remote"})
      BY DEF Holding, Revoking
    <2> QED
      BY <1>1, <1>3, <2>1, <2>2, <2>3, <2>4, WorkOK, Keeps
  <1>4. Agree([mine[t] EXCEPT !.hub = "revoked"], mine[t])
    BY <1>1, Edits
  <1>5. Agree([mine[t] EXCEPT !.hub = "rotating", !.pending = {mine[t].hubTok}], mine[t])
    BY <1>1 DEF Agree, Record
  <1>6. Agree(mine[t], mine[t])
    BY <1>1 DEF Agree
  <1>7. \/ Leave(t, AfterHub(t, mine[t])) /\ UNCHANGED rec
        \/ /\ UNCHANGED <<me, ret>>
           /\ \/ /\ rec' = [mine[t] EXCEPT !.hub = "revoked"]
                 /\ Goto(t, "h_revoke", [mine[t] EXCEPT !.hub = "revoked"])
              \/ /\ rec' = [mine[t] EXCEPT !.hub = "rotating", !.pending = {mine[t].hubTok}]
                 /\ Goto(t, "h_issue", [mine[t] EXCEPT !.hub = "rotating",
                                                      !.pending = {mine[t].hubTok}])
              \/ Goto(t, "h_issue", mine[t]) /\ UNCHANGED rec
    BY DEF HubDecide
  <1> QED
    BY <1>2, <1>3, <1>4, <1>5, <1>6, <1>7

\* No step of the Hub use case undoes a denial.
LEMMA HubOK ==
  ASSUME Inv, NEW t \in Proc, Hub(t)
  PROVE  Inv' /\ KeepsDenial
  <1>1. ASSUME HubRevoke(t) PROVE Inv' /\ KeepsDenial
    <2>1. Inside(t) /\ mine[t] \in Record /\ (rec # NoRecord => Agree(mine[t], rec))
      BY <1>1, AtWork DEF HubRevoke, Holding
    <2>2. CASE DeleteHubToken(hub, mine[t].hubTok) /\ UNCHANGED <<rec, control, me, ret>>
      <3>1. StoresOK'
        BY <1>1, <2>2 DEF Inv, StoresOK, HubRevoke, DeleteHubToken
      <3> QED
        BY <2>2, <3>1, StayOK, Keeps DEF Inv
    <2>3. CASE /\ rec' = [mine[t] EXCEPT !.hubTok = NoToken, !.pending = {}]
               /\ Leave(t, AfterHub(t, mine[t])) /\ UNCHANGED hub
      <3>1. Agree([mine[t] EXCEPT !.hubTok = NoToken, !.pending = {}], mine[t])
        BY <2>1 DEF Agree, Record
      <3>2. rec' \in Record /\ (rec # NoRecord => Agree(rec', rec))
        BY <2>1, <2>3, <3>1 DEF Agree
      <3>3. StoresOK'
        BY <1>1, <2>3, <3>2 DEF Inv, StoresOK, HubRevoke
      <3> QED
        BY <2>1, <2>3, <3>2, <3>3, Exits, ExitOK, Keeps
    <2> QED
      BY <1>1, <2>2, <2>3 DEF HubRevoke
  <1>2. ASSUME HubIssue(t) PROVE Inv' /\ KeepsDenial
    <2>1. /\ Inside(t) /\ mine[t] \in Record /\ (rec # NoRecord => Agree(mine[t], rec))
          /\ UNCHANGED <<account, rec, cf, me, ret, seen, crashes, asked>>
      BY <1>2, AtWork DEF HubIssue, Holding
    <2>2. hub' \subseteq HubId
      <3>1. hub \subseteq HubId /\ NewHubIds \subseteq HubId
        BY DEF Inv, StoresOK, NewHubIds, OneOf
      <3>2. \/ UNCHANGED hub
            \/ \E S, first : DeleteHubToken(S, first)
            \/ \E i \in NewHubIds : hub' = hub \cup {i}
        BY <1>2 DEF HubIssue
      <3> QED
        BY <3>1, <3>2 DEF DeleteHubToken
    <2>3. StoresOK'
      BY <2>1, <2>2 DEF Inv, StoresOK
    <2>4. CASE UNCHANGED <<lock, running, job, pc, mine>>
      BY <2>1, <2>3, <2>4, StayOK, Keeps DEF Inv, control
    <2>5. ASSUME NEW m, Agree(m, mine[t]), NEW p \in {"h_drop", "h_store"}, Goto(t, p, m)
          PROVE  Inv' /\ KeepsDenial
      <3>1. m \in Record /\ (rec' # NoRecord => Agree(m, rec'))
        BY <2>1, <2>5 DEF Agree
      <3>2. p \in Holding \ (Revoking \cup {"p_remote"})
        BY DEF Holding, Revoking
      <3> QED
        BY <2>1, <2>3, <2>5, <3>1, <3>2, WorkOK, Keeps
    <2>6. \/ UNCHANGED <<lock, running, job, pc, mine>>
          \/ Goto(t, "h_drop", mine[t])
          \/ \E i \in NewHubIds : Goto(t, "h_store", [mine[t] EXCEPT !.hubTok = i])
      BY <1>2 DEF HubIssue, control
    <2>7. \A i \in NewHubIds : Agree([mine[t] EXCEPT !.hubTok = i], mine[t])
      BY <2>1, Edits DEF NewHubIds, OneOf
    <2>8. Agree(mine[t], mine[t])
      BY <2>1 DEF Agree
    <2> QED
      BY <2>4, <2>5, <2>6, <2>7, <2>8
  <1>3. ASSUME HubStore(t) PROVE Inv' /\ KeepsDenial
    <2>1. /\ Inside(t) /\ mine[t] \in Record /\ (rec # NoRecord => Agree(mine[t], rec))
          /\ rec' = mine[t] /\ Goto(t, "h_drop", mine[t]) /\ UNCHANGED <<me, ret>>
      BY <1>3, AtWork DEF HubStore, Holding
    <2>2. StoresOK'
      BY <1>3, <2>1 DEF Inv, StoresOK, HubStore
    <2>3. Agree(mine[t], rec') /\ "h_drop" \in Holding \ (Revoking \cup {"p_remote"})
      BY <2>1 DEF Agree, Holding, Revoking
    <2> QED
      BY <2>1, <2>2, <2>3, WorkOK, Keeps
  <1>4. ASSUME HubDrop(t) PROVE Inv' /\ KeepsDenial
    <2>1. Inside(t) /\ mine[t] \in Record /\ (rec # NoRecord => Agree(mine[t], rec))
      BY <1>4, AtWork DEF HubDrop, Holding
    <2>2. CASE DeleteHubToken(Superseded(mine[t]), mine[t].hubTok) /\ UNCHANGED <<rec, control, me, ret>>
      <3>1. StoresOK'
        BY <1>4, <2>2 DEF Inv, StoresOK, HubDrop, DeleteHubToken
      <3> QED
        BY <2>2, <3>1, StayOK, Keeps DEF Inv
    <2>3. CASE ~(DeleteHubToken(Superseded(mine[t]), mine[t].hubTok) /\ UNCHANGED <<rec, control, me, ret>>)
      <3>1. PICK m : /\ m = [mine[t] EXCEPT !.hub = "ready", !.pending = {},
                              !.state = IF @ # "rotating_jupyterhub" THEN @
                                        ELSE IF mine[t].cf = NoToken THEN "unissued" ELSE "ready"]
                     /\ rec' = m /\ Leave(t, AfterHub(t, m)) /\ UNCHANGED hub
        BY <1>4, <2>3 DEF HubDrop
      <3>2. Agree(m, mine[t])
        BY <2>1, <3>1 DEF Agree, Record, CredentialState
      <3>3. rec' \in Record /\ (rec # NoRecord => Agree(rec', rec))
        BY <2>1, <3>1, <3>2 DEF Agree
      <3>4. StoresOK'
        BY <1>4, <3>1, <3>3 DEF Inv, StoresOK, HubDrop
      <3>5. AfterHub(t, m) \in {"i_wait", "u_wait", "idle"}
        BY Exits
      <3> QED
        BY <2>1, <3>1, <3>3, <3>4, <3>5, ExitOK, Keeps
    <2> QED
      BY <2>2, <2>3
  <1> QED
    BY <1>1, <1>2, <1>3, <1>4, HubEnterOK, HubDecideOK DEF Hub

-----------------------------------------------------------------------------
(***************************************************************************)
(* Administration, synchronisation and surroundings.                       *)
(***************************************************************************)

\* What may end a denial, as DenialStands lists it.
MayEnd == \E t \in Proc : \/ Enter(t, "e_wait") /\ job[t] = "enable"
                          \/ pc[t] = "p_remote" /\ job[t] = "delete"
                          \/ pc[t] = "rv_delete" /\ (rec # NoRecord => me[t] # rec.owner)

\* Of the administrator's use cases, only Enable and the deletion of the records
\* end a denial.
LEMMA AdminOK ==
  ASSUME Inv, NEW t \in Proc, Admin(t)
  PROVE  Inv' /\ (KeepsDenial \/ MayEnd)
  <1>1. ASSUME EnableEnter(t) PROVE Inv' /\ MayEnd
    <2>1. Inside(t) /\ Enter(t, "e_wait") /\ pc[t] = "e_wait"
      BY <1>1 DEF EnableEnter, Enter, Inside
    <2>2. rec' \in Record \cup {NoRecord}
      BY <1>1, Fresh DEF EnableEnter, Inv, StoresOK
    <2>3. StoresOK'
      BY <1>1, <2>2 DEF Inv, StoresOK, EnableEnter
    <2>4. job[t] = "enable"
      BY <2>1 DEF Inv, LocalOK
    <2> QED
      BY <1>1, <2>1, <2>3, <2>4, ExitOK DEF EnableEnter, MayEnd
  <1>2. ASSUME DisableEnter(t) PROVE Inv' /\ KeepsDenial
    <2>1. Inside(t) /\ UNCHANGED <<account, hub, cf, seen, crashes>>
      BY <1>2 DEF DisableEnter, Enter, Inside
    <2>2. CASE Leave(t, OnError(t)) /\ UNCHANGED <<rec, asked>>
      <3>1. StoresOK'
        BY <2>1, <2>2 DEF Inv, StoresOK
      <3> QED
        BY <2>1, <2>2, <3>1, Exits, ExitOK, Keeps
    <2>3. CASE rec # NoRecord \/ account # NoAccount
      <3>1. CASE Leave(t, OnError(t)) /\ UNCHANGED <<rec, asked>>
        BY <2>2, <3>1
      <3>2. PICK r : /\ r = IF rec = NoRecord THEN FreshRecord(account) ELSE rec
                     /\ rec' = Denied(r) /\ Goto(t, "d_hub", Denied(r))
                     /\ asked' = Withdrawn /\ UNCHANGED <<me, ret>>
        BY <1>2, <2>3 DEF DisableEnter
      <3>3. r \in Record
        BY <2>3, <3>2, Fresh DEF Inv, StoresOK
      <3>4. Denied(r) \in Record /\ ~Denied(r).enabled /\ Agree(Denied(r), Denied(r))
        BY <3>3, Reads DEF Agree
      <3>5. StoresOK'
        BY <2>1, <3>2, <3>4 DEF Inv, StoresOK, Withdrawn
      <3>6. "d_hub" \in Holding \ (Revoking \cup {"p_remote"})
        BY DEF Holding, Revoking
      <3>7. Inv'
        BY <2>1, <3>2, <3>4, <3>5, <3>6, WorkOK
      <3> QED
        BY <3>2, <3>4, <3>7, ConstantsAssumption DEF KeepsDenial
    <2> QED
      BY <1>2, <2>2, <2>3 DEF DisableEnter
  <1>3. ASSUME DisableHub(t) PROVE Inv' /\ KeepsDenial
    <2>1. Inside(t)
      BY <1>3, AtWork DEF DisableHub, Holding
    <2>2. StoresOK'
      BY <1>3 DEF Inv, StoresOK, DisableHub
    <2> QED
      BY <1>3, <2>1, <2>2, ExitOK, Keeps DEF DisableHub
  <1>4. ASSUME NEW ok \in BOOLEAN, Unpublish(t, ok) PROVE Inv' /\ KeepsDenial
    <2>1. pc[t] = "d_unpublish" /\ UNCHANGED <<account, rec, hub, cf, seen, crashes, asked, mine, me>>
          /\ Outward(t, job[t], "rv_wait", lock)
      BY <1>4 DEF Unpublish, Advance
    <2>2. PICK w \in {"revoke", "reraise"} : ret' = [ret EXCEPT ![t] = w]
      BY <1>4 DEF Unpublish
    <2>3. StoresOK'
      BY <2>1 DEF Inv, StoresOK
    <2>4. pc[t] \notin Holding /\ job[t] \in Job \cup {"sync", "none"}
      BY <2>1 DEF Inv, ControlOK, Holding
    <2>5. "rv_wait" \in Waiting \cup Outside /\ w \notin Heirs
      BY <2>2 DEF Waiting, Heirs
    <2>6. ControlOK' /\ \A u \in Proc : LocalOK(u)'
      BY <2>1, <2>2, <2>4, <2>5, OutwardOK
    <2> QED
      BY <2>1, <2>3, <2>6, Keeps DEF Inv
  <1>5. ASSUME DeleteResumes(t) PROVE Inv' /\ KeepsDenial
    <2>1. PICK p \in {"idle", "p_wait"} :
              /\ Outward(t, job[t], p, lock) /\ pc[t] \in {"userdel", "forget"}
              /\ UNCHANGED <<account, rec, hub, cf, ret, seen, crashes, asked, mine, me>>
      BY <1>5 DEF DeleteResumes, Advance
    <2>2. pc[t] \notin Holding /\ job[t] = "delete" /\ "delete" \in Job
      BY <2>1 DEF Inv, LocalOK, Holding, Job
    <2>3. ret' = [ret EXCEPT ![t] = ret[t]]
          /\ ret[t] \in {"none", "issue", "hub", "revoke", "reraise"}
      BY <2>1 DEF Inv, ControlOK
    <2>4. p \in Waiting \cup Outside
      BY DEF Waiting, Outside
    <2>5. ControlOK' /\ \A u \in Proc : LocalOK(u)'
      BY <2>1, <2>2, <2>3, <2>4, OutwardOK
    <2>6. StoresOK'
      BY <2>1 DEF Inv, StoresOK
    <2> QED
      BY <2>1, <2>5, <2>6, Keeps DEF Inv
  <1>6. ASSUME DeleteEnter(t) PROVE Inv' /\ KeepsDenial
    <2>1. /\ Inside(t) /\ pc[t] = "p_wait"
          /\ UNCHANGED <<account, rec, hub, cf, seen, crashes, asked>>
      BY <1>6 DEF DeleteEnter, Enter, Inside
    <2>2. StoresOK'
      BY <2>1 DEF Inv, StoresOK
    <2>3. CASE Leave(t, "idle")
      BY <2>1, <2>2, <2>3, ExitOK, Keeps
    <2>4. CASE Goto(t, "p_remote", rec) /\ UNCHANGED <<me, ret>>
      <3>1. me' = [me EXCEPT ![t] = me[t]] /\ ret' = [ret EXCEPT ![t] = ret[t]]
            /\ me[t] \in Owner \cup {NoAccount}
            /\ ret[t] \in {"none", "issue", "hub", "revoke", "reraise"}
        BY <2>4 DEF Inv, ControlOK
      <3>2. /\ rec \in Record \cup {NoRecord} /\ (rec' # NoRecord => Agree(rec, rec'))
            /\ "p_remote" # "rv_delete"
        BY <2>1 DEF Inv, StoresOK, Agree
      <3>3. job[t] = "delete" /\ "p_remote" \in Holding /\ "p_remote" \notin Revoking
        BY <2>1 DEF Inv, LocalOK, Holding, Revoking
      <3>4. ControlOK' /\ \A u \in Proc : LocalOK(u)'
        BY <2>1, <2>4, <3>1, <3>2, <3>3, GotoOK
      <3> QED
        BY <2>1, <2>2, <3>4, Keeps DEF Inv
    <2> QED
      BY <1>6, <2>3, <2>4 DEF DeleteEnter
  <1>7. ASSUME DeleteRecords(t) PROVE Inv' /\ MayEnd
    <2>1. pc[t] = "p_remote" /\ Inside(t) /\ job[t] = "delete"
      BY <1>7, Holder DEF DeleteRecords, Holding, Inv, LocalOK
    <2>2. StoresOK'
      BY <1>7 DEF Inv, StoresOK, DeleteRecords
    <2> QED
      BY <1>7, <2>1, <2>2, ExitOK DEF DeleteRecords, MayEnd
  <1> QED
    BY <1>1, <1>2, <1>3, <1>4, <1>5, <1>6, <1>7 DEF Admin

\* A step of a coroutine keeps the invariant and, with three exceptions, a denial.
LEMMA CoroutineOK ==
  ASSUME Inv, NEW t \in Proc, Coroutine(t)
  PROVE  Inv' /\ (KeepsDenial \/ MayEnd)
  <1>1. CASE Revoke(t)
    <2>1. RevokeDelete(t) => pc[t] = "rv_delete"
      BY DEF RevokeDelete
    <2> QED
      BY <1>1, <2>1, RevokeOK DEF Revoke, MayEnd
  <1>2. CASE CloudflareFails(t)
    <2>1. pc[t] \in Holding
      BY <1>2 DEF CloudflareFails, Awaiting, Holding
    <2>2. StoresOK'
      BY <1>2 DEF CloudflareFails, Inv, StoresOK
    <2> QED
      BY <1>2, <2>1, <2>2, FailureOK DEF CloudflareFails
  <1> QED
    BY <1>1, <1>2, IssueOK, ServiceOK, HubOK, AdminOK DEF Coroutine

\* The synchronisation's own steps leave the records alone.
LEMMA SynchroniseOK ==
  ASSUME Inv, Synchronise
  PROVE  Inv' /\ KeepsDenial
  <1>1. Sync \in Proc
    BY DEF Proc
  <1>2. PICK j \in Job \cup {"sync", "none"}, p \in {"s_sweep", "d_wait", "s_rows", "h_wait", "idle"} :
            /\ Outward(Sync, j, p, lock) /\ pc[Sync] \in {"idle", "s_sweep", "s_rows"}
            /\ UNCHANGED <<account, rec, hub, cf, mine, me, ret, crashes, asked>>
            /\ seen' \in BOOLEAN
    BY <1>1 DEF Synchronise, SyncSnapshot, SyncSweep, SyncRow, Advance, Inv, StoresOK, ControlOK
  <1>3. ret' = [ret EXCEPT ![Sync] = ret[Sync]]
        /\ ret[Sync] \in {"none", "issue", "hub", "revoke", "reraise"}
    BY <1>1, <1>2 DEF Inv, ControlOK
  <1>4. pc[Sync] \notin Holding /\ p \in Waiting \cup Outside
    BY <1>2 DEF Holding, Waiting, Outside
  <1>5. ControlOK' /\ \A u \in Proc : LocalOK(u)'
    BY <1>1, <1>2, <1>3, <1>4, OutwardOK
  <1>6. StoresOK'
    BY <1>2 DEF Inv, StoresOK
  <1> QED
    BY <1>2, <1>5, <1>6, Keeps DEF Inv

\* So does the arrival of a request.
LEMMA HandleOK ==
  ASSUME Inv, NEW t \in Request, Handle(t)
  PROVE  Inv' /\ KeepsDenial
  <1>1. t \in Proc
    BY DEF Proc
  <1>2. PICK j \in Job : Submit(t, j)
    BY DEF Handle
  <1>3. /\ Outward(t, j, FirstStep(j), lock) /\ pc[t] = "idle"
        /\ UNCHANGED <<account, rec, hub, cf, mine, me, ret, seen, crashes, asked>>
    BY <1>2 DEF Submit
  <1>4. ret' = [ret EXCEPT ![t] = ret[t]]
        /\ ret[t] \in {"none", "issue", "hub", "revoke", "reraise"}
    BY <1>1, <1>3 DEF Inv, ControlOK
  <1>5. FirstStep(j) \in Waiting \ {"rv_wait", "p_wait"}
        /\ (FirstStep(j) = "e_wait" => j = "enable")
    BY Entrances
  <1>6. FirstStep(j) \notin {"userdel", "forget", "p_wait"} /\ pc[t] \notin Holding
    BY <1>3, <1>5 DEF Waiting, Holding
  <1>7. ControlOK' /\ \A u \in Proc : LocalOK(u)'
    BY <1>1, <1>3, <1>4, <1>5, <1>6, OutwardOK
  <1>8. StoresOK'
    BY <1>3 DEF Inv, StoresOK
  <1> QED
    BY <1>3, <1>7, <1>8, Keeps DEF Inv

\* So does userdel.
LEMMA DeleteLinuxUserOK ==
  ASSUME Inv, NEW t \in Proc, DeleteLinuxUser(t)
  PROVE  Inv' /\ KeepsDenial
  <1>1. StoresOK'
    BY DEF DeleteLinuxUser, Inv, StoresOK
  <1>2. ControlOK'
    BY DEF DeleteLinuxUser, Inv, ControlOK, Outside
  <1>3. ASSUME NEW u \in Proc PROVE LocalOK(u)'
    <2>1. CASE u = t
      BY <2>1 DEF DeleteLinuxUser, Inv, ControlOK, LocalOK, Holding, Revoking
    <2>2. CASE u # t
      <3>1. pc'[u] = pc[u]
        BY <2>2 DEF DeleteLinuxUser, Inv, ControlOK
      <3> QED
        BY <3>1 DEF DeleteLinuxUser, Inv, LocalOK, Inside, Agree
    <2> QED
      BY <2>1, <2>2
  <1> QED
    BY <1>1, <1>2, <1>3, Keeps DEF Inv, DeleteLinuxUser

\* So do the surroundings of the portal.
LEMMA SurroundingsOK ==
  ASSUME Inv, Surroundings
  PROVE  Inv' /\ KeepsDenial
  <1>1. UNCHANGED <<rec, control, me, ret>>
    BY DEF Surroundings, AccountRemoved, AccountCreated, HubTokenDeleted
  <1>2. StoresOK'
    BY DEF Surroundings, AccountRemoved, AccountCreated, HubTokenDeleted, Inv, StoresOK
  <1> QED
    BY <1>1, <1>2, StayOK, Keeps DEF Inv

\* A restart loses the coroutines and keeps the stores.
LEMMA CrashOK ==
  ASSUME Inv, Crash
  PROVE  Inv' /\ KeepsDenial
  <1>1. StoresOK'
    BY ConstantsAssumption DEF Inv, StoresOK, Crash
  <1>2. ControlOK'
    BY DEF Crash, ControlOK, Outside
  <1>3. ASSUME NEW u \in Proc PROVE LocalOK(u)'
    <2>1. pc'[u] = "idle"
      BY DEF Crash
    <2> QED
      BY <2>1 DEF LocalOK, Holding, Revoking
  <1> QED
    BY <1>1, <1>2, <1>3, Keeps DEF Inv, Crash

-----------------------------------------------------------------------------
(***************************************************************************)
(* The theorems.                                                           *)
(***************************************************************************)

\* The invariant holds initially.
LEMMA InitOK == Init => Inv
  <1> SUFFICES ASSUME Init PROVE Inv
    OBVIOUS
  <1>1. account \in Owner /\ FreshRecord(account) \in Record
    BY Fresh DEF Init
  <1>2. StoresOK
    <2>0. seen \in BOOLEAN /\ crashes \in 0 .. MaxCrashes
      <3>1. seen = FALSE /\ crashes = 0
        BY DEF Init, InitProcesses
      <3>2. 0 \in 0 .. MaxCrashes
        BY ConstantsAssumption
      <3> QED
        BY <3>1, <3>2
    <2>1. CASE InitNew
      BY <1>1, <2>0, <2>1 DEF InitNew, StoresOK
    <2>2. CASE InitInherited
      <3>1. rec \in Record
        BY <1>1, <2>2, Edits DEF InitInherited, CredentialState, Agree
      <3> QED
        BY <1>1, <2>0, <2>2, <3>1 DEF InitInherited, StoresOK
    <2>3. CASE InitRotating
      <3>1. PICK old \in HubId, i \in CfId, new \in HubId :
                /\ rec = [FreshRecord(account) EXCEPT
                             !.state = "rotating_jupyterhub", !.cf = i,
                             !.hubTok = new, !.pending = {old}]
                /\ hub = {old, new}
                /\ cf = {[id |-> i, name |-> account, told |-> TRUE]}
                /\ asked = "yes"
        BY <2>3 DEF InitRotating, OneOf
      <3>2. rec \in Record
        BY <1>1, <3>1 DEF Record, CredentialState
      <3>3. cf \subseteq CfToken
        BY <1>1, <3>1 DEF CfToken
      <3> QED
        BY <1>1, <2>0, <3>1, <3>2, <3>3 DEF StoresOK
    <2> QED
      BY <2>1, <2>2, <2>3 DEF Init
  <1>3. ControlOK
    BY DEF Init, InitProcesses, ControlOK, Outside
  <1>4. ASSUME NEW u \in Proc PROVE LocalOK(u)
    <2>1. pc[u] = "idle"
      BY DEF Init, InitProcesses
    <2> QED
      BY <2>1 DEF LocalOK, Holding, Revoking
  <1> QED
    BY <1>2, <1>3, <1>4 DEF Inv

\* Every step keeps the invariant and, with three exceptions, a denial.
LEMMA NextOK ==
  ASSUME Inv, [Next]_vars
  PROVE  Inv' /\ (KeepsDenial \/ MayEnd)
  <1>1. CASE Next
    <2>1. \A t \in Request : Handle(t) => Inv' /\ KeepsDenial
      BY HandleOK
    <2>2. \A t \in Proc : Coroutine(t) => Inv' /\ (KeepsDenial \/ MayEnd)
      BY CoroutineOK
    <2>3. \A t \in Proc : DeleteLinuxUser(t) => Inv' /\ KeepsDenial
      BY DeleteLinuxUserOK
    <2> QED
      BY <1>1, <2>1, <2>2, <2>3, SynchroniseOK, SurroundingsOK, CrashOK DEF Next
  <1>2. CASE UNCHANGED vars
    <2>1. UNCHANGED <<rec, control, me, ret>>
      BY <1>2 DEF vars
    <2>2. StoresOK'
      BY <1>2 DEF vars, Inv, StoresOK
    <2> QED
      BY <2>1, <2>2, StayOK, Keeps DEF Inv
  <1> QED
    BY <1>1, <1>2

\* The invariant the other results rest on: the stores and the coroutines are
\* well formed, and whoever works on the record is alone inside the lock.
THEOREM Invariance == Spec => []Inv
  <1>1. Inv /\ [Next]_vars => Inv'
    BY NextOK
  <1> QED
    BY <1>1, InitOK, PTL DEF Spec

\* Every reachable state is well formed, however many requests, identities,
\* tokens and restarts there are.
THEOREM TypeCorrect == Spec => []TypeOK
  <1>1. Inv => TypeOK
    BY TypeSplit DEF Inv
  <1> QED
    BY <1>1, Invariance, PTL

\* No two coroutines are at work on the record of one user: the credential
\* lock excludes them at every await and every commit in between.
THEOREM MutualExclusion ==
    Spec => [](\A t, u \in Proc : pc[t] \in Holding /\ pc[u] \in Holding => t = u)
  <1>1. Inv => \A t, u \in Proc : pc[t] \in Holding /\ pc[u] \in Holding => t = u
    BY DEF Inv, LocalOK, Inside
  <1> QED
    BY <1>1, Invariance, PTL

\* A denied user is let in again only by an administrator's Enable, by the
\* deletion of the records, or as a new owner of the name: nothing that was
\* under way when the access was denied brings it back.
THEOREM DenialIsFinal == Spec => DenialStands
  <1>1. Inv /\ [Next]_vars =>
          [rec # NoRecord /\ ~rec.enabled /\ (rec' # NoRecord => rec'.enabled) =>
             \E t \in Proc : \/ Enter(t, "e_wait") /\ job[t] = "enable"
                             \/ pc[t] = "p_remote" /\ job[t] = "delete"
                             \/ pc[t] = "rv_delete" /\ me[t] # rec.owner]_vars
    BY NextOK DEF KeepsDenial, MayEnd
  <1> QED
    BY <1>1, Invariance, PTL DEF Spec, DenialStands

-----------------------------------------------------------------------------
(***************************************************************************)
(* Proofs about the two stores of tokens of ApiCredentials: what a stored  *)
(* record says of the Service Token at Cloudflare and of the tokens at the *)
(* Hub, for any number of coroutines, identities, tokens and restarts.     *)
(*                                                                         *)
(* Both stores are changed by calls that succeed or fail apart from the    *)
(* record, so the record is always behind or ahead of them.  Sound says by *)
(* how much: which of its states name a token that is there, and that the  *)
(* tokens which its fields do not name are of no use to anybody.  Because  *)
(* the lock lets nobody else write meanwhile (first half of the module), a *)
(* coroutine's copy is the stored record, or the stored one with the Hub   *)
(* token it has just been given; the copy is sound as well, and Stand says *)
(* which of the record's states each place inside the lock can meet.       *)
(*                                                                         *)
(* What remains for an action is to show that the record it goes on with   *)
(* is sound again: GotoSound, SaveSound, LeaveSound and StaySound say the  *)
(* rest once for all actions.                                              *)
(***************************************************************************)

\* One of the Service Tokens C is r's, and its secret is known.
Usable(r, C) == \E x \in C : x.id = r.cf /\ x.name = r.owner /\ x.told

\* States that are reached only by the wish of the owner.
Wanted(r) ==
    r.state \in {"issuing", "ready", "rotating_cloudflare", "rotating_jupyterhub"}

\* The record r tells the truth about the Service Tokens C, the Hub tokens H and
\* the owner's wish w.
Sound(r, C, H, w) ==
    /\ r.enabled <=> r.state \notin {"revoking", "disabled"}
    /\ r.state \in {"unissued", "disabled"} => r.cf = NoToken
    /\ r.state = "ready" => r.cf # NoToken
    /\ r.state \in {"issuing", "ready", "rotating_jupyterhub"} /\ r.cf # NoToken => Usable(r, C)
    /\ \A x \in C : x.id = r.cf => x.name = r.owner
    /\ r.state = "disabled" => H = {}
    /\ r.hubTok \in H /\ r.hubTok \notin r.pending => H \subseteq {r.hubTok} \cup r.pending
    /\ Wanted(r) /\ ~Inherited(r) => w # "no"

\* So does the stored record, and the IDs of Service Tokens are unique.
StoreSound ==
    /\ \A x, y \in cf : x.id = y.id => x = y
    /\ TokensOnRecord
    /\ rec # NoRecord => Sound(rec, cf, hub, asked)
    /\ pc[Sync] = "i_wait" => asked # "no"

\* What is true at place p of a coroutine with job j and the record m.
Stand(p, j, m) ==
    /\ p = "i_request" => m.enabled /\ m.state \notin {"ready", "revoking_cloudflare"}
    /\ p = "i_create" =>
          /\ m.cf = NoToken
          /\ m.state \in {"issuing", "rotating_cloudflare", "rotating_jupyterhub"}
    /\ p \in {"i_rotate", "r_rotate"} => m.state = "rotating_cloudflare"
    /\ p = "i_done" => m.state \in {"issuing", "rotating_jupyterhub"} /\ m.cf # NoToken
    /\ p \in {"u_remove", "u_done"} => m.state = "revoking_cloudflare"
    /\ p = "u_done" => m.cf = NoToken
    /\ p \in {"rv_hub", "rv_cf", "d_hub"} => m.state = "revoking"
    /\ p = "rv_delete" => m.state = "disabled"
    /\ p \in {"h_revoke", "h_issue", "h_store", "h_drop"} => m.enabled
    /\ p \in {"h_decide", "h_revoke", "h_issue", "h_store", "h_drop"} => ~Inherited(m)
    /\ p \in {"h_issue", "h_store", "h_drop"} /\ m.hub = "revoked" => j = "hub_rotate"
    /\ p = "h_revoke" => m.hub = "revoked"

\* The record r with the Hub token i, which is not stored yet.
Renewed(r, i) == [r EXCEPT !.hubTok = i]

\* What it knows there of the Hub tokens H.
HubStand(p, m, H) ==
    /\ p = "rv_cf" => H = {}
    /\ p \in {"h_store", "h_drop"} => H \subseteq {m.hubTok} \cup m.pending

\* What it knows there of the owner's wish w; r says who asked for a revocation.
WishStand(p, j, r, w) ==
    /\ p \in {"i_fresh", "i_request"} => j = "issue" \/ w # "no"
    /\ p \in {"i_create", "i_rotate", "i_done"} => w # "no"
    /\ p \in {"rv_hub", "rv_cf", "rv_delete"} /\ r = "issue" => j = "issue" \/ w # "no"

\* Coroutine t is where its record allows it to be.
PlaceSound(t) ==
    /\ job[t] = "sync" => t = Sync
    /\ t = Sync => job[t] \in {"sync", "none"}
    /\ pc[t] = "i_wait" => job[t] \in {"issue", "sync"}
    /\ pc[t] \in {"s_sweep", "s_rows"} => t = Sync
    /\ pc[t] \in Holding \ {"p_remote"} =>
          /\ Sound(mine[t], cf, hub, asked)
          /\ Stand(pc[t], job[t], mine[t])
          /\ HubStand(pc[t], mine[t], hub)
          /\ WishStand(pc[t], job[t], ret[t], asked)
    /\ pc[t] \in Holding /\ rec # NoRecord =>
          \/ mine[t] = rec
          \/ pc[t] = "h_store" /\ mine[t] = Renewed(rec, mine[t].hubTok)
    /\ pc[t] = "p_remote" /\ rec # NoRecord => rec.state = "disabled"

\* The inductive invariant, on top of Inv.
TokInv == StoreSound /\ \A t \in Proc : PlaceSound(t)

-----------------------------------------------------------------------------
(***************************************************************************)
(* What is true of sound records, and what a step has to show.             *)
(***************************************************************************)

\* A Hub token that goes leaves a sound record sound.
LEMMA Shrinks ==
  ASSUME NEW r, NEW C, NEW H, NEW w, NEW G \in SUBSET H, Sound(r, C, H, w)
  PROVE  Sound(r, C, G, w)
  BY DEF Sound

\* A fresh record says nothing that could be wrong.
LEMMA FreshSound ==
  ASSUME NEW o \in Owner, NEW C \in SUBSET CfToken, NEW H \in SUBSET HubId, NEW w
  PROVE  Sound(FreshRecord(o), C, H, w) /\ ~Inherited(FreshRecord(o))
  <1>1. PICK r : r = FreshRecord(o)
    OBVIOUS
  <1>2. r.enabled /\ r.state = "unissued" /\ r.cf = NoToken /\ r.hubTok = NoToken
    BY <1>1 DEF FreshRecord
  <1>3. \A x \in C : x.id \in CfId
    BY DEF CfToken
  <1>4. Sound(r, C, H, w) /\ ~Inherited(r)
    BY <1>2, <1>3, ConstantsAssumption DEF Sound, Wanted, Inherited
  <1> QED
    BY <1>1, <1>4

\* Without a record, or without a token on it, no secret is known.
LEMMA NoneTold ==
  ASSUME Inv, TokensOnRecord, rec = NoRecord \/ rec.cf = NoToken
  PROVE  \A x \in cf : ~x.told
  BY ConstantsAssumption DEF TokensOnRecord, Inv, StoresOK, CfToken

\* Who is inside the lock has a sound copy of the record.
LEMMA Copy ==
  ASSUME Inv, TokInv, NEW t \in Proc, pc[t] \in Holding \ {"p_remote"}
  PROVE  /\ Inside(t) /\ mine[t] \in Record
         /\ Sound(mine[t], cf, hub, asked)
         /\ Stand(pc[t], job[t], mine[t])
         /\ HubStand(pc[t], mine[t], hub)
         /\ WishStand(pc[t], job[t], ret[t], asked)
         /\ rec # NoRecord /\ pc[t] # "h_store" => mine[t] = rec
         /\ rec # NoRecord => mine[t].cf = rec.cf /\ mine[t].owner = rec.owner
  <1>1. Inside(t) /\ mine[t] \in Record
    BY AtWork
  <1>2. PlaceSound(t)
    BY DEF TokInv
  <1>3. rec # NoRecord => rec \in Record
    BY DEF Inv, StoresOK
  <1>4. rec # NoRecord => mine[t].cf = rec.cf /\ mine[t].owner = rec.owner
    BY <1>2, <1>3 DEF PlaceSound, Record, Renewed
  <1> QED
    BY <1>1, <1>2, <1>4 DEF PlaceSound

\* What is left of the invariant when t, inside the lock, has moved.
LEMMA OthersSound ==
  ASSUME Inv, TokInv, NEW t \in Proc, Inside(t),
         \A u \in Proc \ {t} : pc'[u] = pc[u] /\ job'[u] = job[u],
         StoreSound', PlaceSound(t)'
  PROVE  TokInv'
  <1>1. ASSUME NEW u \in Proc \ {t} PROVE PlaceSound(u)'
    <2>1. pc[u] \notin Holding
      BY Alone
    <2>2. PlaceSound(u)
      BY DEF TokInv
    <2> QED
      BY <2>1, <2>2, PlacesDisjoint DEF PlaceSound, Holding, Outside
  <1> QED
    BY <1>1 DEF TokInv

\* t, inside the lock, goes on with the record m.
LEMMA GotoSound ==
  ASSUME Inv, TokInv, NEW t \in Proc, Inside(t),
         NEW p \in Holding \ {"p_remote"}, NEW m, Goto(t, p, m),
         NEW w, ret' = [ret EXCEPT ![t] = w],
         (\A x, y \in cf : x.id = y.id => x = y)', TokensOnRecord',
         rec' # NoRecord => Sound(rec', cf', hub', asked'),
         t # Sync /\ pc[Sync] = "i_wait" => asked' # "no",
         Sound(m, cf', hub', asked'), Stand(p, job[t], m),
         HubStand(p, m, hub'), WishStand(p, job[t], w, asked'),
         rec' # NoRecord => \/ m = rec'
                            \/ p = "h_store" /\ m = Renewed(rec', m.hubTok)
  PROVE  TokInv'
  <1>1. /\ pc'[t] = p /\ mine'[t] = m /\ job'[t] = job[t] /\ ret'[t] = w
        /\ \A u \in Proc \ {t} : pc'[u] = pc[u] /\ job'[u] = job[u]
    BY DEF Goto, Inv, ControlOK
  <1>2. p \notin {"i_wait", "s_sweep", "s_rows"}
    BY DEF Holding
  <1>3. Sync \in Proc
    BY DEF Proc
  <1>4. StoreSound'
    BY <1>1, <1>2, <1>3 DEF StoreSound
  <1>5. PlaceSound(t)
    BY DEF TokInv
  <1>6. PlaceSound(t)'
    BY <1>1, <1>2, <1>5 DEF PlaceSound
  <1> QED
    BY <1>1, <1>4, <1>6, OthersSound

\* The same for a record that is stored as well.
LEMMA SaveSound ==
  ASSUME Inv, TokInv, NEW t \in Proc, Inside(t),
         NEW p \in Holding \ {"p_remote"}, NEW m, Goto(t, p, m),
         NEW w, ret' = [ret EXCEPT ![t] = w],
         UNCHANGED cf, rec' = m,
         rec # NoRecord => m.cf = rec.cf /\ m.owner = rec.owner, m \in Record,
         t # Sync /\ pc[Sync] = "i_wait" => asked' # "no",
         Sound(m, cf, hub', asked'), Stand(p, job[t], m),
         HubStand(p, m, hub'), WishStand(p, job[t], w, asked')
  PROVE  TokInv'
  <1>1. (\A x, y \in cf : x.id = y.id => x = y)'
    BY DEF TokInv, StoreSound
  <1>2. TokensOnRecord'
    BY ConstantsAssumption DEF TokInv, StoreSound, TokensOnRecord
  <1>3. Sound(rec', cf', hub', asked') /\ Sound(m, cf', hub', asked')
    OBVIOUS
  <1> HIDE DEF Sound, Stand, HubStand, WishStand, Goto
  <1> QED
    BY <1>1, <1>2, <1>3, GotoSound

\* t leaves the lock.
LEMMA LeaveSound ==
  ASSUME Inv, TokInv, NEW t \in Proc, Inside(t),
         NEW p \in Waiting \cup Outside, Leave(t, p),
         (\A x, y \in cf : x.id = y.id => x = y)', TokensOnRecord',
         rec' # NoRecord => Sound(rec', cf', hub', asked'),
         t # Sync /\ pc[Sync] = "i_wait" => asked' # "no",
         p = "i_wait" => job[t] = "issue" \/ (job[t] = "sync" /\ asked' # "no"),
         p \in {"s_sweep", "s_rows"} => job[t] = "sync"
  PROVE  TokInv'
  <1>1. /\ pc'[t] = p /\ job'[t] = (IF p = "idle" THEN "none" ELSE job[t])
        /\ \A u \in Proc \ {t} : pc'[u] = pc[u] /\ job'[u] = job[u]
    BY DEF Leave, Outward, Inv, ControlOK
  <1>2. p \notin Holding
    BY PlacesDisjoint
  <1>3. Sync \in Proc
    BY DEF Proc
  <1>4. PlaceSound(t)
    BY DEF TokInv
  <1>5. PlaceSound(t)'
    BY <1>1, <1>2, <1>4 DEF PlaceSound, Holding
  <1>6. StoreSound'
    BY <1>1, <1>3, <1>4 DEF StoreSound, PlaceSound
  <1> QED
    BY <1>1, <1>5, <1>6, OthersSound

\* Nobody inside the lock is disturbed by a Hub token that goes.
LEMMA StaySound ==
  ASSUME Inv, TokInv, UNCHANGED <<rec, cf, asked, pc, job, mine, ret>>,
         hub' \subseteq hub
  PROVE  TokInv'
  <1>1. ASSUME NEW r, Sound(r, cf, hub, asked) PROVE Sound(r, cf', hub', asked')
    BY <1>1, Shrinks
  <1>2. ASSUME NEW u \in Proc PROVE PlaceSound(u)'
    <2>1. PlaceSound(u)
      BY DEF TokInv
    <2>2. HubStand(pc[u], mine[u], hub) => HubStand(pc[u], mine[u], hub')
      BY DEF HubStand
    <2> QED
      BY <1>1, <2>1, <2>2 DEF PlaceSound
  <1>3. StoreSound'
    BY <1>1 DEF TokInv, StoreSound, TokensOnRecord
  <1> QED
    BY <1>2, <1>3 DEF TokInv

\* t, outside the lock, goes on outside it.
LEMMA OutwardSound ==
  ASSUME Inv, TokInv, NEW t \in Proc, pc[t] \notin Holding,
         NEW j \in Job \cup {"sync", "none"}, NEW p \in Waiting \cup Outside,
         Outward(t, j, p, lock), UNCHANGED <<rec, hub, cf, asked, mine>>,
         \A u \in Proc \ {t} : ret'[u] = ret[u],
         j = "sync" => t = Sync, t = Sync => j \in {"sync", "none"},
         p = "i_wait" => j = "issue",
         p \in {"s_sweep", "s_rows"} => t = Sync
  PROVE  TokInv'
  <1>1. /\ pc'[t] = p /\ job'[t] = (IF p = "idle" THEN "none" ELSE j)
        /\ \A u \in Proc \ {t} : pc'[u] = pc[u] /\ job'[u] = job[u]
    BY DEF Outward, Inv, ControlOK
  <1>2. p \notin Holding
    BY PlacesDisjoint
  <1>3. ASSUME NEW u \in Proc PROVE PlaceSound(u)'
    <2>1. PlaceSound(u)
      BY DEF TokInv
    <2>2. CASE u = t
      BY <1>1, <1>2, <2>1, <2>2 DEF PlaceSound, Holding
    <2>3. CASE u # t
      BY <1>1, <2>1, <2>3 DEF PlaceSound
    <2> QED
      BY <2>2, <2>3
  <1>4. Sync \in Proc
    BY DEF Proc
  <1>5. StoreSound'
    BY <1>1, <1>4 DEF TokInv, StoreSound, TokensOnRecord
  <1> QED
    BY <1>3, <1>5 DEF TokInv

\* What is stored is sound.
LEMMA Stored ==
  ASSUME Inv, TokInv
  PROVE  /\ \A x, y \in cf : x.id = y.id => x = y
         /\ TokensOnRecord
         /\ rec # NoRecord => Sound(rec, cf, hub, asked) /\ rec \in Record
         /\ pc[Sync] = "i_wait" => asked # "no"
         /\ cf \subseteq CfToken /\ hub \subseteq HubId
         /\ Sync \in Proc
  BY DEF TokInv, StoreSound, Inv, StoresOK, Proc

\* Who leaves without having changed anything leaves all sound.
LEMMA QuitSound ==
  ASSUME Inv, TokInv, NEW t \in Proc, Inside(t),
         NEW p \in Waiting \cup Outside, Leave(t, p),
         UNCHANGED <<rec, cf, asked>>, hub' \subseteq hub,
         p = "i_wait" => job[t] = "issue" \/ (job[t] = "sync" /\ asked # "no"),
         p \in {"s_sweep", "s_rows"} => job[t] = "sync"
  PROVE  TokInv'
  <1>1. rec' # NoRecord => Sound(rec', cf', hub', asked')
    BY Stored, Shrinks
  <1>2. (\A x, y \in cf : x.id = y.id => x = y)' /\ TokensOnRecord'
    BY Stored DEF TokensOnRecord
  <1>3. pc[Sync] = "i_wait" => asked' # "no"
    BY Stored
  <1> HIDE DEF Sound, Leave
  <1> QED
    BY <1>1, <1>2, <1>3, LeaveSound

\* A failure ends the use case.
LEMMA FailureSound ==
  ASSUME Inv, TokInv, NEW t \in Proc, pc[t] \in Holding, Leave(t, OnError(t)),
         UNCHANGED <<rec, cf, asked>>, hub' \subseteq hub
  PROVE  TokInv'
  <1>1. Inside(t)
    BY Holder
  <1>2. OnError(t) = "idle" \/ (OnError(t) = "s_rows" /\ job[t] = "sync")
    BY DEF OnError
  <1>3. OnError(t) \in Waiting \cup Outside
    BY <1>2 DEF Outside
  <1> QED
    BY <1>1, <1>2, <1>3, QuitSound

-----------------------------------------------------------------------------
(***************************************************************************)
(* The revocation.                                                         *)
(***************************************************************************)

\* A denied record is sound if the record was, whatever the owner wished.
LEMMA DeniedSound ==
  ASSUME NEW r \in Record, NEW C \in SUBSET CfToken, NEW H \in SUBSET HubId,
         NEW w, NEW v, Sound(r, C, H, w)
  PROVE  /\ Denied(r) \in Record /\ Denied(r).state = "revoking"
         /\ Denied(r).cf = r.cf /\ Denied(r).owner = r.owner
         /\ Sound(Denied(r), C, H, v)
  <1>1. PICK d : d = Denied(r)
    OBVIOUS
  <1>2. /\ d.enabled = FALSE /\ d.state = "revoking" /\ d.cf = r.cf /\ d.owner = r.owner
        /\ d.hubTok = r.hubTok /\ d.pending = r.pending
    BY <1>1 DEF Denied, Record
  <1>3. Sound(d, C, H, v)
    BY <1>2 DEF Sound, Wanted
  <1> QED
    BY <1>1, <1>2, <1>3, Reads

\* A revocation begins, whoever begins it.
LEMMA BeginRevocationSound ==
  ASSUME Inv, TokInv, NEW t \in Proc, Inside(t), rec # NoRecord,
         NEW w, BeginRevocation(t, rec, w), UNCHANGED <<hub, cf>>,
         w = "issue" => pc[t] = "i_wait"
  PROVE  TokInv'
  <1>1. /\ Denied(rec) \in Record /\ Denied(rec).state = "revoking"
        /\ Denied(rec).cf = rec.cf /\ Denied(rec).owner = rec.owner
        /\ Sound(Denied(rec), cf, hub, asked')
    BY Stored, DeniedSound
  <1>2. /\ rec' = Denied(rec) /\ Goto(t, "rv_hub", Denied(rec))
        /\ ret' = [ret EXCEPT ![t] = w] /\ asked' = Withdrawn
    BY DEF BeginRevocation
  <1>3. pc[Sync] = "i_wait" => asked' # "no"
    BY <1>2 DEF Withdrawn
  <1>4. PlaceSound(t)
    BY DEF TokInv
  <1>5. WishStand("rv_hub", job[t], w, asked')
    BY <1>2, <1>3, <1>4 DEF PlaceSound, WishStand
  <1>6. Stand("rv_hub", job[t], Denied(rec)) /\ HubStand("rv_hub", Denied(rec), hub)
    BY <1>1 DEF Stand, HubStand
  <1>7. "rv_hub" \in Holding \ {"p_remote"}
    BY DEF Holding
  <1> HIDE DEF Sound, Stand, HubStand, WishStand, Goto, Denied
  <1> QED
    BY <1>1, <1>2, <1>3, <1>5, <1>6, <1>7, SaveSound

\* It is complete when no Hub token and no known secret is left.
LEMMA CompleteRevocationSound ==
  ASSUME Inv, TokInv, NEW t \in Proc, pc[t] \in {"rv_hub", "rv_cf"},
         CompleteRevocation(t), hub = {}, UNCHANGED <<hub, asked>>,
         cf' = {x \in cf : x.id # mine[t].cf}
  PROVE  TokInv'
  <1>1. /\ Inside(t) /\ mine[t] \in Record
        /\ rec # NoRecord => mine[t].cf = rec.cf /\ mine[t].owner = rec.owner
        /\ WishStand(pc[t], job[t], ret[t], asked)
    BY Copy DEF Holding
  <1>2. PICK d : d = Disabled(mine[t])
    OBVIOUS
  <1>3. d.enabled = FALSE /\ d.state = "disabled" /\ d.cf = NoToken
    BY <1>2 DEF Disabled, FreshRecord
  <1>4. \A x \in cf' : ~x.told
    BY <1>1, Stored DEF TokensOnRecord
  <1>5. cf' \subseteq cf /\ \A x \in cf' : x.id # NoToken
    BY Stored, ConstantsAssumption DEF CfToken
  <1>6. Sound(d, cf', hub', asked')
    BY <1>3, <1>5 DEF Sound, Wanted
  <1>7. (\A x, y \in cf : x.id = y.id => x = y)' /\ TokensOnRecord'
    BY <1>4, <1>5, Stored DEF TokensOnRecord
  <1>8. rec' = d
    BY <1>2 DEF CompleteRevocation
  <1>9. pc[Sync] = "i_wait" => asked' # "no"
    BY Stored
  <1>10. CASE ret[t] \in Heirs /\ Goto(t, "rv_delete", d) /\ UNCHANGED <<me, ret>>
    <2>1. ret' = [ret EXCEPT ![t] = ret[t]]
      BY <1>10 DEF Inv, ControlOK
    <2>2. "rv_delete" \in Holding \ {"p_remote"}
      BY DEF Holding
    <2>3. /\ Stand("rv_delete", job[t], d) /\ HubStand("rv_delete", d, hub')
          /\ WishStand("rv_delete", job[t], ret[t], asked')
      BY <1>1, <1>3 DEF Stand, HubStand, WishStand
    <2> HIDE DEF Sound, Stand, HubStand, WishStand, Goto
    <2> QED
      BY <1>1, <1>6, <1>7, <1>8, <1>9, <1>10, <2>1, <2>2, <2>3, GotoSound
  <1>11. CASE Leave(t, AfterRevoke(t))
    <2>1. AfterRevoke(t) \in Waiting \cup Outside /\ AfterRevoke(t) # "i_wait"
          /\ (AfterRevoke(t) \in {"s_sweep", "s_rows"} => job[t] = "sync")
      BY DEF AfterRevoke, Outside
    <2> HIDE DEF Sound, Leave
    <2> QED
      BY <1>1, <1>6, <1>7, <1>8, <1>9, <1>11, <2>1, LeaveSound
  <1> QED
    BY <1>2, <1>10, <1>11 DEF CompleteRevocation, Heirs

\* Every step of a revocation keeps the record sound.
LEMMA RevokeSound ==
  ASSUME Inv, TokInv, NEW t \in Proc, Revoke(t)
  PROVE  TokInv'
  <1>1. CASE RevokeEnter(t)
    <2>1. Inside(t) /\ pc[t] = "rv_wait" /\ UNCHANGED <<hub, cf>>
      BY <1>1 DEF RevokeEnter, Enter, Inside
    <2>2. CASE rec # NoRecord /\ BeginRevocation(t, rec, ret[t])
      <3>1. ret[t] # "issue"
        BY <2>1 DEF Inv, LocalOK, Heirs
      <3> QED
        BY <2>1, <2>2, <3>1, BeginRevocationSound
    <2>3. CASE Leave(t, AfterRevoke(t)) /\ UNCHANGED <<rec, asked>>
      <3>1. AfterRevoke(t) \in Waiting \cup Outside /\ AfterRevoke(t) # "i_wait"
            /\ (AfterRevoke(t) \in {"s_sweep", "s_rows"} => job[t] = "sync")
        BY DEF AfterRevoke, Outside
      <3> QED
        BY <2>1, <2>3, <3>1, QuitSound
    <2> QED
      BY <1>1, <2>2, <2>3 DEF RevokeEnter
  <1>2. CASE RevokeHub(t)
    <2>1. pc[t] = "rv_hub" /\ pc[t] \in Holding \ {"p_remote"} /\ UNCHANGED <<cf, asked>>
      BY <1>2 DEF RevokeHub, Holding
    <2>2. CASE /\ DeleteHubToken(Revocable(mine[t]), mine[t].hubTok)
               /\ UNCHANGED <<rec, control, me, ret>>
      BY <2>1, <2>2, StaySound DEF DeleteHubToken, control
    <2>3. CASE /\ Revocable(mine[t]) = {} /\ Goto(t, "rv_cf", mine[t])
               /\ UNCHANGED <<rec, hub, me, ret>>
      <3>1. hub = {}
        BY <2>3 DEF Revocable
      <3>2. /\ Inside(t) /\ Sound(mine[t], cf, hub, asked) /\ Stand(pc[t], job[t], mine[t])
            /\ WishStand(pc[t], job[t], ret[t], asked) /\ (rec # NoRecord => mine[t] = rec)
        BY <2>1, Copy
      <3>3. ret' = [ret EXCEPT ![t] = ret[t]]
        BY <2>3 DEF Inv, ControlOK
      <3>4. /\ Stand("rv_cf", job[t], mine[t]) /\ HubStand("rv_cf", mine[t], hub')
            /\ WishStand("rv_cf", job[t], ret[t], asked')
        BY <2>1, <2>3, <3>1, <3>2 DEF Stand, HubStand, WishStand
      <3>5. TokensOnRecord' /\ (\A x, y \in cf : x.id = y.id => x = y)'
        BY <2>1, <2>3, Stored DEF TokensOnRecord
      <3>6. "rv_cf" \in Holding \ {"p_remote"}
        BY DEF Holding
      <3> HIDE DEF Sound, Stand, HubStand, WishStand, Goto
      <3> QED
        BY <2>1, <2>3, <3>2, <3>3, <3>4, <3>5, <3>6, Stored, GotoSound
    <2>4. CASE /\ Revocable(mine[t]) = {} /\ mine[t].cf = NoToken
               /\ CompleteRevocation(t) /\ UNCHANGED hub
      <3>1. cf' = {x \in cf : x.id # mine[t].cf}
        BY <2>1, <2>4, Stored, ConstantsAssumption DEF CfToken
      <3>2. hub = {}
        BY <2>4 DEF Revocable
      <3> QED
        BY <2>1, <2>4, <3>1, <3>2, CompleteRevocationSound
    <2> QED
      BY <1>2, <2>2, <2>3, <2>4 DEF RevokeHub
  <1>3. ASSUME NEW told \in BOOLEAN, RevokeCloudflare(t, told) PROVE TokInv'
    <2>1. /\ pc[t] = "rv_cf" /\ pc[t] \in Holding \ {"p_remote"} /\ UNCHANGED <<hub, asked>>
          /\ cf' = {x \in cf : x.id # mine[t].cf}
      BY <1>3 DEF RevokeCloudflare, Holding
    <2>2. /\ hub = {} /\ Inside(t)
          /\ rec # NoRecord => mine[t] = rec /\ rec.state = "revoking"
      BY <2>1, Copy DEF HubStand, Stand
    <2>3. CASE CompleteRevocation(t)
      BY <2>1, <2>2, <2>3, CompleteRevocationSound
    <2>4. CASE Leave(t, OnError(t)) /\ UNCHANGED rec
      <3>1. OnError(t) \in Waiting \cup Outside /\ OnError(t) # "i_wait"
            /\ (OnError(t) \in {"s_sweep", "s_rows"} => job[t] = "sync")
        BY DEF OnError, Outside
      <3>2. rec # NoRecord => Sound(rec, cf', hub, asked)
        BY <2>1, <2>2, Stored DEF Sound, Wanted
      <3>3. TokensOnRecord' /\ (\A x, y \in cf : x.id = y.id => x = y)'
        BY <2>1, <2>4, Stored DEF TokensOnRecord
      <3> HIDE DEF Sound, Leave
      <3> QED
        BY <2>1, <2>2, <2>4, <3>1, <3>2, <3>3, Stored, LeaveSound
    <2> QED
      BY <1>3, <2>3, <2>4 DEF RevokeCloudflare
  <1>4. CASE RevokeDelete(t)
    <2>1. /\ pc[t] = "rv_delete" /\ pc[t] \in Holding \ {"p_remote"} /\ UNCHANGED <<hub, cf, asked>>
          /\ rec' = NoRecord /\ ret' = ret
      BY <1>4 DEF RevokeDelete, Holding
    <2>2. /\ Inside(t) /\ Sound(mine[t], cf, hub, asked) /\ Stand(pc[t], job[t], mine[t])
          /\ WishStand(pc[t], job[t], ret[t], asked)
          /\ (rec # NoRecord => mine[t].cf = rec.cf)
      BY <2>1, Copy
    <2>3. me[t] \in Owner /\ ret[t] \in Heirs
      BY <2>1 DEF Inv, LocalOK, Revoking
    <2>4. PICK p : /\ p = (IF ret[t] = "issue" THEN "i_fresh" ELSE "h_decide")
                   /\ Goto(t, p, FreshRecord(me[t]))
      BY <1>4 DEF RevokeDelete
    <2>5. PICK m : m = FreshRecord(me[t])
      OBVIOUS
    <2>6. Sound(m, cf', hub', asked') /\ ~Inherited(m)
      BY <2>1, <2>3, <2>5, Stored, FreshSound
    <2>7. Stand(p, job[t], m) /\ HubStand(p, m, hub') /\ WishStand(p, job[t], ret[t], asked')
      BY <2>1, <2>2, <2>4, <2>6 DEF Stand, HubStand, WishStand
    <2>8. \A x \in cf : ~x.told
      BY <2>1, <2>2, Stored, NoneTold DEF Sound, Stand
    <2>9. TokensOnRecord' /\ (\A x, y \in cf : x.id = y.id => x = y)'
      BY <2>1, <2>8, Stored DEF TokensOnRecord
    <2>10. p \in Holding \ {"p_remote"} /\ ret' = [ret EXCEPT ![t] = ret[t]]
      BY <2>1, <2>4 DEF Holding, Inv, ControlOK
    <2> HIDE DEF Sound, Stand, HubStand, WishStand, Goto
    <2> QED
      BY <2>1, <2>2, <2>4, <2>5, <2>6, <2>7, <2>9, <2>10, Stored, GotoSound
  <1> QED
    BY <1>1, <1>2, <1>3, <1>4 DEF Revoke

-----------------------------------------------------------------------------
(***************************************************************************)
(* Issuing and reissuing the Service Token.                                *)
(***************************************************************************)

\* A record without a Service Token is sound whatever exists at Cloudflare.
LEMMA Tokenless ==
  ASSUME NEW r, NEW C, NEW D \in SUBSET CfToken, NEW H, NEW w,
         Sound(r, C, H, w), r.cf = NoToken
  PROVE  Sound(r, D, H, w)
  BY ConstantsAssumption DEF Sound, CfToken

\* The entry of an issue, with the record it found or made.
LEMMA IssueStartSound ==
  ASSUME Inv, TokInv, NEW t \in Proc, Inside(t), NEW r \in Record,
         Sound(r, cf, hub, asked),
         rec # NoRecord => r.cf = rec.cf /\ r.owner = rec.owner,
         IssueStart(t, r), UNCHANGED <<hub, cf, asked>>,
         job[t] = "issue" \/ asked # "no"
  PROVE  TokInv'
  <1>1. rec' = r
    BY DEF IssueStart
  <1>2. CASE r.enabled /\ r.state # "revoking_cloudflare" /\ ~Available(r)
             /\ Goto(t, "i_request", r) /\ UNCHANGED <<me, ret>>
    <2>1. ret' = [ret EXCEPT ![t] = ret[t]]
      BY <1>2 DEF Inv, ControlOK
    <2>2. /\ Stand("i_request", job[t], r) /\ HubStand("i_request", r, hub')
          /\ WishStand("i_request", job[t], ret[t], asked')
      BY <1>2 DEF Stand, HubStand, WishStand, Available
    <2>3. "i_request" \in Holding \ {"p_remote"}
      BY DEF Holding
    <2> HIDE DEF Sound, Stand, HubStand, WishStand, Goto
    <2> QED
      BY <1>1, <1>2, <2>1, <2>2, <2>3, Stored, SaveSound
  <1>3. CASE Leave(t, "idle")
    <2>1. TokensOnRecord' /\ (\A x, y \in cf : x.id = y.id => x = y)'
      BY <1>1, Stored, ConstantsAssumption DEF TokensOnRecord
    <2>2. "idle" \in Waiting \cup Outside
      BY DEF Outside
    <2> HIDE DEF Sound, Leave
    <2> QED
      BY <1>1, <1>3, <2>1, <2>2, Stored, LeaveSound
  <1> QED
    BY <1>2, <1>3 DEF IssueStart

\* A rotation at Cloudflare: the recorded token is the only one whose secret can
\* be known, and it is known if the answer has arrived.
LEMMA RotateTokenSound ==
  ASSUME Inv, TokInv, NEW t \in Proc, pc[t] \in {"i_rotate", "r_rotate"},
         NEW told \in BOOLEAN, RotateToken(t, told), UNCHANGED <<hub, asked>>
  PROVE  /\ (\A x, y \in cf : x.id = y.id => x = y)'
         /\ \A x \in cf' : x.told => told /\ x.id = mine[t].cf
         /\ \A x \in cf' : x.id = mine[t].cf => x.name = mine[t].owner
         /\ told => Usable(mine[t], cf') /\ mine[t].cf # NoToken
         /\ Sound(mine[t], cf', hub', asked') /\ asked # "no"
  <1>1. /\ mine[t] \in Record /\ Sound(mine[t], cf, hub, asked)
        /\ Stand(pc[t], job[t], mine[t])
        /\ rec # NoRecord => mine[t].cf = rec.cf
    BY Copy DEF Holding
  <1>2. mine[t].state = "rotating_cloudflare"
    BY <1>1 DEF Stand
  <1>3. PICK x \in cf : /\ x.id = mine[t].cf
                        /\ cf' = (cf \ {x}) \cup {[x EXCEPT !.told = told]}
    BY DEF RotateToken
  <1>4. PICK z : z = [x EXCEPT !.told = told]
    OBVIOUS
  <1>5. z.id = x.id /\ z.name = x.name /\ z.told = told /\ x.id \in CfId
    BY <1>4, Stored DEF CfToken
  <1>6. x.name = mine[t].owner
    BY <1>1, <1>3 DEF Sound
  <1>7. (\A u, y \in cf : u.id = y.id => u = y)'
    <2>1. cf' = (cf \ {x}) \cup {z}
      BY <1>3, <1>4
    <2> QED
      BY <1>5, <2>1, Stored
  <1>8. \A y \in cf' : y.told => told /\ y.id = mine[t].cf
    BY <1>1, <1>3, <1>4, <1>5, Stored DEF TokensOnRecord
  <1>9. \A y \in cf' : y.id = mine[t].cf => y.name = mine[t].owner
    BY <1>3, <1>4, <1>5, <1>6, <1>7
  <1>10. told => Usable(mine[t], cf') /\ mine[t].cf # NoToken
    BY <1>3, <1>4, <1>5, <1>6, ConstantsAssumption DEF Usable
  <1>11. Sound(mine[t], cf', hub', asked') /\ asked # "no"
    BY <1>1, <1>2, <1>9 DEF Sound, Wanted, Inherited
  <1> QED
    BY <1>7, <1>8, <1>9, <1>10, <1>11

\* A call by which the recorded token's secret has become known completes the
\* record.
LEMMA Completed ==
  ASSUME NEW r \in Record, NEW C, NEW D, NEW H, NEW w, Sound(r, C, H, w),
         \A x \in D : x.id = r.cf => x.name = r.owner,
         r.cf # NoToken, r.enabled, Usable(r, D), w # "no",
         NEW s \in {"issuing", "ready"}
  PROVE  /\ [r EXCEPT !.state = s] \in Record
         /\ [r EXCEPT !.state = s].cf = r.cf
         /\ [r EXCEPT !.state = s].owner = r.owner
         /\ [r EXCEPT !.state = s].state = s
         /\ Sound([r EXCEPT !.state = s], D, H, w)
  <1>1. PICK d : d = [r EXCEPT !.state = s]
    OBVIOUS
  <1>2. /\ d \in Record /\ d.state = s /\ d.cf = r.cf /\ d.owner = r.owner
        /\ d.enabled = r.enabled /\ d.hubTok = r.hubTok /\ d.pending = r.pending
    BY <1>1 DEF Record, CredentialState
  <1>3. Usable(d, D)
    BY <1>2 DEF Usable
  <1>4. Sound(d, D, H, w)
    BY <1>2, <1>3 DEF Sound
  <1> QED
    BY <1>1, <1>2, <1>4

\* An issue at Cloudflare: whether a token was found by its name or created, it is
\* the only one whose secret can be known, and only if the answer has arrived.
LEMMA IssueCreateSound ==
  ASSUME Inv, TokInv, NEW t \in Proc, NEW told \in BOOLEAN, IssueCreate(t, told)
  PROVE  TokInv'
  <1>1. /\ pc[t] = "i_create" /\ pc[t] \in Holding \ {"p_remote"}
        /\ UNCHANGED <<hub, asked>>
    BY DEF IssueCreate, Holding
  <1>2. /\ Inside(t) /\ mine[t] \in Record
        /\ Sound(mine[t], cf, hub, asked) /\ Stand(pc[t], job[t], mine[t])
        /\ WishStand(pc[t], job[t], ret[t], asked)
        /\ rec # NoRecord => mine[t] = rec
    BY <1>1, Copy
  <1>3. /\ mine[t].cf = NoToken /\ asked # "no"
        /\ mine[t].state \in {"issuing", "rotating_cloudflare", "rotating_jupyterhub"}
    BY <1>1, <1>2 DEF Stand, WishStand
  <1> DEFINE named == {x \in cf : x.name = mine[t].owner}
  <1>4. PICK i : /\ i \in IF named = {} THEN NewCfIds ELSE {x.id : x \in named}
                 /\ cf' = (cf \ named) \cup {[id |-> i, name |-> mine[t].owner, told |-> told]}
                 /\ Answer(t, told, AfterCreate([mine[t] EXCEPT !.cf = i]),
                           [mine[t] EXCEPT !.cf = i])
    BY DEF IssueCreate
  <1>5. PICK z : z = [id |-> i, name |-> mine[t].owner, told |-> told]
    OBVIOUS
  <1>6. z.id = i /\ z.name = mine[t].owner /\ z.told = told
    BY <1>5
  <1>7. i \in CfId /\ i # NoToken
    BY <1>4, Stored, ConstantsAssumption DEF NewCfIds, OneOf, CfToken
  <1>8. \A y \in cf \ named : y.id # i
    <2>1. CASE named = {}
      BY <1>4, <2>1 DEF NewCfIds, OneOf
    <2>2. CASE named # {}
      BY <1>4, <2>2, Stored
    <2> QED
      BY <2>1, <2>2
  <1>9. (\A x, y \in cf : x.id = y.id => x = y)'
    BY <1>4, <1>5, <1>6, <1>8, Stored
  <1>10. \A x \in cf : ~x.told
    BY <1>2, <1>3, Stored, NoneTold
  <1>11. \A x \in cf' : /\ x.told => told /\ x = z
                        /\ x.id = i => x = z
    BY <1>4, <1>5, <1>6, <1>8, <1>10
  <1>12. cf' \subseteq CfToken /\ z \in cf'
    <2>1. z \in CfToken
      BY <1>2, <1>5, <1>7, Reads DEF CfToken
    <2> QED
      BY <1>4, <1>5, <2>1, Stored
  <1>13. PICK r : r = [mine[t] EXCEPT !.cf = i]
    OBVIOUS
  <1>14. /\ r \in Record /\ r.cf = i /\ r.owner = mine[t].owner /\ r.state = mine[t].state
         /\ r.enabled = mine[t].enabled /\ r.hubTok = mine[t].hubTok
         /\ r.pending = mine[t].pending
    BY <1>2, <1>7, <1>13 DEF Record
  <1>15. pc[Sync] = "i_wait" => asked' # "no"
    BY <1>1, Stored
  <1>16. CASE told /\ rec' = r /\ Goto(t, AfterCreate(r), r) /\ UNCHANGED <<me, ret>>
    <2>1. Usable(r, cf')
      BY <1>6, <1>12, <1>14, <1>16 DEF Usable
    <2>2. Sound(r, cf', hub', asked')
      BY <1>1, <1>2, <1>3, <1>6, <1>11, <1>14, <2>1 DEF Sound
    <2>3. TokensOnRecord'
      BY <1>2, <1>6, <1>11, <1>14, <1>16, Reads, ConstantsAssumption DEF TokensOnRecord
    <2>4. PICK p : p = AfterCreate(r)
      OBVIOUS
    <2>5. /\ Stand(p, job[t], r) /\ HubStand(p, r, hub')
          /\ WishStand(p, job[t], ret[t], asked')
          /\ p \in Holding \ {"p_remote"}
      BY <1>1, <1>3, <1>7, <1>14, <2>4 DEF AfterCreate, Stand, HubStand, WishStand, Holding
    <2>6. ret' = [ret EXCEPT ![t] = ret[t]]
      BY <1>16 DEF Inv, ControlOK
    <2> HIDE DEF Sound, Stand, HubStand, WishStand, Goto, named
    <2> QED
      BY <1>2, <1>9, <1>15, <1>16, <2>2, <2>3, <2>4, <2>5, <2>6, GotoSound
  <1>17. CASE ~told /\ UNCHANGED rec /\ Leave(t, OnError(t))
    <2>1. OnError(t) \in Waiting \cup Outside /\ OnError(t) # "i_wait"
          /\ (OnError(t) \in {"s_sweep", "s_rows"} => job[t] = "sync")
      BY DEF OnError, Outside
    <2>2. rec' # NoRecord => Sound(rec', cf', hub', asked')
      BY <1>1, <1>2, <1>3, <1>12, <1>17, Tokenless
    <2>3. TokensOnRecord'
      BY <1>11, <1>17 DEF TokensOnRecord
    <2> HIDE DEF Sound, Leave, named
    <2> QED
      BY <1>2, <1>9, <1>15, <1>17, <2>1, <2>2, <2>3, LeaveSound
  <1> QED
    BY <1>4, <1>13, <1>16, <1>17 DEF Answer

\* The rotation that an issue resumes.
LEMMA IssueRotateSound ==
  ASSUME Inv, TokInv, NEW t \in Proc, NEW told \in BOOLEAN, IssueRotate(t, told)
  PROVE  TokInv'
  <1>1. /\ pc[t] = "i_rotate" /\ pc[t] \in Holding \ {"p_remote"}
        /\ RotateToken(t, told) /\ UNCHANGED <<hub, asked>>
        /\ Answer(t, told, "i_done", [mine[t] EXCEPT !.state = "issuing"])
    BY DEF IssueRotate, Holding
  <1>2. /\ Inside(t) /\ mine[t] \in Record
        /\ Sound(mine[t], cf, hub, asked) /\ Stand(pc[t], job[t], mine[t])
        /\ rec # NoRecord => mine[t] = rec
    BY <1>1, Copy
  <1>3. /\ (\A x, y \in cf : x.id = y.id => x = y)'
        /\ \A x \in cf' : x.told => told /\ x.id = mine[t].cf
        /\ \A x \in cf' : x.id = mine[t].cf => x.name = mine[t].owner
        /\ told => Usable(mine[t], cf') /\ mine[t].cf # NoToken
        /\ Sound(mine[t], cf', hub', asked') /\ asked # "no"
    BY <1>1, RotateTokenSound
  <1>4. pc[Sync] = "i_wait" => asked' # "no"
    BY <1>1, Stored
  <1>5. mine[t].enabled
    BY <1>1, <1>2 DEF Sound, Stand
  <1>6. PICK r : r = [mine[t] EXCEPT !.state = "issuing"]
    OBVIOUS
  <1>7. CASE told /\ rec' = r /\ Goto(t, "i_done", r) /\ UNCHANGED <<me, ret>>
    <2>1. /\ r \in Record /\ r.cf = mine[t].cf /\ r.owner = mine[t].owner
          /\ r.state = "issuing" /\ Sound(r, cf', hub', asked')
      BY <1>1, <1>2, <1>3, <1>5, <1>6, <1>7, Completed
    <2>2. TokensOnRecord'
      BY <1>3, <1>7, <2>1, Reads DEF TokensOnRecord
    <2>3. /\ Stand("i_done", job[t], r) /\ HubStand("i_done", r, hub')
          /\ WishStand("i_done", job[t], ret[t], asked')
          /\ "i_done" \in Holding \ {"p_remote"}
      BY <1>1, <1>3, <1>7, <2>1 DEF Stand, HubStand, WishStand, Holding
    <2>4. ret' = [ret EXCEPT ![t] = ret[t]]
      BY <1>7 DEF Inv, ControlOK
    <2> HIDE DEF Sound, Stand, HubStand, WishStand, Goto
    <2> QED
      BY <1>2, <1>3, <1>4, <1>7, <2>1, <2>2, <2>3, <2>4, GotoSound
  <1>8. CASE ~told /\ UNCHANGED rec /\ Leave(t, OnError(t))
    <2>1. OnError(t) \in Waiting \cup Outside /\ OnError(t) # "i_wait"
          /\ (OnError(t) \in {"s_sweep", "s_rows"} => job[t] = "sync")
      BY DEF OnError, Outside
    <2>2. TokensOnRecord'
      BY <1>3, <1>8 DEF TokensOnRecord
    <2> HIDE DEF Sound, Leave
    <2> QED
      BY <1>2, <1>3, <1>4, <1>8, <2>1, <2>2, LeaveSound
  <1> QED
    BY <1>1, <1>6, <1>7, <1>8 DEF Answer

\* Every step of an issue keeps the record sound.
LEMMA IssueSound ==
  ASSUME Inv, TokInv, NEW t \in Proc, Issue(t)
  PROVE  TokInv'
  <1>1. CASE IssueEnter(t)
    <2>1. Inside(t) /\ pc[t] = "i_wait" /\ UNCHANGED <<hub, cf>>
      BY <1>1 DEF IssueEnter, Enter, Inside
    <2>2. job[t] = "issue" \/ asked # "no"
      BY <2>1, Stored DEF TokInv, PlaceSound
    <2>3. CASE Leave(t, "idle") /\ UNCHANGED <<rec, asked>>
      BY <2>1, <2>3, QuitSound DEF Outside
    <2>4. CASE rec # NoRecord /\ BeginRevocation(t, rec, "issue")
      BY <2>1, <2>4, BeginRevocationSound
    <2>5. CASE Mine(rec) /\ IssueStart(t, rec) /\ UNCHANGED asked
      BY <2>1, <2>2, <2>5, Stored, IssueStartSound DEF Mine
    <2>6. CASE /\ account # NoAccount /\ rec = NoRecord
               /\ IssueStart(t, FreshRecord(account)) /\ UNCHANGED asked
      <3>1. account \in Owner
        BY <2>6 DEF Inv, StoresOK
      <3>2. Sound(FreshRecord(account), cf, hub, asked) /\ FreshRecord(account) \in Record
        BY <3>1, Stored, FreshSound, Fresh
      <3> QED
        BY <2>1, <2>2, <2>6, <3>2, IssueStartSound
    <2> QED
      BY <1>1, <2>3, <2>4, <2>5, <2>6 DEF IssueEnter
  <1>2. CASE IssueFresh(t)
    <2>1. pc[t] = "i_fresh" /\ pc[t] \in Holding \ {"p_remote"} /\ UNCHANGED <<hub, cf, asked>>
      BY <1>2 DEF IssueFresh, Holding
    <2>2. job[t] = "issue" \/ asked # "no"
      BY <2>1, Copy DEF WishStand
    <2> QED
      BY <1>2, <2>1, <2>2, Copy, IssueStartSound DEF IssueFresh
  <1>3. CASE IssueRequest(t)
    <2>1. /\ pc[t] = "i_request" /\ pc[t] \in Holding \ {"p_remote"}
          /\ UNCHANGED <<hub, cf, me, ret>>
          /\ asked' = IF job[t] = "issue" THEN "yes" ELSE asked
      BY <1>3 DEF IssueRequest, Holding
    <2>2. PICK r, p : /\ r = [mine[t] EXCEPT !.requested = TRUE,
                                  !.state = IF @ = "unissued" THEN "issuing" ELSE @]
                      /\ rec' = r /\ Goto(t, p, r)
                      /\ p = IF r.cf = NoToken THEN "i_create" ELSE AfterCreate(r)
      BY <1>3 DEF IssueRequest
    <2>3. /\ Inside(t) /\ mine[t] \in Record
          /\ Sound(mine[t], cf, hub, asked) /\ Stand(pc[t], job[t], mine[t])
          /\ WishStand(pc[t], job[t], ret[t], asked)
          /\ rec # NoRecord => mine[t] = rec
      BY <2>1, Copy
    <2>4. /\ r \in Record /\ r.cf = mine[t].cf /\ r.owner = mine[t].owner
          /\ r.state = (IF mine[t].state = "unissued" THEN "issuing" ELSE mine[t].state)
          /\ r.enabled = mine[t].enabled /\ r.hubTok = mine[t].hubTok
          /\ r.pending = mine[t].pending
      BY <2>2, <2>3 DEF Record, CredentialState
    <2>5. /\ asked' # "no" /\ mine[t].enabled /\ mine[t].state \in CredentialState
          /\ mine[t].state \notin {"ready", "revoking_cloudflare"}
      BY <2>1, <2>3, Reads DEF Stand, WishStand
    <2>6. r.state \in {"issuing", "rotating_cloudflare", "rotating_jupyterhub"}
      BY <2>3, <2>4, <2>5 DEF Sound, CredentialState
    <2>7. Usable(mine[t], cf) => Usable(r, cf)
      BY <2>4 DEF Usable
    <2>8. Sound(r, cf, hub, asked')
      BY <2>3, <2>4, <2>5, <2>6, <2>7 DEF Sound
    <2>9. /\ Stand(p, job[t], r) /\ HubStand(p, r, hub')
          /\ WishStand(p, job[t], ret[t], asked')
          /\ p \in Holding \ {"p_remote"}
      BY <2>2, <2>5, <2>6 DEF AfterCreate, Stand, HubStand, WishStand, Holding
    <2>10. ret' = [ret EXCEPT ![t] = ret[t]]
      BY <2>1 DEF Inv, ControlOK
    <2>11. rec' = r /\ Goto(t, p, r) /\ UNCHANGED cf /\ Sound(r, cf, hub', asked')
      BY <2>1, <2>2, <2>8
    <2> HIDE DEF Sound, Stand, HubStand, WishStand, Goto
    <2> QED
      BY <2>3, <2>4, <2>5, <2>9, <2>10, <2>11, SaveSound
  <1>4. CASE \E told \in BOOLEAN : IssueCreate(t, told) \/ IssueRotate(t, told)
    BY <1>4, IssueCreateSound, IssueRotateSound
  <1>5. CASE IssueDone(t)
    <2>1. /\ pc[t] = "i_done" /\ pc[t] \in Holding \ {"p_remote"}
          /\ UNCHANGED <<hub, cf, asked>> /\ Leave(t, "idle")
          /\ rec' = [mine[t] EXCEPT !.state = "ready"] \/ rec' = rec
      BY <1>5 DEF IssueDone, Holding
    <2>2. "idle" \in Waiting \cup Outside
      BY DEF Outside
    <2>3. CASE rec' = rec
      BY <2>1, <2>2, <2>3, Copy, QuitSound
    <2>4. CASE rec' = [mine[t] EXCEPT !.state = "ready"]
      <3>1. /\ Inside(t) /\ mine[t] \in Record
            /\ Sound(mine[t], cf, hub, asked) /\ Stand(pc[t], job[t], mine[t])
            /\ WishStand(pc[t], job[t], ret[t], asked)
            /\ rec # NoRecord => mine[t].cf = rec.cf /\ mine[t].owner = rec.owner
        BY <2>1, Copy
      <3>2. /\ mine[t].cf # NoToken /\ mine[t].enabled /\ Usable(mine[t], cf) /\ asked # "no"
            /\ \A x \in cf : x.id = mine[t].cf => x.name = mine[t].owner
        BY <2>1, <3>1 DEF Stand, WishStand, Sound
      <3>3. /\ rec' \in Record /\ rec'.cf = mine[t].cf /\ rec'.owner = mine[t].owner
            /\ Sound(rec', cf, hub, asked)
        BY <2>4, <3>1, <3>2, Completed
      <3>4. TokensOnRecord' /\ (\A x, y \in cf : x.id = y.id => x = y)'
        BY <2>1, <3>1, <3>3, Stored, ConstantsAssumption DEF TokensOnRecord
      <3> HIDE DEF Sound, Leave
      <3> QED
        BY <2>1, <2>2, <3>1, <3>3, <3>4, Stored, LeaveSound
    <2> QED
      BY <2>1, <2>3, <2>4
  <1> QED
    BY <1>1, <1>2, <1>3, <1>4, <1>5 DEF Issue

-----------------------------------------------------------------------------
(***************************************************************************)
(* The owner's revocation and rotation of the Service Token.               *)
(***************************************************************************)

\* Denying, dropping or suspending the token leaves nothing wanted.
LEMMA SuspendedSound ==
  ASSUME NEW r \in Record, NEW C, NEW H, NEW w, NEW v, Sound(r, C, H, w), r.enabled,
         NEW s \in {"revoking_cloudflare", "rotating_cloudflare"},
         s = "rotating_cloudflare" => v # "no"
  PROVE  /\ [r EXCEPT !.state = s] \in Record
         /\ [r EXCEPT !.state = s].cf = r.cf
         /\ [r EXCEPT !.state = s].owner = r.owner
         /\ [r EXCEPT !.state = s].state = s
         /\ Sound([r EXCEPT !.state = s], C, H, v)
  <1>1. PICK d : d = [r EXCEPT !.state = s]
    OBVIOUS
  <1>2. /\ d \in Record /\ d.state = s /\ d.cf = r.cf /\ d.owner = r.owner
        /\ d.enabled = r.enabled /\ d.hubTok = r.hubTok /\ d.pending = r.pending
    BY <1>1 DEF Record, CredentialState
  <1>3. Sound(d, C, H, v)
    BY <1>2 DEF Sound, Wanted
  <1> QED
    BY <1>1, <1>2, <1>3

\* Where the token is gone, the record that drops it is sound.
LEMMA DroppedSound ==
  ASSUME Inv, TokInv, NEW t \in Proc, pc[t] \in {"u_remove", "u_done"},
         Leave(t, "idle"), rec' = ServiceRevoked(mine[t]) \/ rec' = rec,
         cf' = {x \in cf : x.id # mine[t].cf}, UNCHANGED <<hub, asked>>
  PROVE  TokInv'
  <1>1. /\ Inside(t) /\ mine[t] \in Record
        /\ Sound(mine[t], cf, hub, asked) /\ Stand(pc[t], job[t], mine[t])
        /\ rec # NoRecord => mine[t] = rec
    BY Copy DEF Holding
  <1>2. mine[t].state = "revoking_cloudflare" /\ mine[t].enabled
    BY <1>1 DEF Stand, Sound
  <1>3. cf' \subseteq cf /\ \A x \in cf' : ~x.told /\ x.id # NoToken
    BY <1>1, Stored, ConstantsAssumption DEF TokensOnRecord, CfToken
  <1>4. PICK d : d = ServiceRevoked(mine[t])
    OBVIOUS
  <1>5. /\ d.enabled = mine[t].enabled /\ d.state = "unissued" /\ d.cf = NoToken
        /\ d.hubTok = mine[t].hubTok /\ d.pending = mine[t].pending
    BY <1>1, <1>4 DEF Record, ServiceRevoked
  <1>6. Sound(d, cf', hub', asked')
    BY <1>1, <1>2, <1>3, <1>5 DEF Sound, Wanted
  <1>7. rec # NoRecord => Sound(rec, cf', hub', asked')
    BY <1>1, <1>2, <1>3 DEF Sound, Wanted
  <1>8. TokensOnRecord' /\ (\A x, y \in cf : x.id = y.id => x = y)'
    BY <1>3, Stored DEF TokensOnRecord
  <1>9. "idle" \in Waiting \cup Outside
    BY DEF Outside
  <1>10. rec' # NoRecord => Sound(rec', cf', hub', asked')
    BY <1>4, <1>6, <1>7
  <1> HIDE DEF Sound, Leave
  <1> QED
    BY <1>1, <1>8, <1>9, <1>10, Stored, LeaveSound

\* So does every step of the owner's revocation and rotation.
LEMMA ServiceSound ==
  ASSUME Inv, TokInv, NEW t \in Proc, Service(t)
  PROVE  TokInv'
  <1> "idle" \in Waiting \cup Outside
    BY DEF Outside
  <1>1. CASE ServiceEnter(t)
    <2>1. Inside(t) /\ pc[t] = "u_wait" /\ UNCHANGED <<hub, cf>>
      BY <1>1 DEF ServiceEnter, Enter, Inside
    <2>2. CASE Leave(t, "idle") /\ UNCHANGED <<rec, asked>>
      BY <2>1, <2>2, QuitSound
    <2>3. CASE Mine(rec) /\ rec.enabled /\ asked' = Withdrawn /\ UNCHANGED <<me, ret>>
      <3>1. PICK r, p : /\ r = [rec EXCEPT !.state = "revoking_cloudflare"]
                        /\ rec' = r /\ Goto(t, p, r)
                        /\ p = IF r.cf = NoToken THEN "u_done" ELSE "u_remove"
        BY <1>1, <2>1, <2>3 DEF ServiceEnter
      <3>2. rec \in Record /\ Sound(rec, cf, hub, asked)
        BY <2>3, Stored DEF Mine
      <3>3. /\ r \in Record /\ r.cf = rec.cf /\ r.owner = rec.owner
            /\ r.state = "revoking_cloudflare" /\ Sound(r, cf, hub, asked')
        BY <2>3, <3>1, <3>2, SuspendedSound
      <3>4. /\ Stand(p, job[t], r) /\ HubStand(p, r, hub')
            /\ WishStand(p, job[t], ret[t], asked')
            /\ p \in Holding \ {"p_remote"}
        BY <3>1, <3>3 DEF Stand, HubStand, WishStand, Holding
      <3>5. ret' = [ret EXCEPT ![t] = ret[t]]
        BY <2>3 DEF Inv, ControlOK
      <3>6. pc[Sync] = "i_wait" => asked' # "no"
        BY <2>3 DEF Withdrawn
      <3>7. rec' = r /\ Goto(t, p, r) /\ UNCHANGED cf /\ Sound(r, cf, hub', asked')
        BY <2>1, <3>1, <3>3
      <3> HIDE DEF Sound, Stand, HubStand, WishStand, Goto
      <3> QED
        BY <2>1, <3>3, <3>4, <3>5, <3>6, <3>7, SaveSound
    <2> QED
      BY <1>1, <2>2, <2>3 DEF ServiceEnter
  <1>2. ASSUME NEW told \in BOOLEAN, ServiceRemove(t, told) PROVE TokInv'
    BY <1>2, DroppedSound DEF ServiceRemove
  <1>3. CASE ServiceDone(t)
    <2>1. pc[t] = "u_done" /\ pc[t] \in Holding \ {"p_remote"} /\ UNCHANGED <<hub, cf, asked>>
      BY <1>3 DEF ServiceDone, Holding
    <2>2. mine[t].cf = NoToken
      BY <2>1, Copy DEF Stand
    <2>3. cf' = {x \in cf : x.id # mine[t].cf}
      BY <2>1, <2>2, Stored, ConstantsAssumption DEF CfToken
    <2> QED
      BY <1>3, <2>1, <2>3, DroppedSound DEF ServiceDone
  <1>4. CASE RotateEnter(t)
    <2>1. Inside(t) /\ pc[t] = "r_wait" /\ UNCHANGED <<hub, cf, asked>>
      BY <1>4 DEF RotateEnter, Enter, Inside
    <2>2. CASE Leave(t, "idle") /\ UNCHANGED rec
      BY <2>1, <2>2, QuitSound
    <2>3. CASE Mine(rec) /\ Available(rec) /\ UNCHANGED <<me, ret>>
               /\ rec' = [rec EXCEPT !.state = "rotating_cloudflare"]
               /\ Goto(t, "r_rotate", [rec EXCEPT !.state = "rotating_cloudflare"])
      <3>1. PICK r : r = [rec EXCEPT !.state = "rotating_cloudflare"]
        OBVIOUS
      <3>2. rec \in Record /\ Sound(rec, cf, hub, asked)
        BY <2>3, Stored DEF Mine
      <3>3. asked # "no" /\ rec.enabled
        BY <2>3, <3>2 DEF Sound, Wanted, Inherited, Available
      <3>4. /\ r \in Record /\ r.cf = rec.cf /\ r.owner = rec.owner
            /\ r.state = "rotating_cloudflare" /\ Sound(r, cf, hub, asked')
        BY <2>1, <3>1, <3>2, <3>3, SuspendedSound
      <3>5. /\ Stand("r_rotate", job[t], r) /\ HubStand("r_rotate", r, hub')
            /\ WishStand("r_rotate", job[t], ret[t], asked')
            /\ "r_rotate" \in Holding \ {"p_remote"}
        BY <3>4 DEF Stand, HubStand, WishStand, Holding
      <3>6. ret' = [ret EXCEPT ![t] = ret[t]]
        BY <2>3 DEF Inv, ControlOK
      <3>7. rec' = r /\ Goto(t, "r_rotate", r) /\ UNCHANGED cf /\ Sound(r, cf, hub', asked')
        BY <2>1, <2>3, <3>1, <3>4
      <3> HIDE DEF Sound, Stand, HubStand, WishStand, Goto
      <3> QED
        BY <2>1, <3>3, <3>4, <3>5, <3>6, <3>7, Stored, SaveSound
    <2> QED
      BY <1>4, <2>2, <2>3 DEF RotateEnter
  <1>5. ASSUME NEW told \in BOOLEAN, Rotate(t, told) PROVE TokInv'
    <2>1. /\ pc[t] = "r_rotate" /\ pc[t] \in Holding \ {"p_remote"}
          /\ RotateToken(t, told) /\ UNCHANGED <<hub, asked>> /\ Leave(t, "idle")
          /\ rec' = IF told THEN [mine[t] EXCEPT !.state = "ready"] ELSE rec
      BY <1>5 DEF Rotate, Holding
    <2>2. /\ Inside(t) /\ mine[t] \in Record
          /\ Sound(mine[t], cf, hub, asked) /\ Stand(pc[t], job[t], mine[t])
          /\ rec # NoRecord => mine[t] = rec
      BY <2>1, Copy
    <2>3. /\ (\A x, y \in cf : x.id = y.id => x = y)'
          /\ \A x \in cf' : x.told => told /\ x.id = mine[t].cf
          /\ \A x \in cf' : x.id = mine[t].cf => x.name = mine[t].owner
          /\ told => Usable(mine[t], cf') /\ mine[t].cf # NoToken
          /\ Sound(mine[t], cf', hub', asked') /\ asked # "no"
      BY <2>1, RotateTokenSound
    <2>4. mine[t].enabled
      BY <2>1, <2>2 DEF Sound, Stand
    <2>5. CASE told
      <3>1. PICK r : r = [mine[t] EXCEPT !.state = "ready"]
        OBVIOUS
      <3>2. /\ r \in Record /\ r.cf = mine[t].cf /\ r.owner = mine[t].owner
            /\ Sound(r, cf', hub', asked')
        BY <2>1, <2>2, <2>3, <2>4, <2>5, <3>1, Completed
      <3>3. TokensOnRecord'
        BY <2>1, <2>3, <2>5, <3>1, <3>2, Reads DEF TokensOnRecord
      <3> HIDE DEF Sound, Leave
      <3> QED
        BY <2>1, <2>2, <2>3, <2>5, <3>1, <3>2, <3>3, Stored, LeaveSound
    <2>6. CASE ~told
      <3>1. TokensOnRecord'
        BY <2>3, <2>6 DEF TokensOnRecord
      <3>2. rec' # NoRecord => Sound(rec', cf', hub', asked')
        BY <2>1, <2>2, <2>3, <2>6
      <3> HIDE DEF Sound, Leave
      <3> QED
        BY <2>1, <2>2, <2>3, <3>1, <3>2, Stored, LeaveSound
    <2> QED
      BY <2>5, <2>6
  <1> QED
    BY <1>1, <1>2, <1>3, <1>4, <1>5 DEF Service

-----------------------------------------------------------------------------
(***************************************************************************)
(* The Hub tokens.                                                         *)
(***************************************************************************)

\* The synchronisation goes on to the issue only for a token that was asked for.
LEMMA AfterHubSound ==
  ASSUME NEW t \in Proc, NEW r, NEW C, NEW H, NEW w, Sound(r, C, H, w), ~Inherited(r)
  PROVE  /\ AfterHub(t, r) \in Waiting \cup Outside
         /\ AfterHub(t, r) = "i_wait" => job[t] = "sync" /\ w # "no"
         /\ AfterHub(t, r) \notin {"s_sweep", "s_rows"}
  BY DEF AfterHub, Sound, Wanted, Waiting, Outside

\* A step that goes on with a record of the same owner and Service Token.
LEMMA HubSave ==
  ASSUME Inv, TokInv, NEW t \in Proc, Inside(t),
         NEW p \in {"h_decide", "h_revoke", "h_issue", "h_drop"},
         NEW m \in Record, Goto(t, p, m),
         UNCHANGED <<ret, cf, hub, asked>>, rec' = m,
         rec # NoRecord => m.cf = rec.cf /\ m.owner = rec.owner,
         Sound(m, cf, hub, asked), Stand(p, job[t], m), HubStand(p, m, hub)
  PROVE  TokInv'
  <1>1. ret' = [ret EXCEPT ![t] = ret[t]]
    BY DEF Inv, ControlOK
  <1>2. WishStand(p, job[t], ret[t], asked')
    BY DEF WishStand
  <1>3. p \in Holding \ {"p_remote"}
    BY DEF Holding
  <1> HIDE DEF Sound, Stand, HubStand, WishStand, Goto
  <1> QED
    BY <1>1, <1>2, <1>3, Stored, SaveSound

\* A step that goes on without storing anything.
LEMMA HubGo ==
  ASSUME Inv, TokInv, NEW t \in Proc, Inside(t),
         NEW p \in {"h_decide", "h_issue", "h_store", "h_drop"},
         NEW m, Goto(t, p, m), UNCHANGED <<ret, cf, asked, rec>>,
         rec # NoRecord => \/ m = rec
                           \/ p = "h_store" /\ m = Renewed(rec, m.hubTok),
         rec # NoRecord => Sound(rec, cf, hub', asked),
         Sound(m, cf, hub', asked), Stand(p, job[t], m), HubStand(p, m, hub')
  PROVE  TokInv'
  <1>1. ret' = [ret EXCEPT ![t] = ret[t]]
    BY DEF Inv, ControlOK
  <1>2. WishStand(p, job[t], ret[t], asked')
    BY DEF WishStand
  <1>3. p \in Holding \ {"p_remote"}
    BY DEF Holding
  <1>4. TokensOnRecord' /\ (\A x, y \in cf : x.id = y.id => x = y)'
    BY Stored DEF TokensOnRecord
  <1> HIDE DEF Sound, Stand, HubStand, WishStand, Goto, Renewed
  <1> QED
    BY <1>1, <1>2, <1>3, <1>4, Stored, GotoSound

\* The Hub use case begins with the record it found or made.
LEMMA HubEnterSound ==
  ASSUME Inv, TokInv, NEW t \in Proc, HubEnter(t)
  PROVE  TokInv'
  <1>1. Inside(t) /\ pc[t] = "h_wait" /\ UNCHANGED <<account, hub, cf, seen, crashes>>
    BY DEF HubEnter, Enter, Inside
  <1>2. CASE Leave(t, "idle") /\ UNCHANGED <<rec, asked>>
    BY <1>1, <1>2, QuitSound DEF Outside
  <1>3. CASE rec # NoRecord /\ BeginRevocation(t, rec, "hub")
    BY <1>1, <1>3, BeginRevocationSound
  <1>4. CASE /\ Mine(rec) /\ Inherited(rec)
             /\ rec' = [rec EXCEPT !.state = "unissued"]
             /\ Goto(t, "h_decide", [rec EXCEPT !.state = "unissued"])
             /\ UNCHANGED <<me, ret, asked>>
    <2>1. rec \in Record /\ Sound(rec, cf, hub, asked)
      BY <1>4, Stored DEF Mine
    <2>2. PICK r : r = [rec EXCEPT !.state = "unissued"]
      OBVIOUS
    <2>3. /\ r \in Record /\ r.state = "unissued" /\ r.cf = rec.cf /\ r.owner = rec.owner
          /\ r.enabled = rec.enabled /\ r.hubTok = rec.hubTok /\ r.pending = rec.pending
      BY <2>1, <2>2 DEF Record, CredentialState
    <2>4. Sound(r, cf, hub, asked) /\ ~Inherited(r)
      BY <1>4, <2>1, <2>3 DEF Sound, Wanted, Inherited
    <2>5. Stand("h_decide", job[t], r) /\ HubStand("h_decide", r, hub)
      BY <2>4 DEF Stand, HubStand
    <2>6. rec' = r /\ Goto(t, "h_decide", r)
      BY <1>4, <2>2
    <2> HIDE DEF Sound, Stand, HubStand, Goto
    <2> QED
      BY <1>1, <1>4, <2>3, <2>4, <2>5, <2>6, HubSave
  <1>5. CASE /\ Mine(rec) /\ ~Inherited(rec)
             /\ Goto(t, "h_decide", rec) /\ UNCHANGED <<rec, me, ret, asked>>
    <2>1. rec \in Record /\ Sound(rec, cf, hub, asked)
      BY <1>5, Stored DEF Mine
    <2>2. Stand("h_decide", job[t], rec) /\ HubStand("h_decide", rec, hub)
      BY <1>5 DEF Stand, HubStand
    <2> HIDE DEF Sound, Stand, HubStand, Goto
    <2> QED
      BY <1>1, <1>5, <2>1, <2>2, HubSave
  <1>6. CASE /\ account # NoAccount /\ rec = NoRecord
             /\ Goto(t, "h_decide", FreshRecord(account)) /\ UNCHANGED <<rec, me, ret, asked>>
    <2>1. PICK m : m = FreshRecord(account)
      OBVIOUS
    <2>2. account \in Owner
      BY <1>6 DEF Inv, StoresOK
    <2>3. Sound(m, cf, hub, asked) /\ ~Inherited(m)
      BY <2>1, <2>2, Stored, FreshSound
    <2>4. Stand("h_decide", job[t], m) /\ HubStand("h_decide", m, hub')
      BY <2>3 DEF Stand, HubStand
    <2> HIDE DEF Sound, Stand, HubStand, Goto
    <2> QED
      BY <1>1, <1>6, <2>1, <2>3, <2>4, HubGo
  <1> QED
    BY <1>2, <1>3, <1>4, <1>5, <1>6 DEF HubEnter

\* A record changed in what it says of the Hub only.
SameService(d, r) ==
    /\ d.cf = r.cf /\ d.owner = r.owner /\ d.state = r.state
    /\ d.enabled = r.enabled /\ d.requested = r.requested

\* Such a change keeps a record sound if the Hub tokens are those it names.
LEMMA SameSound ==
  ASSUME NEW r, NEW d, SameService(d, r), NEW C, NEW H, NEW G, NEW w, Sound(r, C, H, w),
         r.enabled,
         d.hubTok \in G /\ d.hubTok \notin d.pending => G \subseteq {d.hubTok} \cup d.pending
  PROVE  Sound(d, C, G, w) /\ (~Inherited(r) => ~Inherited(d))
  <1>1. Usable(r, C) => Usable(d, C)
    BY DEF SameService, Usable
  <1> QED
    BY <1>1 DEF SameService, Sound, Wanted, Inherited

\* What is to be done is written into the record before it is done.
LEMMA HubDecideSound ==
  ASSUME Inv, TokInv, NEW t \in Proc, HubDecide(t)
  PROVE  TokInv'
  <1> DEFINE r == mine[t]
             revoked == [r EXCEPT !.hub = "revoked"]
             rotating == [r EXCEPT !.hub = "rotating", !.pending = {r.hubTok}]
  <1>1. pc[t] = "h_decide" /\ pc[t] \in Holding \ {"p_remote"} /\ UNCHANGED <<hub, cf, asked>>
    BY DEF HubDecide, Holding
  <1>2. /\ Inside(t) /\ r \in Record
        /\ Sound(r, cf, hub, asked) /\ ~Inherited(r)
        /\ rec # NoRecord => r = rec
    BY <1>1, Copy DEF Stand
  <1>3. CASE Leave(t, AfterHub(t, r)) /\ UNCHANGED rec
    <2> HIDE DEF r
    <2> QED
      BY <1>1, <1>2, <1>3, AfterHubSound, QuitSound
  <1>4. CASE /\ r.enabled /\ rec' = revoked /\ Goto(t, "h_revoke", revoked)
             /\ UNCHANGED <<me, ret>>
    <2>1. /\ revoked \in Record /\ SameService(revoked, r) /\ revoked.hub = "revoked"
          /\ revoked.hubTok = r.hubTok /\ revoked.pending = r.pending
      BY <1>2 DEF Record, SameService
    <2> HIDE DEF r, revoked
    <2>2. r.hubTok \in hub /\ r.hubTok \notin r.pending => hub \subseteq {r.hubTok} \cup r.pending
      BY <1>2 DEF Sound
    <2>3. Sound(revoked, cf, hub, asked) /\ ~Inherited(revoked)
      BY <1>2, <1>4, <2>1, <2>2, SameSound
    <2>4. Stand("h_revoke", job[t], revoked) /\ HubStand("h_revoke", revoked, hub)
      BY <1>4, <2>1, <2>3 DEF Stand, HubStand, SameService
    <2>5. rec # NoRecord => revoked.cf = rec.cf /\ revoked.owner = rec.owner
      BY <1>2, <2>1 DEF SameService
    <2> HIDE DEF Sound, Stand, HubStand, Goto
    <2> QED
      BY <1>1, <1>2, <1>4, <2>1, <2>3, <2>4, <2>5, HubSave
  <1>5. CASE /\ r.enabled /\ rec' = rotating /\ Goto(t, "h_issue", rotating)
             /\ UNCHANGED <<me, ret>>
    <2>1. /\ rotating \in Record /\ SameService(rotating, r) /\ rotating.hub = "rotating"
          /\ rotating.hubTok = r.hubTok /\ rotating.pending = {r.hubTok}
      BY <1>2 DEF Record, SameService
    <2> HIDE DEF r, rotating
    <2>2. Sound(rotating, cf, hub, asked) /\ ~Inherited(rotating)
      BY <1>2, <1>5, <2>1, SameSound
    <2>3. Stand("h_issue", job[t], rotating) /\ HubStand("h_issue", rotating, hub)
      BY <1>5, <2>1, <2>2 DEF Stand, HubStand, SameService
    <2>4. rec # NoRecord => rotating.cf = rec.cf /\ rotating.owner = rec.owner
      BY <1>2, <2>1 DEF SameService
    <2> HIDE DEF Sound, Stand, HubStand, Goto
    <2> QED
      BY <1>1, <1>2, <1>5, <2>1, <2>2, <2>3, <2>4, HubSave
  <1>6. CASE /\ r.enabled /\ Goto(t, "h_issue", r) /\ UNCHANGED <<rec, me, ret>>
             /\ Action(t, r) = "ensure" \/ Action(t, r) = "rotate"
    <2>1. r.hub = "revoked" => job[t] = "hub_rotate"
      BY <1>6 DEF Action, HubAction
    <2> HIDE DEF r
    <2>2. Stand("h_issue", job[t], r) /\ HubStand("h_issue", r, hub')
      BY <1>2, <1>6, <2>1 DEF Stand, HubStand
    <2> HIDE DEF Sound, Stand, HubStand, Goto
    <2> QED
      BY <1>1, <1>2, <1>6, <2>2, HubGo
  <1> QED
    BY <1>3, <1>4, <1>5, <1>6 DEF HubDecide

\* The tokens are revoked one by one, and then dropped from the record.
LEMMA HubRevokeSound ==
  ASSUME Inv, TokInv, NEW t \in Proc, HubRevoke(t)
  PROVE  TokInv'
  <1>1. pc[t] = "h_revoke" /\ pc[t] \in Holding \ {"p_remote"} /\ UNCHANGED <<cf, asked>>
    BY DEF HubRevoke, Holding
  <1>2. CASE DeleteHubToken(hub, mine[t].hubTok) /\ UNCHANGED <<rec, control, me, ret>>
    BY <1>1, <1>2, StaySound DEF DeleteHubToken, control
  <1>3. CASE /\ hub = {} /\ UNCHANGED hub
             /\ rec' = [mine[t] EXCEPT !.hubTok = NoToken, !.pending = {}]
             /\ Leave(t, AfterHub(t, mine[t]))
    <2>1. /\ Inside(t) /\ mine[t] \in Record /\ mine[t].enabled
          /\ Sound(mine[t], cf, hub, asked) /\ ~Inherited(mine[t])
          /\ rec # NoRecord => mine[t].cf = rec.cf /\ mine[t].owner = rec.owner
      BY <1>1, Copy DEF Stand
    <2>2. PICK d : d = [mine[t] EXCEPT !.hubTok = NoToken, !.pending = {}]
      OBVIOUS
    <2>3. d \in Record /\ SameService(d, mine[t])
      BY <2>1, <2>2 DEF Record, SameService
    <2>4. Sound(d, cf, hub, asked)
      BY <1>3, <2>1, <2>3, SameSound
    <2>5. rec' = d /\ TokensOnRecord' /\ (\A x, y \in cf : x.id = y.id => x = y)'
      BY <1>1, <1>3, <2>1, <2>2, <2>3, Stored, ConstantsAssumption DEF TokensOnRecord,
             SameService
    <2> HIDE DEF Sound, Leave
    <2> QED
      BY <1>1, <1>3, <2>1, <2>4, <2>5, Stored, AfterHubSound, LeaveSound
  <1> QED
    BY <1>2, <1>3 DEF HubRevoke

\* A token is issued when no other is left but the one to be revoked, and is not
\* stored yet.
LEMMA HubIssueSound ==
  ASSUME Inv, TokInv, NEW t \in Proc, HubIssue(t)
  PROVE  TokInv'
  <1>1. /\ pc[t] = "h_issue" /\ pc[t] \in Holding \ {"p_remote"}
        /\ UNCHANGED <<rec, cf, me, ret, asked>>
    BY DEF HubIssue, Holding
  <1>2. /\ Inside(t) /\ mine[t] \in Record /\ mine[t].enabled
        /\ Sound(mine[t], cf, hub, asked) /\ ~Inherited(mine[t])
        /\ mine[t].hub = "revoked" => job[t] = "hub_rotate"
        /\ rec # NoRecord => mine[t] = rec
    BY <1>1, Copy DEF Stand
  <1>3. CASE ~NeedsToken(mine[t]) /\ Goto(t, "h_drop", mine[t]) /\ UNCHANGED hub
    <2>1. hub \subseteq {mine[t].hubTok} \cup mine[t].pending
      BY <1>2, <1>3 DEF NeedsToken, Valid, Sound
    <2>2. Stand("h_drop", job[t], mine[t]) /\ HubStand("h_drop", mine[t], hub')
      BY <1>2, <1>3, <2>1 DEF Stand, HubStand
    <2> HIDE DEF Sound, Stand, HubStand, Goto
    <2> QED
      BY <1>1, <1>2, <1>3, <2>2, HubGo
  <1>4. CASE DeleteHubToken(Orphans(mine[t]), mine[t].hubTok) /\ UNCHANGED control
    BY <1>1, <1>4, StaySound DEF DeleteHubToken, control
  <1>5. ASSUME NeedsToken(mine[t]), Orphans(mine[t]) = {}, NEW i \in NewHubIds,
               hub' = hub \cup {i}, Goto(t, "h_store", [mine[t] EXCEPT !.hubTok = i])
        PROVE  TokInv'
    <2>1. PICK m : m = Renewed(mine[t], i)
      OBVIOUS
    <2>2. /\ i \in HubId /\ i \notin hub
          /\ rec # NoRecord => i # rec.hubTok
      BY DEF NewHubIds, OneOf, Copies
    <2>3. SameService(m, mine[t]) /\ m.hubTok = i /\ m.pending = mine[t].pending
          /\ m.hub = mine[t].hub
      BY <1>2, <2>1, <2>2 DEF Record, SameService, Renewed
    <2>4. hub' \subseteq {m.hubTok} \cup m.pending
      BY <1>2, <1>5, <2>3 DEF NeedsToken, Valid, Orphans
    <2>5. Sound(m, cf, hub', asked) /\ ~Inherited(m)
      BY <1>2, <2>3, <2>4, SameSound
    <2>6. rec # NoRecord => Sound(rec, cf, hub', asked)
      <3> HAVE rec # NoRecord
      <3>1. rec.hubTok \notin hub \/ rec.hubTok \in rec.pending
        BY <1>2, <1>5 DEF NeedsToken, Valid
      <3>2. SameService(rec, rec)
        BY DEF SameService
      <3> QED
        BY <1>2, <1>5, <2>2, <3>1, <3>2, SameSound
    <2>7. Stand("h_store", job[t], m) /\ HubStand("h_store", m, hub')
      BY <1>2, <2>3, <2>4, <2>5 DEF Stand, HubStand, SameService
    <2>8. Goto(t, "h_store", m) /\ (rec # NoRecord => m = Renewed(rec, m.hubTok))
      BY <1>2, <1>5, <2>1, <2>3 DEF Renewed
    <2> HIDE DEF Sound, Stand, HubStand, Goto, Renewed
    <2> QED
      BY <1>1, <1>2, <2>5, <2>6, <2>7, <2>8, HubGo
  <1> QED
    BY <1>3, <1>4, <1>5 DEF HubIssue

\* The new token is stored before the old one goes.
LEMMA HubStoreSound ==
  ASSUME Inv, TokInv, NEW t \in Proc, HubStore(t)
  PROVE  TokInv'
  <1>1. /\ pc[t] = "h_store" /\ pc[t] \in Holding \ {"p_remote"}
        /\ UNCHANGED <<hub, cf, me, ret, asked>>
        /\ rec' = mine[t] /\ Goto(t, "h_drop", mine[t])
    BY DEF HubStore, Holding
  <1>2. /\ Inside(t) /\ mine[t] \in Record
        /\ Sound(mine[t], cf, hub, asked) /\ Stand(pc[t], job[t], mine[t])
        /\ HubStand(pc[t], mine[t], hub)
        /\ rec # NoRecord => mine[t].cf = rec.cf /\ mine[t].owner = rec.owner
    BY <1>1, Copy
  <1>3. Stand("h_drop", job[t], mine[t]) /\ HubStand("h_drop", mine[t], hub)
    BY <1>1, <1>2 DEF Stand, HubStand
  <1> HIDE DEF Sound, Stand, HubStand, Goto
  <1> QED
    BY <1>1, <1>2, <1>3, HubSave

\* When the old token is gone, the new one is the only one.
LEMMA HubDropSound ==
  ASSUME Inv, TokInv, NEW t \in Proc, HubDrop(t)
  PROVE  TokInv'
  <1>1. pc[t] = "h_drop" /\ pc[t] \in Holding \ {"p_remote"} /\ UNCHANGED <<cf, asked>>
    BY DEF HubDrop, Holding
  <1>2. CASE /\ DeleteHubToken(Superseded(mine[t]), mine[t].hubTok)
               /\ UNCHANGED <<rec, control, me, ret>>
    BY <1>1, <1>2, StaySound DEF DeleteHubToken, control
  <1>3. ASSUME Superseded(mine[t]) = {}, UNCHANGED hub, NEW d,
               d = [mine[t] EXCEPT !.hub = "ready", !.pending = {},
                        !.state = IF @ # "rotating_jupyterhub" THEN @
                                  ELSE IF mine[t].cf = NoToken THEN "unissued" ELSE "ready"],
               rec' = d, Leave(t, AfterHub(t, d))
        PROVE  TokInv'
    <2>1. /\ Inside(t) /\ mine[t] \in Record /\ mine[t].enabled
          /\ Sound(mine[t], cf, hub, asked) /\ ~Inherited(mine[t])
          /\ hub \subseteq {mine[t].hubTok} \cup mine[t].pending
          /\ rec # NoRecord => mine[t].cf = rec.cf /\ mine[t].owner = rec.owner
      BY <1>1, Copy DEF Stand, HubStand
    <2>2. /\ d \in Record
          /\ d.cf = mine[t].cf /\ d.owner = mine[t].owner /\ d.enabled = mine[t].enabled
          /\ d.requested = mine[t].requested /\ d.hubTok = mine[t].hubTok /\ d.pending = {}
          /\ d.state = (IF mine[t].state # "rotating_jupyterhub" THEN mine[t].state
                        ELSE IF mine[t].cf = NoToken THEN "unissued" ELSE "ready")
      BY <1>3, <2>1 DEF Record, CredentialState
    <2>3. Usable(mine[t], cf) => Usable(d, cf)
      BY <2>2 DEF Usable
    <2>4. hub \subseteq {d.hubTok}
      BY <1>3, <2>1, <2>2 DEF Superseded
    <2>5. Sound(d, cf, hub, asked) /\ ~Inherited(d)
      BY <2>1, <2>2, <2>3, <2>4 DEF Sound, Wanted, Inherited
    <2>6. TokensOnRecord' /\ (\A x, y \in cf : x.id = y.id => x = y)'
      <3>1. /\ rec' = d /\ d # NoRecord
            /\ rec # NoRecord => d.cf = rec.cf /\ d.owner = rec.owner
        BY <1>3, <2>1, <2>2, Reads
      <3>2. TokensOnRecord'
        BY <1>1, <3>1, Stored DEF TokensOnRecord
      <3> QED
        BY <1>1, <3>2, Stored
    <2> HIDE DEF Sound, Leave
    <2> QED
      BY <1>1, <1>3, <2>1, <2>5, <2>6, Stored, AfterHubSound, LeaveSound
  <1> QED
    BY <1>2, <1>3 DEF HubDrop

\* Every step of the Hub use case keeps the record sound.
LEMMA HubSound ==
  ASSUME Inv, TokInv, NEW t \in Proc, Hub(t)
  PROVE  TokInv'
  BY HubEnterSound, HubDecideSound, HubRevokeSound, HubIssueSound, HubStoreSound, HubDropSound
     DEF Hub

-----------------------------------------------------------------------------
(***************************************************************************)
(* Enabling, disabling and deleting.                                       *)
(***************************************************************************)

\* A step outside the lock leads to a place outside it.
LEMMA AdvanceSound ==
  ASSUME Inv, TokInv, NEW t \in Proc, pc[t] \notin Holding,
         NEW p \in Waiting \cup Outside, Advance(t, p),
         UNCHANGED <<rec, hub, cf, asked>>, \A u \in Proc \ {t} : ret'[u] = ret[u],
         p # "i_wait", p \in {"s_sweep", "s_rows"} => t = Sync
  PROVE  TokInv'
  <1>1. PlaceSound(t)
    BY DEF TokInv
  <1>2. job[t] \in Job \cup {"sync", "none"} /\ Outward(t, job[t], p, lock) /\ UNCHANGED mine
    BY DEF Advance, Inv, ControlOK
  <1> QED
    BY <1>1, <1>2, OutwardSound DEF PlaceSound

\* So does every step of enabling, disabling and deleting.
LEMMA AdminSound ==
  ASSUME Inv, TokInv, NEW t \in Proc, Admin(t)
  PROVE  TokInv'
  <1> "idle" \in Waiting \cup Outside /\ "h_wait" \in Waiting \cup Outside
    BY DEF Outside, Waiting
  <1>1. CASE EnableEnter(t)
    <2>1. Inside(t) /\ pc[t] = "e_wait" /\ UNCHANGED <<hub, cf, asked>>
      BY <1>1 DEF EnableEnter, Enter, Inside
    <2>2. CASE Leave(t, "idle") /\ UNCHANGED rec
      BY <2>1, <2>2, QuitSound
    <2>3. CASE /\ account # NoAccount /\ (rec # NoRecord => rec.state = "disabled")
               /\ rec' = FreshRecord(account) /\ Leave(t, "h_wait")
      <3>1. account \in Owner
        BY <2>3 DEF Inv, StoresOK
      <3>2. Sound(rec', cf', hub', asked')
        BY <2>1, <2>3, <3>1, Stored, FreshSound
      <3>3. rec = NoRecord \/ rec.cf = NoToken
        BY <2>3, Stored DEF Sound
      <3>4. \A x \in cf : ~x.told
        BY <3>3, Stored, NoneTold
      <3>5. TokensOnRecord' /\ (\A x, y \in cf : x.id = y.id => x = y)'
        BY <2>1, <3>4, Stored DEF TokensOnRecord
      <3> HIDE DEF Sound, Leave
      <3> QED
        BY <2>1, <2>3, <3>2, <3>5, Stored, LeaveSound
    <2> QED
      BY <1>1, <2>2, <2>3 DEF EnableEnter
  <1>2. CASE DisableEnter(t)
    <2>1. Inside(t) /\ pc[t] = "d_wait" /\ UNCHANGED <<hub, cf>>
      BY <1>2 DEF DisableEnter, Enter, Inside
    <2>2. CASE Leave(t, OnError(t)) /\ UNCHANGED <<rec, asked>>
      <3>1. OnError(t) \in Waiting \cup Outside /\ OnError(t) # "i_wait"
            /\ (OnError(t) \in {"s_sweep", "s_rows"} => job[t] = "sync")
        BY DEF OnError, Outside
      <3> QED
        BY <2>1, <2>2, <3>1, QuitSound
    <2>3. ASSUME rec # NoRecord \/ account # NoAccount, NEW r,
                 r = IF rec = NoRecord THEN FreshRecord(account) ELSE rec,
                 rec' = Denied(r), Goto(t, "d_hub", Denied(r)),
                 asked' = Withdrawn, UNCHANGED <<me, ret>>
          PROVE  TokInv'
      <3>1. r \in Record /\ Sound(r, cf, hub, asked)
        <4>1. CASE rec = NoRecord
          <5>1. account \in Owner
            BY <2>3, <4>1 DEF Inv, StoresOK
          <5> QED
            BY <2>3, <4>1, <5>1, Stored, FreshSound, Fresh
        <4>2. CASE rec # NoRecord
          BY <2>3, <4>2, Stored
        <4> QED
          BY <4>1, <4>2
      <3>2. PICK d : d = Denied(r)
        OBVIOUS
      <3>3. /\ d \in Record /\ d.state = "revoking" /\ d.cf = r.cf /\ d.owner = r.owner
            /\ Sound(d, cf, hub, asked')
        BY <3>1, <3>2, Stored, DeniedSound
      <3>4. /\ Stand("d_hub", job[t], d) /\ HubStand("d_hub", d, hub')
            /\ WishStand("d_hub", job[t], ret[t], asked')
            /\ "d_hub" \in Holding \ {"p_remote"}
        BY <3>3 DEF Stand, HubStand, WishStand, Holding
      <3>5. ret' = [ret EXCEPT ![t] = ret[t]] /\ (pc[Sync] = "i_wait" => asked' # "no")
        BY <2>3 DEF Inv, ControlOK, Withdrawn
      <3>6. rec # NoRecord => d.cf = rec.cf /\ d.owner = rec.owner
        BY <2>3, <3>3
      <3>7. rec' = d /\ Goto(t, "d_hub", d) /\ UNCHANGED cf /\ Sound(d, cf, hub', asked')
        BY <2>1, <2>3, <3>2, <3>3
      <3> HIDE DEF Sound, Stand, HubStand, WishStand, Goto
      <3> QED
        BY <2>1, <3>3, <3>4, <3>5, <3>6, <3>7, SaveSound
    <2> QED
      BY <1>2, <2>2, <2>3 DEF DisableEnter
  <1>3. CASE DisableHub(t)
    <2>1. /\ pc[t] \in Holding /\ UNCHANGED <<rec, cf, asked>> /\ hub' \subseteq hub
          /\ Leave(t, "d_unpublish") /\ "d_unpublish" \in Waiting \cup Outside
      BY <1>3 DEF DisableHub, Holding, Outside
    <2> QED
      BY <2>1, Holder, QuitSound
  <1>4. CASE DeleteResumes(t)
    <2>1. pc[t] \notin Holding /\ UNCHANGED <<rec, hub, cf, asked, ret>>
      BY <1>4 DEF DeleteResumes, Holding
    <2>2. PICK p \in {"idle", "p_wait"} : Advance(t, p)
      BY <1>4 DEF DeleteResumes
    <2> QED
      BY <2>1, <2>2, AdvanceSound DEF Waiting, Outside
  <1>5. CASE DeleteEnter(t)
    <2>1. Inside(t) /\ pc[t] = "p_wait" /\ UNCHANGED <<rec, hub, cf, asked>>
      BY <1>5 DEF DeleteEnter, Enter, Inside
    <2>2. CASE Leave(t, "idle")
      BY <2>1, <2>2, QuitSound
    <2>3. CASE /\ ~(rec # NoRecord /\ rec.state # "disabled")
               /\ Goto(t, "p_remote", rec) /\ UNCHANGED <<me, ret>>
      <3>1. /\ pc'[t] = "p_remote" /\ mine'[t] = rec /\ job'[t] = job[t]
            /\ \A u \in Proc \ {t} : pc'[u] = pc[u] /\ job'[u] = job[u]
        BY <2>3 DEF Goto, Inv, ControlOK
      <3>2. StoreSound'
        BY <2>1, <3>1, Stored DEF StoreSound, TokensOnRecord
      <3>3. PlaceSound(t)
        BY DEF TokInv
      <3>4. PlaceSound(t)'
        BY <2>1, <2>3, <3>1, <3>3 DEF PlaceSound
      <3> QED
        BY <2>1, <3>1, <3>2, <3>4, OthersSound
    <2> QED
      BY <1>5, <2>2, <2>3 DEF DeleteEnter
  <1>6. CASE DeleteRecords(t)
    <2>1. /\ pc[t] = "p_remote" /\ pc[t] \in Holding /\ UNCHANGED <<hub, cf, asked>>
          /\ rec' = NoRecord /\ Leave(t, "idle")
      BY <1>6 DEF DeleteRecords, Holding
    <2>2. rec # NoRecord => rec.state = "disabled"
      BY <2>1 DEF TokInv, PlaceSound
    <2>3. rec = NoRecord \/ rec.cf = NoToken
      BY <2>2, Stored DEF Sound
    <2>4. \A x \in cf : ~x.told
      BY <2>3, Stored, NoneTold
    <2>5. TokensOnRecord' /\ (\A x, y \in cf : x.id = y.id => x = y)'
      BY <2>1, <2>4, Stored DEF TokensOnRecord
    <2> HIDE DEF Sound, Leave
    <2> QED
      BY <2>1, <2>5, Stored, Holder, LeaveSound
  <1>7. ASSUME NEW ok \in BOOLEAN, Unpublish(t, ok) PROVE TokInv'
    <2>1. /\ pc[t] \notin Holding /\ UNCHANGED <<rec, hub, cf, asked>>
          /\ \A u \in Proc \ {t} : ret'[u] = ret[u]
          /\ Advance(t, "rv_wait") /\ "rv_wait" \in Waiting \cup Outside
      BY <1>7 DEF Unpublish, Holding, Waiting, Inv, ControlOK
    <2> QED
      BY <2>1, AdvanceSound
  <1> QED
    BY <1>1, <1>2, <1>3, <1>4, <1>5, <1>6, <1>7 DEF Admin

-----------------------------------------------------------------------------
(***************************************************************************)
(* The synchronisation, the surroundings and the whole.                    *)
(***************************************************************************)

\* The synchronisation itself touches no record.
LEMMA SynchroniseSound ==
  ASSUME Inv, TokInv, Synchronise
  PROVE  TokInv'
  <1> Sync \in Proc
    BY DEF Proc
  <1>1. CASE SyncSnapshot
    <2>1. /\ pc[Sync] \notin Holding /\ UNCHANGED <<rec, hub, cf, mine, asked, ret>>
          /\ Outward(Sync, "sync", "s_sweep", lock) /\ "s_sweep" \in Waiting \cup Outside
      BY <1>1 DEF SyncSnapshot, Holding, Outside
    <2> QED
      BY <2>1, OutwardSound
  <1>2. CASE SyncSweep
    <2>1. pc[Sync] \notin Holding /\ UNCHANGED <<rec, hub, cf, asked, ret>>
      BY <1>2 DEF SyncSweep, Holding
    <2>2. PICK p \in {"d_wait", "s_rows"} : Advance(Sync, p)
      BY <1>2 DEF SyncSweep
    <2> QED
      BY <2>1, <2>2, AdvanceSound DEF Waiting, Outside
  <1>3. CASE SyncRow
    <2>1. pc[Sync] \notin Holding /\ UNCHANGED <<rec, hub, cf, asked, ret>>
      BY <1>3 DEF SyncRow, Holding
    <2>2. PICK p \in {"h_wait", "idle"} : Advance(Sync, p)
      BY <1>3 DEF SyncRow
    <2> QED
      BY <2>1, <2>2, AdvanceSound DEF Waiting, Outside
  <1> QED
    BY <1>1, <1>2, <1>3 DEF Synchronise

\* Nor does a request that is handed in.
LEMMA HandleSound ==
  ASSUME Inv, TokInv, NEW t \in Request, Handle(t)
  PROVE  TokInv'
  <1>1. PICK j \in Job : Submit(t, j)
    BY DEF Handle
  <1>2. t \in Proc /\ t # Sync
    BY ConstantsAssumption DEF Proc
  <1>3. /\ pc[t] \notin Holding /\ UNCHANGED <<rec, hub, cf, mine, ret, asked>>
        /\ Outward(t, j, FirstStep(j), lock) /\ j # "sync"
    BY <1>1 DEF Submit, Holding, Job
  <1>4. /\ FirstStep(j) \in Waiting
        /\ FirstStep(j) = "i_wait" => j = "issue"
    BY Entrances DEF FirstStep
  <1>5. FirstStep(j) \notin {"s_sweep", "s_rows"}
    BY <1>4 DEF Waiting
  <1> QED
    BY <1>2, <1>3, <1>4, <1>5, OutwardSound

\* Nor does userdel.
LEMMA DeleteLinuxUserSound ==
  ASSUME Inv, TokInv, NEW t \in Proc, DeleteLinuxUser(t)
  PROVE  TokInv'
  <1>1. /\ pc[t] = "userdel" /\ pc' = [pc EXCEPT ![t] = "forget"]
        /\ UNCHANGED <<rec, hub, cf, job, mine, ret, asked>>
    BY DEF DeleteLinuxUser
  <1>2. /\ pc'[t] = "forget" /\ \A u \in Proc \ {t} : pc'[u] = pc[u]
    BY <1>1 DEF Inv, ControlOK
  <1>3. ASSUME NEW u \in Proc PROVE PlaceSound(u)'
    <2>1. PlaceSound(u)
      BY DEF TokInv
    <2>2. CASE u = t
      BY <1>1, <1>2, <2>1, <2>2 DEF PlaceSound, Holding
    <2>3. CASE u # t
      BY <1>1, <1>2, <2>1, <2>3 DEF PlaceSound
    <2> QED
      BY <2>2, <2>3
  <1>4. StoreSound'
    BY <1>1, <1>2, Stored DEF StoreSound, TokensOnRecord
  <1> QED
    BY <1>3, <1>4 DEF TokInv

\* Outside the portal Hub tokens only go.
LEMMA SurroundingsSound ==
  ASSUME Inv, TokInv, Surroundings
  PROVE  TokInv'
  <1>1. UNCHANGED <<rec, cf, asked, pc, job, mine, ret>> /\ hub' \subseteq hub
    BY DEF Surroundings, AccountRemoved, AccountCreated, HubTokenDeleted, control
  <1> QED
    BY <1>1, StaySound

\* A restart takes the copies along, not the stores.
LEMMA CrashSound ==
  ASSUME Inv, TokInv, Crash
  PROVE  TokInv'
  <1>1. /\ UNCHANGED <<rec, hub, cf, asked>>
        /\ \A t \in Proc : pc'[t] = "idle" /\ job'[t] = "none"
    BY DEF Crash
  <1>2. StoreSound'
    BY <1>1, Stored DEF StoreSound, TokensOnRecord
  <1>3. ASSUME NEW t \in Proc PROVE PlaceSound(t)'
    BY <1>1 DEF PlaceSound, Holding
  <1> QED
    BY <1>2, <1>3 DEF TokInv

\* A new installation is sound, and so is a store an older release left.
LEMMA InitSound == Init => TokInv
  <1> SUFFICES ASSUME Init PROVE TokInv
    OBVIOUS
  <1>1. /\ account \in Owner /\ Sync \in Proc
        /\ \A t \in Proc : pc[t] = "idle" /\ job[t] = "none"
    BY DEF Init, InitProcesses, Proc
  <1>2. ASSUME NEW t \in Proc PROVE PlaceSound(t)
    BY <1>1 DEF PlaceSound, Holding
  <1>3. StoreSound
    <2>1. CASE InitNew
      <3>1. rec = NoRecord /\ cf = {}
        BY <2>1 DEF InitNew
      <3>2. TokensOnRecord
        BY <3>1 DEF TokensOnRecord
      <3>3. (\A x, y \in cf : x.id = y.id => x = y) /\ pc[Sync] # "i_wait"
        BY <1>1, <3>1
      <3> QED
        BY <3>1, <3>2, <3>3 DEF StoreSound
    <2>2. CASE InitInherited
      <3>1. /\ rec = [FreshRecord(account) EXCEPT !.state = "issuing"]
            /\ cf = {} /\ hub = {}
        BY <2>2 DEF InitInherited
      <3>2. /\ rec.enabled /\ rec.state = "issuing" /\ rec.cf = NoToken
            /\ rec.requested = FALSE
        BY <3>1 DEF FreshRecord
      <3>3. Sound(rec, cf, hub, asked)
        BY <3>1, <3>2 DEF Sound, Wanted, Inherited
      <3>4. TokensOnRecord
        BY <3>1 DEF TokensOnRecord
      <3>5. (\A x, y \in cf : x.id = y.id => x = y) /\ pc[Sync] # "i_wait"
        BY <1>1, <3>1
      <3> QED
        BY <3>3, <3>4, <3>5 DEF StoreSound
    <2>3. CASE InitRotating
      <3>1. PICK old \in HubId, i \in CfId, new \in HubId :
                /\ rec = [FreshRecord(account) EXCEPT
                             !.state = "rotating_jupyterhub", !.cf = i,
                             !.hubTok = new, !.pending = {old}]
                /\ hub = {old, new}
                /\ cf = {[id |-> i, name |-> account, told |-> TRUE]}
                /\ asked = "yes"
        BY <2>3 DEF InitRotating, OneOf
      <3>2. PICK z : z = [id |-> i, name |-> account, told |-> TRUE]
        OBVIOUS
      <3>3. z.id = i /\ z.name = account /\ z.told /\ cf = {z}
        BY <3>1, <3>2
      <3>4. /\ rec.enabled /\ rec.state = "rotating_jupyterhub" /\ rec.cf = i
            /\ rec.hubTok = new /\ rec.pending = {old} /\ rec.owner = account
        BY <3>1 DEF FreshRecord
      <3>5. rec # NoRecord
        <4>1. rec \in Record
          BY <1>1, <3>1 DEF Record, FreshRecord, CredentialState
        <4> QED
          BY <4>1, ConstantsAssumption
      <3>6. Usable(rec, cf)
        BY <3>3, <3>4 DEF Usable
      <3>7. Sound(rec, cf, hub, asked)
        BY <3>1, <3>3, <3>4, <3>6, ConstantsAssumption DEF Sound, Wanted
      <3>8. TokensOnRecord
        BY <3>3, <3>4, <3>5 DEF TokensOnRecord
      <3>9. (\A x, y \in cf : x.id = y.id => x = y) /\ pc[Sync] # "i_wait"
        BY <1>1, <3>3
      <3> QED
        BY <3>7, <3>8, <3>9 DEF StoreSound
    <2> QED
      BY <2>1, <2>2, <2>3 DEF Init
  <1> QED
    BY <1>2, <1>3 DEF TokInv

\* Every step keeps the record sound.
LEMMA NextSound ==
  ASSUME Inv, TokInv, [Next]_vars
  PROVE  TokInv'
  <1>1. ASSUME NEW t \in Request, Handle(t) PROVE TokInv'
    BY <1>1, HandleSound
  <1>2. ASSUME NEW t \in Proc, Coroutine(t) PROVE TokInv'
    <2>1. CASE CloudflareFails(t)
      <3>1. pc[t] \in Holding /\ UNCHANGED <<rec, hub, cf, asked>> /\ Leave(t, OnError(t))
        BY <2>1 DEF CloudflareFails, Awaiting, Holding
      <3> QED
        BY <3>1, FailureSound
    <2> QED
      BY <1>2, <2>1, RevokeSound, IssueSound, ServiceSound, HubSound, AdminSound DEF Coroutine
  <1>3. ASSUME NEW t \in Proc, DeleteLinuxUser(t) PROVE TokInv'
    BY <1>3, DeleteLinuxUserSound
  <1>4. CASE UNCHANGED vars
    BY <1>4, StaySound DEF vars, control
  <1> QED
    BY <1>1, <1>2, <1>3, <1>4, SynchroniseSound, SurroundingsSound, CrashSound DEF Next

\* In every reachable state the stored record is sound, and so are all copies.
THEOREM TokenInvariance == Spec => []TokInv
  <1>1. Init => TokInv
    BY InitSound
  <1>2. Inv /\ TokInv /\ [Next]_vars => TokInv'
    BY NextSound
  <1> QED
    BY <1>1, <1>2, Invariance, PTL DEF Spec

\* A ready record names a Service Token that exists and whose secret the portal
\* holds, whatever answers were lost and wherever the portal was restarted.
THEOREM ReadyUsable == Spec => []ReadyIsUsable
  <1>1. Inv /\ TokInv => ReadyIsUsable
    BY Stored DEF ReadyIsUsable, Sound, Usable
  <1> QED
    BY <1>1, Invariance, TokenInvariance, PTL

\* A Service Token whose secret ever reached the portal is on record until it is
\* deleted at Cloudflare, so that every later revocation finds it.
THEOREM TokensRecorded == Spec => []TokensOnRecord
  <1>1. TokInv => TokensOnRecord
    BY DEF TokInv, StoreSound
  <1> QED
    BY <1>1, TokenInvariance, PTL

\* When a revocation is recorded as complete, the Hub has no token left and nobody
\* knows the secret of a Service Token.
THEOREM DisabledRevoked == Spec => []DisabledIsRevoked
  <1>1. Inv /\ TokInv => DisabledIsRevoked
    <2> SUFFICES ASSUME Inv, TokInv, rec # NoRecord, rec.state = "disabled"
                 PROVE  hub = {} /\ \A x \in cf : ~x.told
      BY DEF DisabledIsRevoked
    <2>1. hub = {} /\ rec.cf = NoToken
      BY Stored DEF Sound
    <2> QED
      BY <2>1, Stored, NoneTold
  <1> QED
    BY <1>1, Invariance, TokenInvariance, PTL

\* A Hub token the synchronisation takes for good is the only one: no lost issue
\* and no half-done reissue leaves a second one behind it.
THEOREM SettledSole == Spec => []SettledIsSole
  <1>1. Inv /\ TokInv => SettledIsSole
    <2> SUFFICES ASSUME Inv, TokInv, rec # NoRecord, rec.hub = "ready", Settled(rec)
                 PROVE  hub = {rec.hubTok}
      BY DEF SettledIsSole
    <2>1. rec.hubTok \in hub /\ rec.pending = {}
      BY DEF Settled, Valid
    <2> QED
      BY <2>1, Stored DEF Sound
  <1> QED
    BY <1>1, Invariance, TokenInvariance, PTL

-----------------------------------------------------------------------------
(***************************************************************************)
(* What the owner has revoked stays revoked.                               *)
(***************************************************************************)

\* The record does not lose the mark that the owner has revoked the Hub token.
KeepsMark ==
    /\ rec # NoRecord /\ rec.enabled /\ rec.hub = "revoked"
    /\ rec' # NoRecord /\ rec'.enabled
    => rec'.hub = "revoked"

\* No token comes into being, and no mark goes.
Quiet == hub' \subseteq hub /\ cf' \subseteq cf /\ KeepsMark

\* The part of RevocationStands that is about the Hub token.
HubStands ==
    rec # NoRecord =>
        /\ ~(hub' \subseteq hub) => rec.enabled
        /\ rec.enabled /\ rec.hub = "revoked"
              /\ (~(hub' \subseteq hub)
                     \/ (rec' # NoRecord /\ rec'.enabled /\ rec'.hub # "revoked")) =>
              \E t \in Proc : pc[t] \in Holding /\ job[t] = "hub_rotate"

\* The part that is about the Service Token.
ServiceStands == Created => asked # "no"

\* Where nothing comes into being, what was revoked stays so.
LEMMA QuietStands ==
  ASSUME Quiet
  PROVE  HubStands /\ ServiceStands
  BY DEF Quiet, KeepsMark, HubStands, ServiceStands, Created

\* Whoever writes back a copy changed in other fields keeps the mark.
LEMMA CopyKeeps ==
  ASSUME Inv, TokInv, NEW t \in Proc, pc[t] \in Holding \ {"p_remote"},
         rec' = rec \/ rec'.hub = mine[t].hub
  PROVE  KeepsMark
  <1>1. PlaceSound(t)
    BY DEF TokInv
  <1>2. rec # NoRecord => mine[t].hub = rec.hub
    BY <1>1, Stored DEF PlaceSound, Record, Renewed
  <1> QED
    BY <1>2 DEF KeepsMark

\* A denied record has no mark to lose.
LEMMA DeniedKeeps ==
  ASSUME NEW r \in Record, rec' = Denied(r) \/ rec' = Disabled(r)
  PROVE  KeepsMark
  BY Reads DEF KeepsMark

\* A revocation makes nothing.
LEMMA RevokeQuiet ==
  ASSUME Inv, TokInv, NEW t \in Proc, Revoke(t)
  PROVE  Quiet
  <1>1. CASE RevokeEnter(t)
    <2>1. rec' = rec \/ (rec # NoRecord /\ rec' = Denied(rec))
      BY <1>1 DEF RevokeEnter, BeginRevocation
    <2>2. KeepsMark
      BY <2>1, Stored, DeniedKeeps DEF KeepsMark
    <2> QED
      BY <1>1, <2>2 DEF RevokeEnter, Quiet
  <1>2. CASE RevokeHub(t)
    <2>1. rec' = rec \/ rec' = Disabled(mine[t])
      BY <1>2 DEF RevokeHub, CompleteRevocation
    <2>2. KeepsMark
      BY <1>2, <2>1, AtWork, DeniedKeeps DEF KeepsMark, RevokeHub, Holding
    <2> QED
      BY <1>2, <2>2 DEF RevokeHub, DeleteHubToken, Quiet
  <1>3. ASSUME NEW told \in BOOLEAN, RevokeCloudflare(t, told) PROVE Quiet
    <2>1. rec' = rec \/ rec' = Disabled(mine[t])
      BY <1>3 DEF RevokeCloudflare, CompleteRevocation
    <2>2. KeepsMark
      BY <1>3, <2>1, AtWork, DeniedKeeps DEF KeepsMark, RevokeCloudflare, Holding
    <2> QED
      BY <1>3, <2>2 DEF RevokeCloudflare, Quiet
  <1>4. CASE RevokeDelete(t)
    BY <1>4 DEF RevokeDelete, Quiet, KeepsMark
  <1> QED
    BY <1>1, <1>2, <1>3, <1>4 DEF Revoke

\* The entry of an issue keeps the mark.
LEMMA IssueStartKeeps ==
  ASSUME NEW t \in Proc, NEW r, IssueStart(t, r), rec # NoRecord => r = rec
  PROVE  KeepsMark
  BY DEF IssueStart, KeepsMark

\* An issue creates a Service Token only by the wish of the owner.
LEMMA IssueStands ==
  ASSUME Inv, TokInv, NEW t \in Proc, Issue(t)
  PROVE  HubStands /\ ServiceStands
  <1>1. CASE IssueEnter(t)
    <2>1. KeepsMark
      BY <1>1, Stored, DeniedKeeps, IssueStartKeeps
         DEF IssueEnter, BeginRevocation, KeepsMark, Mine
    <2> QED
      BY <1>1, <2>1, QuietStands DEF IssueEnter, Quiet
  <1>2. CASE IssueFresh(t)
    <2>1. pc[t] \in Holding \ {"p_remote"} /\ pc[t] # "h_store"
      BY <1>2 DEF IssueFresh, Holding
    <2>2. KeepsMark
      BY <1>2, <2>1, Copy, IssueStartKeeps DEF IssueFresh
    <2> QED
      BY <1>2, <2>2, QuietStands DEF IssueFresh, Quiet
  <1>3. CASE IssueRequest(t)
    <2>1. pc[t] \in Holding \ {"p_remote"} /\ UNCHANGED <<hub, cf>>
      BY <1>3 DEF IssueRequest, Holding
    <2>2. PICK r : /\ r = [mine[t] EXCEPT !.requested = TRUE,
                              !.state = IF @ = "unissued" THEN "issuing" ELSE @]
                   /\ rec' = r
      BY <1>3 DEF IssueRequest
    <2>3. r.hub = mine[t].hub
      BY <2>1, <2>2, AtWork DEF Record
    <2>4. KeepsMark
      BY <2>1, <2>2, <2>3, CopyKeeps
    <2> QED
      BY <2>1, <2>4, QuietStands DEF Quiet
  <1>4. ASSUME NEW told \in BOOLEAN, IssueCreate(t, told) PROVE HubStands /\ ServiceStands
    <2>1. /\ pc[t] = "i_create" /\ pc[t] \in Holding \ {"p_remote"} /\ UNCHANGED hub
      BY <1>4 DEF IssueCreate, Holding
    <2>2. asked # "no"
      BY <2>1, Copy DEF WishStand
    <2>3. PICK i : rec' = [mine[t] EXCEPT !.cf = i] \/ rec' = rec
      BY <1>4 DEF IssueCreate, Answer
    <2>4. rec' = rec \/ rec'.hub = mine[t].hub
      BY <2>1, <2>3, AtWork DEF Record
    <2>5. KeepsMark
      BY <2>1, <2>4, CopyKeeps
    <2> QED
      BY <2>1, <2>2, <2>5 DEF HubStands, ServiceStands, KeepsMark
  <1>5. ASSUME NEW told \in BOOLEAN, IssueRotate(t, told) PROVE HubStands /\ ServiceStands
    <2>1. /\ pc[t] = "i_rotate" /\ pc[t] \in Holding \ {"p_remote"} /\ UNCHANGED hub
          /\ rec' = [mine[t] EXCEPT !.state = "issuing"] \/ rec' = rec
      BY <1>5 DEF IssueRotate, Holding, Answer
    <2>2. asked # "no"
      BY <1>5, <2>1, RotateTokenSound DEF IssueRotate
    <2>3. rec' = rec \/ rec'.hub = mine[t].hub
      BY <2>1, AtWork DEF Record
    <2>4. KeepsMark
      BY <2>1, <2>3, CopyKeeps
    <2> QED
      BY <2>1, <2>2, <2>4 DEF HubStands, ServiceStands, KeepsMark
  <1>6. CASE IssueDone(t)
    <2>1. /\ pc[t] \in Holding \ {"p_remote"} /\ UNCHANGED <<hub, cf>>
          /\ rec' = [mine[t] EXCEPT !.state = "ready"] \/ rec' = rec
      BY <1>6 DEF IssueDone, Holding
    <2>2. rec' = rec \/ rec'.hub = mine[t].hub
      BY <2>1, AtWork DEF Record
    <2>3. KeepsMark
      BY <2>1, <2>2, CopyKeeps
    <2> QED
      BY <2>1, <2>3, QuietStands DEF Quiet
  <1> QED
    BY <1>1, <1>2, <1>3, <1>4, <1>5, <1>6 DEF Issue

\* The owner's revocation and rotation create none without it either.
LEMMA ServiceStandsOK ==
  ASSUME Inv, TokInv, NEW t \in Proc, Service(t)
  PROVE  HubStands /\ ServiceStands
  <1>1. CASE ServiceEnter(t)
    <2>1. /\ UNCHANGED <<hub, cf>>
          /\ rec' = rec \/ (Mine(rec) /\ rec' = [rec EXCEPT !.state = "revoking_cloudflare"])
      BY <1>1 DEF ServiceEnter
    <2>2. KeepsMark
      BY <2>1, Stored DEF KeepsMark, Record, Mine
    <2> QED
      BY <2>1, <2>2, QuietStands DEF Quiet
  <1>2. ASSUME NEW told \in BOOLEAN, ServiceRemove(t, told) PROVE HubStands /\ ServiceStands
    <2>1. pc[t] \in Holding \ {"p_remote"} /\ UNCHANGED hub /\ cf' \subseteq cf
          /\ (rec' = ServiceRevoked(mine[t]) \/ rec' = rec)
      BY <1>2 DEF ServiceRemove, Holding
    <2>2. rec' = rec \/ rec'.hub = mine[t].hub
      BY <2>1, AtWork DEF Record, ServiceRevoked
    <2>3. KeepsMark
      BY <2>1, <2>2, CopyKeeps
    <2> QED
      BY <2>1, <2>3, QuietStands DEF Quiet
  <1>3. CASE ServiceDone(t)
    <2>1. pc[t] \in Holding \ {"p_remote"} /\ UNCHANGED <<hub, cf>>
          /\ rec' = ServiceRevoked(mine[t])
      BY <1>3 DEF ServiceDone, Holding
    <2>2. rec' = rec \/ rec'.hub = mine[t].hub
      BY <2>1, AtWork DEF Record, ServiceRevoked
    <2>3. KeepsMark
      BY <2>1, <2>2, CopyKeeps
    <2> QED
      BY <2>1, <2>3, QuietStands DEF Quiet
  <1>4. CASE RotateEnter(t)
    <2>1. /\ UNCHANGED <<hub, cf>>
          /\ rec' = rec \/ (Mine(rec) /\ rec' = [rec EXCEPT !.state = "rotating_cloudflare"])
      BY <1>4 DEF RotateEnter
    <2>2. KeepsMark
      BY <2>1, Stored DEF KeepsMark, Record, Mine
    <2> QED
      BY <2>1, <2>2, QuietStands DEF Quiet
  <1>5. ASSUME NEW told \in BOOLEAN, Rotate(t, told) PROVE HubStands /\ ServiceStands
    <2>1. /\ pc[t] = "r_rotate" /\ pc[t] \in Holding \ {"p_remote"} /\ UNCHANGED hub
          /\ rec' = [mine[t] EXCEPT !.state = "ready"] \/ rec' = rec
      BY <1>5 DEF Rotate, Holding
    <2>2. asked # "no"
      BY <1>5, <2>1, RotateTokenSound DEF Rotate
    <2>3. rec' = rec \/ rec'.hub = mine[t].hub
      BY <2>1, AtWork DEF Record
    <2>4. KeepsMark
      BY <2>1, <2>3, CopyKeeps
    <2> QED
      BY <2>1, <2>2, <2>4 DEF HubStands, ServiceStands, KeepsMark
  <1> QED
    BY <1>1, <1>2, <1>3, <1>4, <1>5 DEF Service

\* Where the mark may go or a Hub token come, the owner's own reissue works.
LEMMA HubStandsOK ==
  ASSUME Inv, TokInv, NEW t \in Proc, Hub(t)
  PROVE  HubStands /\ ServiceStands
  <1>1. CASE HubEnter(t)
    <2>1. /\ UNCHANGED <<hub, cf>>
          /\ \/ rec' = rec
             \/ rec # NoRecord /\ rec' = Denied(rec)
             \/ Mine(rec) /\ rec' = [rec EXCEPT !.state = "unissued"]
      BY <1>1 DEF HubEnter, BeginRevocation
    <2>2. KeepsMark
      <3>1. CASE rec # NoRecord /\ rec' = Denied(rec)
        BY <3>1, Stored, DeniedKeeps
      <3>2. CASE Mine(rec) /\ rec' = [rec EXCEPT !.state = "unissued"]
        BY <3>2, Stored DEF KeepsMark, Record, Mine
      <3> QED
        BY <2>1, <3>1, <3>2 DEF KeepsMark
    <2> QED
      BY <2>1, <2>2, QuietStands DEF Quiet
  <1>2. CASE HubDecide(t)
    <2>1. /\ pc[t] \in Holding \ {"p_remote"} /\ UNCHANGED <<hub, cf>>
          /\ \/ rec' = rec
             \/ rec' = [mine[t] EXCEPT !.hub = "revoked"]
             \/ Action(t, mine[t]) = "rotate"
      BY <1>2 DEF HubDecide, Holding
    <2>2. CASE rec' = rec
      BY <2>1, <2>2, QuietStands DEF Quiet, KeepsMark
    <2>3. CASE rec' = [mine[t] EXCEPT !.hub = "revoked"]
      <3>1. rec'.hub = "revoked"
        BY <2>1, <2>3, AtWork DEF Record
      <3> QED
        BY <2>1, <3>1, QuietStands DEF Quiet, KeepsMark
    <2>4. CASE Action(t, mine[t]) = "rotate"
      BY <2>1, <2>4 DEF Action, HubAction, HubStands, ServiceStands, Created
    <2> QED
      BY <2>1, <2>2, <2>3, <2>4
  <1>3. CASE HubRevoke(t)
    <2>1. /\ pc[t] \in Holding \ {"p_remote"} /\ hub' \subseteq hub /\ UNCHANGED cf
          /\ \/ rec' = rec
             \/ rec' = [mine[t] EXCEPT !.hubTok = NoToken, !.pending = {}]
      BY <1>3 DEF HubRevoke, Holding, DeleteHubToken
    <2>2. rec' = rec \/ rec'.hub = mine[t].hub
      BY <2>1, AtWork DEF Record
    <2>3. KeepsMark
      BY <2>1, <2>2, CopyKeeps
    <2> QED
      BY <2>1, <2>3, QuietStands DEF Quiet
  <1>4. CASE HubIssue(t)
    <2>1. pc[t] = "h_issue" /\ pc[t] \in Holding \ {"p_remote"} /\ UNCHANGED <<rec, cf>>
      BY <1>4 DEF HubIssue, Holding
    <2>2. /\ mine[t].enabled /\ (mine[t].hub = "revoked" => job[t] = "hub_rotate")
          /\ rec # NoRecord => mine[t] = rec
      BY <2>1, Copy DEF Stand
    <2> QED
      BY <2>1, <2>2 DEF HubStands, ServiceStands, Created
  <1>5. CASE HubStore(t)
    <2>1. pc[t] \in Holding \ {"p_remote"} /\ UNCHANGED <<hub, cf>> /\ rec' = mine[t]
      BY <1>5 DEF HubStore, Holding
    <2> QED
      BY <2>1, CopyKeeps, QuietStands DEF Quiet
  <1>6. CASE HubDrop(t)
    <2>1. /\ pc[t] = "h_drop" /\ pc[t] \in Holding \ {"p_remote"} /\ hub' \subseteq hub
          /\ UNCHANGED cf
      BY <1>6 DEF HubDrop, Holding, DeleteHubToken
    <2>2. /\ mine[t].hub = "revoked" => job[t] = "hub_rotate"
          /\ rec # NoRecord => mine[t] = rec
      BY <2>1, Copy DEF Stand
    <2> QED
      BY <2>1, <2>2 DEF HubStands, ServiceStands, Created
  <1> QED
    BY <1>1, <1>2, <1>3, <1>4, <1>5, <1>6 DEF Hub

\* Enabling, disabling and deleting make nothing.
LEMMA AdminQuiet ==
  ASSUME Inv, TokInv, NEW t \in Proc, Admin(t)
  PROVE  Quiet
  <1>1. CASE EnableEnter(t)
    <2>1. /\ UNCHANGED <<hub, cf>>
          /\ rec' = rec \/ (rec # NoRecord => rec.state = "disabled")
      BY <1>1 DEF EnableEnter
    <2>2. KeepsMark
      BY <2>1, Stored DEF KeepsMark, Sound
    <2> QED
      BY <2>1, <2>2 DEF Quiet
  <1>2. CASE DisableEnter(t)
    <2>1. /\ UNCHANGED <<hub, cf>>
          /\ \/ rec' = rec
             \/ rec # NoRecord /\ rec' = Denied(rec)
             \/ rec = NoRecord
      BY <1>2 DEF DisableEnter
    <2>2. KeepsMark
      BY <2>1, Stored, DeniedKeeps DEF KeepsMark
    <2> QED
      BY <2>1, <2>2 DEF Quiet
  <1>3. ASSUME hub' \subseteq hub, UNCHANGED <<rec, cf>> PROVE Quiet
    BY <1>3 DEF Quiet, KeepsMark
  <1>4. CASE DeleteRecords(t)
    BY <1>4 DEF DeleteRecords, Quiet, KeepsMark
  <1> QED
    BY <1>1, <1>2, <1>3, <1>4 DEF Admin, DisableHub, DeleteResumes, DeleteEnter, Unpublish

\* No step brings back what the owner has revoked.
LEMMA NextStands ==
  ASSUME Inv, TokInv, [Next]_vars
  PROVE  HubStands /\ ServiceStands
  <1>1. ASSUME hub' \subseteq hub, UNCHANGED <<rec, cf>> PROVE HubStands /\ ServiceStands
    BY <1>1, QuietStands DEF Quiet, KeepsMark
  <1>2. ASSUME NEW t \in Proc, Coroutine(t) PROVE HubStands /\ ServiceStands
    <2>1. CASE CloudflareFails(t)
      BY <1>1, <2>1 DEF CloudflareFails
    <2> QED
      BY <1>2, <2>1, RevokeQuiet, IssueStands, ServiceStandsOK, HubStandsOK, AdminQuiet,
         QuietStands DEF Coroutine
  <1>3. ASSUME NEW t \in Request, Handle(t) PROVE hub' \subseteq hub /\ UNCHANGED <<rec, cf>>
    BY <1>3 DEF Handle, Submit
  <1>4. ASSUME NEW t \in Proc, DeleteLinuxUser(t) PROVE hub' \subseteq hub /\ UNCHANGED <<rec, cf>>
    BY <1>4 DEF DeleteLinuxUser
  <1>5. ASSUME Synchronise \/ Surroundings \/ Crash \/ UNCHANGED vars
        PROVE  hub' \subseteq hub /\ UNCHANGED <<rec, cf>>
    BY <1>5 DEF Synchronise, SyncSnapshot, SyncSweep, SyncRow, Surroundings, AccountRemoved,
                AccountCreated, HubTokenDeleted, Crash, vars
  <1> QED
    BY <1>1, <1>2, <1>3, <1>4, <1>5 DEF Next

\* What the owner has revoked comes back only by the owner: neither "ensure" nor
\* the synchronisation issues a Hub token anew, and no Service Token is created
\* without a wish that still stands when its creation is queued.
THEOREM RevocationIsFinal == Spec => RevocationStands
  <1>1. Inv /\ TokInv /\ [Next]_vars
        => [LET issued == ~(hub' \subseteq hub)
                unmarked == rec' # NoRecord /\ rec'.enabled /\ rec'.hub # "revoked" IN
            /\ rec # NoRecord =>
                  /\ issued => rec.enabled
                  /\ rec.enabled /\ rec.hub = "revoked" /\ (issued \/ unmarked) =>
                        \E t \in Proc : pc[t] \in Holding /\ job[t] = "hub_rotate"
            /\ Created => asked # "no"]_vars
    BY NextStands DEF HubStands, ServiceStands
  <1> QED
    BY <1>1, Invariance, TokenInvariance, PTL DEF Spec, RevocationStands

==============================================================================
