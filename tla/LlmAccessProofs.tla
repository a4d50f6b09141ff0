-------------------------- MODULE LlmAccessProofs --------------------------
(***************************************************************************)
(* Proofs about LlmAccess, for any number of calls, keys and failures.     *)
(*                                                                         *)
(* The first half proves what every step keeps: a call is at a place its   *)
(* use case has, a key that was made for a purpose serves it or is         *)
(* deleted, the file is empty while an Open WebUI key is being made, and   *)
(* nobody issues a key under the lock without holding it and without       *)
(* having seen that there is none.  A call that moves is said to fit where *)
(* it goes, so that each operation has little to show.                     *)
(*                                                                         *)
(* The second half proves what a stop achieves, from an invariant of its   *)
(* own that names, for every key still accepted, the call that owes its    *)
(* end.                                                                    *)
(***************************************************************************)
EXTENDS LlmAccess, TLAPS

\* Where a call of each kind can be.
Placed(c) ==
    \/ c.op = "none" /\ c.at = "idle"
    \/ c.op # "none" /\ c.at \in {"bad", "broken"}
    \/ c.op = "disable" /\ c.at \in {"mark", "list", "each", "webui", "jobs", "ok"}
    \/ c.op = "enable" /\ c.at \in {"user", "list", "each", "webui", "unmark", "lock",
                                    "exists", "issue", "generate", "ok"}
    \/ c.op = "undo" /\ c.at \in {"mark", "list", "each", "webui"}
    \/ c.op = "rotate" /\ c.at \in {"lock", "check", "targets", "drop", "delete", "verify",
                                    "issue", "generate", "ok"}
    \/ c.op = "webui" /\ c.at \in {"user", "may", "stored", "issue", "recheck", "generate",
                                   "write", "discard", "ok"}
    \/ c.op = "create" /\ c.at \in {"issue", "generate", "ok"}
    \/ c.op = "delete" /\ c.at \in {"forget", "list", "each", "purge", "again", "ok"}

\* What a key made by a call of this kind is for, as long as it exists.
Made(op) == IF op = "webui" THEN {"openwebui", "deleted"} ELSE {"external", "deleted"}

\* Places of an Open WebUI call at which the file holds no key.
Making == {"issue", "recheck", "generate", "write", "discard"}

KeyOK(c) ==
    /\ c.at \in {"write", "discard"} => c.key \in Key
    /\ c.key \in Key => use[c.key] \in Made(c.op)
    /\ c.op # "delete" => \A k \in c.todo : use[k] \in {"external", "deleted"}
    /\ c.op = "webui" /\ c.at \in Making => store = NoKey
    /\ c.op = "webui" /\ c.at = "ok" /\ c.key \in Key =>
          c.key \in {store} \cup forgotten \/ use[c.key] = "deleted"

\* A call at which the key lock must be held, and one about to issue under it.
Locking(c) == c.op \in {"enable", "rotate"} /\ c.at \in Issuing
Issues(c) == c.op \in {"enable", "rotate"} /\ c.at \in {"issue", "generate"}

LockOK ==
    \A t \in Task : /\ Locking(call[t]) => lock = t
                    /\ Issues(call[t]) => locked = {}

CallsOK ==
    \A t \in Task : Placed(call[t]) /\ KeyOK(call[t])

KeysOK ==
    /\ \A k \in known : use[k] # "unused"
    /\ locked \subseteq External
    /\ store \in Key => use[store] \in {"openwebui", "deleted"}
    /\ \A t, u \in Task : call[t].op = "webui" /\ call[u].op = "webui" => t = u
    /\ NoStrayKey

Inv == TypeOK /\ CallsOK /\ KeysOK /\ LockOK

LitellmOK ==
    /\ user \in {"absent", "allowed", "denied"}
    /\ use \in [Key -> {"unused", "external", "openwebui", "deleted"}]
    /\ blocked \subseteq Key
    /\ locked \subseteq Key
    /\ stale \subseteq Task
    /\ excused \subseteq Key
    /\ held \subseteq Task

PortalOK ==
    /\ store \in Key \cup {NoKey}
    /\ lock \in Task \cup {NoTask}
    /\ account \in BOOLEAN
    /\ job \in Key \cup {NoKey}
    /\ calls \in 0..MaxCalls
    /\ faults \in 0..MaxFaults
    /\ known \subseteq Key
    /\ forgotten \subseteq Key
    /\ stopped \in BOOLEAN

\* What TypeOK says, in three parts.
LEMMA TypeSplit == TypeOK <=> LitellmOK /\ PortalOK /\ call \in [Task -> Calls]
  BY DEF TypeOK, LitellmOK, PortalOK

\* Keys come into being once and end once.
Aged == \A k \in Key : use'[k] \in {use[k], "deleted"} \/ use[k] = "unused"

\* A call t moves to c.
Moves(t, c) ==
    /\ call' = [call EXCEPT ![t] = c]
    /\ c.op = "webui" => call[t].op = "webui" \/ \A u \in Task : call[u].op # "webui"
    /\ \A u \in Task \ {t} : lock = u => lock' = u

\* A step in which one call moves keeps the invariant, if the call is where it
\* can be and the step ages the keys, keeps the lock and loses no stored key.
LEMMA Moved ==
  ASSUME Inv, NEW t \in Task, NEW c \in Calls, Moves(t, c),
         LitellmOK', PortalOK', Aged,
         Placed(c), KeyOK(c)',
         Locking(c) => lock' = t,
         Issues(c) => locked' = {},
         locked' \subseteq External',
         locked = {} => locked' = {} \/ lock = t,
         \A k \in known' : use'[k] # "unused",
         store' \in Key => use'[store'] \in {"openwebui", "deleted"},
         \/ store' = store
         \/ store' = NoKey /\ (store \in forgotten' \/ use'[store] = "deleted")
         \/ call[t].op = "webui",
         forgotten \subseteq forgotten',
         NoStrayKey'
  PROVE  Inv'
  <1>1. TypeOK'
    BY DEF Inv, TypeOK, LitellmOK, PortalOK, Moves
  <1>2. ASSUME NEW u \in Task \ {t} PROVE call'[u] = call[u] /\ KeyOK(call[u])'
    <2>1. call'[u] = call[u]
      BY DEF Inv, TypeOK, Moves
    <2>2. KeyOK(call[u])
      BY DEF Inv, CallsOK
    <2> QED
      BY <2>1, <2>2 DEF Inv, KeyOK, KeysOK, Aged, TypeOK, LitellmOK, PortalOK, Calls, Made,
             Making
  <1>3. call'[t] = c
    BY DEF Inv, TypeOK, Moves
  <1>4. CallsOK'
    BY <1>2, <1>3 DEF Inv, CallsOK
  <1>5. KeysOK'
    BY <1>2, <1>3 DEF Inv, KeysOK, Moves
  <1>6. LockOK'
    BY <1>2, <1>3 DEF Inv, LockOK, Moves, Locking, Issues, Issuing
  <1> QED
    BY <1>1, <1>4, <1>5, <1>6 DEF Inv

-----------------------------------------------------------------------------
\* A change at LiteLLM, or none, that keeps what is known of the keys.
Tame ==
    /\ UNCHANGED <<store, known, forgotten>>
    /\ LitellmOK'
    /\ Aged
    /\ locked' \subseteq External'
    /\ locked = {} => locked' = {}
    /\ \A k \in known : use'[k] # "unused"
    /\ NoStrayKey'

\* Every change of LiteLLM that is not the making of a key is of this kind.
LEMMA Tamed ==
  ASSUME Inv, UNCHANGED <<store, known, forgotten>>
  PROVE  /\ UNCHANGED litellm => Tame
         /\ EnsureUser => Tame
         /\ \A t \in Task : Deny(t) => Tame
         /\ Allow => Tame
         /\ \A k \in Key, flag \in BOOLEAN :
               SetBlocked(k, flag) /\ (flag \/ k = store \/ use[k] # "openwebui") => Tame
         /\ Delete(External) /\ UNCHANGED <<user, stale, held>> => Tame
         /\ \A t \in Task : DeleteUser(t) => Tame
  <1> USE DEF Inv, TypeOK, Tame, LitellmOK, PortalOK, Aged, KeysOK, NoStrayKey, External, Webui
  <1>1. UNCHANGED litellm => Tame
    BY DEF litellm
  <1>2. EnsureUser => Tame
    BY DEF EnsureUser
  <1>3. ASSUME NEW t \in Task PROVE Deny(t) => Tame
    BY DEF Deny, CallsOK, KeyOK, Running
  <1>4. Allow => Tame
    BY DEF Allow
  <1>5. ASSUME NEW k \in Key, NEW flag \in BOOLEAN,
               SetBlocked(k, flag), flag \/ k = store \/ use[k] # "openwebui"
        PROVE  Tame
    BY <1>5 DEF SetBlocked
  <1>6. Delete(External) /\ UNCHANGED <<user, stale, held>> => Tame
    BY DEF Delete
  <1>7. ASSUME NEW t \in Task PROVE DeleteUser(t) => Tame
    BY DEF DeleteUser, Delete, UserKeys, Running
  <1> QED
    BY <1>1, <1>2, <1>3, <1>4, <1>5, <1>6, <1>7

\* A call moves with such a change.
LEMMA MovedKept ==
  ASSUME Inv, NEW t \in Task, NEW c \in Calls, Moves(t, c), Tame, PortalOK',
         Placed(c), KeyOK(c)', Locking(c) => lock' = t, Issues(c) => locked = {}
  PROVE  Inv'
  <1>1. store' \in Key => use'[store'] \in {"openwebui", "deleted"}
    BY DEF Tame, Aged, Inv, KeysOK
  <1>2. Issues(c) => locked' = {}
    BY DEF Tame
  <1>3. \A k \in known' : use'[k] # "unused"
    BY DEF Tame
  <1>4. /\ LitellmOK' /\ Aged /\ locked' \subseteq External'
        /\ locked = {} => locked' = {} \/ lock = t
        /\ NoStrayKey' /\ store' = store /\ forgotten \subseteq forgotten'
    BY DEF Tame
  <1> QED
    BY <1>1, <1>2, <1>3, <1>4, Moved

\* The call t may move to c without a change that it must see.
Fits(t, c) ==
    /\ c \in Calls
    /\ c.op \in {call[t].op, "undo", "none"}
    /\ Placed(c) /\ KeyOK(c)
    /\ Locking(c) => lock = t
    /\ Issues(c) => locked = {}

\* And to a place that fits it.
LEMMA MovedTamely ==
  ASSUME Inv, NEW t \in Task, NEW c, Fits(t, c), Go(t, c), Tame, PortalOK'
  PROVE  Inv'
  <1>1. Moves(t, c) /\ c \in Calls /\ Placed(c) /\ (Issues(c) => locked = {})
    BY DEF Moves, Go, Fits
  <1>2. Locking(c) => lock' = t
    BY DEF Go, Locking, Fits
  <1>3. KeyOK(c)'
    BY DEF Fits, Inv, TypeOK, KeyOK, Tame, Aged, KeysOK, Calls, Made, Making
  <1> QED
    BY <1>1, <1>2, <1>3, MovedKept

\* A call that breaks off fits everywhere.
LEMMA BreaksOff ==
  ASSUME Inv, NEW t \in Task, call[t].at # "idle"
  PROVE  Fits(t, At(t, "broken"))
  BY DEF Inv, TypeOK, CallsOK, Placed, KeyOK, Fits, At, Calls, Place, Locking, Issues, Issuing,
         Made, Making

\* The ways a request ends.
Replied(t, a, r) ==
    /\ \/ Go(t, a) /\ UNCHANGED faults
       \/ faults < MaxFaults /\ faults' = faults + 1 /\ (Go(t, r) \/ Go(t, At(t, "broken")))
    /\ UNCHANGED <<store, account, job, calls, known, forgotten, stopped>>

\* A request after which the call fits in, answered or not.
LEMMA Requested ==
  ASSUME Inv, NEW t \in Task, NEW a, NEW r, call[t].at # "idle",
         Replied(t, a, r), Fits(t, a), Fits(t, r), Tame
  PROVE  Inv'
  <1>1. PICK c \in {a, r, At(t, "broken")} : Go(t, c)
    BY DEF Replied
  <1>2. Fits(t, c)
    BY BreaksOff
  <1>3. PortalOK'
    BY <1>1, ConstantsAssumption DEF Replied, Go, Inv, TypeOK, PortalOK
  <1> QED
    BY <1>1, <1>2, <1>3, MovedTamely

\* A list that overlooks the keys is a tame change.
LEMMA OverlookTame ==
  ASSUME Inv, NEW t \in Task, NEW c, Overlook(t, c)
  PROVE  /\ Tame /\ PortalOK' /\ Go(t, c)
         /\ call[t].at # "list" => locked' = {}
  <1>1. Tame
    BY DEF Overlook, Inv, TypeOK, Tame, LitellmOK, Aged, KeysOK, NoStrayKey, External, Webui,
           UserKeys
  <1>2. PortalOK'
    BY ConstantsAssumption DEF Overlook, Go, Inv, TypeOK, PortalOK
  <1> QED
    BY <1>1, <1>2 DEF Overlook

\* The call goes on where it may, and to the issue of a key after an empty list.
LEMMA OverlookedOK ==
  ASSUME Inv, NEW t \in Task, NEW c \in Calls, Overlook(t, c), c.op = call[t].op,
         Placed(c), KeyOK(c), Locking(c) => lock = t, Issues(c) => call[t].at # "list"
  PROVE  Inv'
  <1>1. /\ Tame /\ PortalOK' /\ Go(t, c)
        /\ Issues(c) => locked' = {}
    BY OverlookTame
  <1>2. Moves(t, c) /\ (Locking(c) => lock' = t)
    BY <1>1 DEF Moves, Go, Locking
  <1>3. KeyOK(c)'
    BY <1>1 DEF Inv, TypeOK, KeyOK, Tame, Aged, KeysOK, Calls, Made, Making
  <1>4. store' \in Key => use'[store'] \in {"openwebui", "deleted"}
    BY <1>1 DEF Tame, Aged, Inv, KeysOK
  <1>5. /\ LitellmOK' /\ Aged /\ locked' \subseteq External'
        /\ locked = {} => locked' = {} \/ lock = t
        /\ NoStrayKey' /\ store' = store /\ forgotten \subseteq forgotten'
        /\ \A k \in known' : use'[k] # "unused"
    BY <1>1 DEF Tame
  <1> QED
    BY <1>1, <1>2, <1>3, <1>4, <1>5, Moved

\* What is known of a call by where it is.
LEMMA Here ==
  ASSUME Inv, NEW t \in Task
  PROVE  /\ call[t] \in Calls /\ call[t].failed \in BOOLEAN
         /\ Placed(call[t]) /\ KeyOK(call[t])
         /\ Locking(call[t]) => lock = t
         /\ Issues(call[t]) => locked = {}
         /\ External = {} => locked = {}
         /\ External \in SUBSET Key /\ Targets(t) \in SUBSET Key
         /\ \A k \in External : use[k] = "external"
         /\ call[t].op # "delete" => Targets(t) = External
  BY DEF Inv, TypeOK, Calls, CallsOK, LockOK, KeysOK, External, Targets, UserKeys, Webui

\* An enabling that is taken back fits, wherever it was.
LEMMA UndoFits ==
  ASSUME NEW t \in Task, NEW p \in {"mark", "list"}
  PROVE  Fits(t, Undo(t, p))
  BY ConstantsAssumption
     DEF Fits, Undo, NoCall, Calls, Op, Place, Blocking, Placed, KeyOK, Locking, Issues, Making

\* So does a call that fails.
LEMMA BadFits ==
  ASSUME Inv, NEW t \in Task, call[t].at # "idle"
  PROVE  Fits(t, At(t, "bad"))
  <1>1. call[t].op # "none"
    BY Here DEF Placed
  <1> QED
    BY <1>1, Here DEF At, Calls, Place, Placed, KeyOK, Fits, Locking, Issues, Issuing, Making

\* A call that fails and is an enabling or not.
LEMMA FailedFits ==
  ASSUME Inv, NEW t \in Task, call[t].at # "idle"
  PROVE  Fits(t, Failed(t))
  BY BadFits, UndoFits DEF Failed

\* A call that has handled its list of keys.
LEMMA AfterKeysFits ==
  ASSUME Inv, NEW t \in Task, NEW f \in BOOLEAN, call[t].at \in {"list", "each"}
  PROVE  Fits(t, AfterKeys(t, f))
  <1>1. /\ AfterKeys(t, f) \in Calls
        /\ AfterKeys(t, f).op = call[t].op
        /\ AfterKeys(t, f).key = call[t].key
        /\ AfterKeys(t, f).todo = {}
        /\ AfterKeys(t, f).at = IF call[t].op = "delete" THEN "purge" ELSE "webui"
    BY Here DEF AfterKeys, Calls, Place, Blocking
  <1> HIDE DEF AfterKeys
  <1> QED
    BY <1>1, Here DEF Placed, KeyOK, Fits, Locking, Issues, Issuing, Making

\* A call that takes up a list of keys.
LEMMA TodoFits ==
  ASSUME Inv, NEW t \in Task, NEW S \in SUBSET Key,
         call[t].op # "delete" => S = External,
         NEW p \in {"each", "drop"}, p = "each" => call[t].at = "list",
         p = "drop" => call[t].at = "targets"
  PROVE  Fits(t, [At(t, p) EXCEPT !.todo = S])
  <1> DEFINE c == [At(t, p) EXCEPT !.todo = S]
  <1>1. c \in Calls /\ c.op = call[t].op /\ c.key = call[t].key /\ c.todo = S /\ c.at = p
    BY Here DEF At, Calls, Place, Blocking, Issuing
  <1> HIDE DEF c
  <1>2. Fits(t, c)
    BY <1>1, Here DEF Placed, KeyOK, Fits, Locking, Issues, Issuing, Making
  <1> QED
    BY <1>2 DEF c

\* SetLlmAccessUseCase marks the user, or marks the user again.
LEMMA MarkOK ==
  ASSUME Inv, NEW t \in Task, Mark(t)
  PROVE  Inv'
  <1> DEFINE a == At(t, "list")
             r == IF call[t].op = "undo" THEN At(t, "list")
                  ELSE [At(t, "jobs") EXCEPT !.failed = TRUE]
  <1>1. Tame
    BY Tamed DEF Mark, Request
  <1>2. Replied(t, a, r)
    BY DEF Mark, Request, Replied
  <1>3. call[t].at # "idle"
    BY DEF Mark
  <1>4. Fits(t, a)
    BY Here DEF Mark, At, Calls, Op, Place, Blocking, Placed, KeyOK, Fits, Locking, Issues,
           Issuing, Making
  <1>5. Fits(t, r)
    BY Here DEF Mark, At, Calls, Op, Place, Blocking, Placed, KeyOK, Fits, Locking, Issues,
           Issuing, Making
  <1> HIDE DEF a, r
  <1> QED
    BY <1>1, <1>2, <1>3, <1>4, <1>5, Requested

\* The keys to block are listed.
LEMMA ListOK ==
  ASSUME Inv, NEW t \in Task, List(t)
  PROVE  Inv'
  <1> DEFINE e == AfterKeys(t, call[t].failed)
             a == IF Targets(t) = {} THEN e ELSE [At(t, "each") EXCEPT !.todo = Targets(t)]
             r == AfterKeys(t, TRUE)
  <1>1. call[t].at = "list"
    BY DEF List
  <1>2. Fits(t, e) /\ Fits(t, r)
    BY <1>1, Here, AfterKeysFits
  <1>3. Fits(t, a)
    <2>1. Fits(t, [At(t, "each") EXCEPT !.todo = Targets(t)])
      BY <1>1, Here, TodoFits
    <2> QED
      BY <1>2, <2>1
  <1>4. CASE Query(t, a, r)
    <2> HIDE DEF a, e, r
    <2>1. Tame /\ Replied(t, a, r)
      BY <1>4, Tamed DEF Query, Request, Replied
    <2> QED
      BY <1>1, <1>2, <1>3, <2>1, Requested
  <1>5. CASE Overlook(t, e)
    <2> HIDE DEF e
    <2>1. Tame /\ PortalOK' /\ Go(t, e)
      BY <1>5, OverlookTame
    <2> QED
      BY <1>2, <2>1, MovedTamely
  <1> QED
    BY <1>4, <1>5 DEF List, Listing

\* The user's mark is cleared.
LEMMA UnmarkOK ==
  ASSUME Inv, NEW t \in Task, Unmark(t)
  PROVE  Inv'
  <1> DEFINE a == At(t, "lock")
             r == Undo(t, "list")
  <1>1. Tame
    BY Tamed DEF Unmark, Request
  <1>2. Replied(t, a, r)
    BY DEF Unmark, Request, Replied
  <1>3. call[t].at # "idle"
    BY DEF Unmark
  <1>4. Fits(t, a)
    BY Here DEF Unmark, At, Calls, Op, Place, Blocking, Placed, KeyOK, Fits, Locking, Issues,
           Issuing, Making
  <1>5. Fits(t, r)
    BY <1>3, UndoFits DEF Unmark
  <1> HIDE DEF a, r
  <1> QED
    BY <1>1, <1>2, <1>3, <1>4, <1>5, Requested

\* An enabling looks for a key before it issues one under the lock.
LEMMA ExistsOK ==
  ASSUME Inv, NEW t \in Task, Exists(t)
  PROVE  Inv'
  <1> DEFINE e == At(t, "issue")
             a == At(t, IF External = {} THEN "issue" ELSE "ok")
             r == Failed(t)
  <1>1. call[t].at = "exists"
    BY DEF Exists
  <1>2. /\ e \in Calls /\ e.op = call[t].op /\ Placed(e) /\ KeyOK(e)
        /\ Locking(e) => lock = t
    BY <1>1, Here DEF At, Calls, Place, Issuing, Placed, KeyOK, Locking
  <1>3. Fits(t, r)
    BY <1>1, BadFits, FailedFits
  <1>4. Fits(t, a)
    BY <1>1, Here DEF At, Calls, Place, Issuing, Placed, KeyOK, Fits, Locking, Issues, Making
  <1>5. CASE Query(t, a, r)
    <2> HIDE DEF a, e, r
    <2>1. Tame /\ Replied(t, a, r)
      BY <1>5, Tamed DEF Query, Request, Replied
    <2> QED
      BY <1>1, <1>3, <1>4, <2>1, Requested
  <1>6. CASE Overlook(t, e)
    <2> HIDE DEF e
    <2> QED
      BY <1>1, <1>2, <1>6, OverlookedOK
  <1> QED
    BY <1>5, <1>6 DEF Exists, Listing

\* A rotation issues at once only if there is no external key, so none of the lock's.
LEMMA RotationTargetsOK ==
  ASSUME Inv, NEW t \in Task, RotationTargets(t)
  PROVE  Inv'
  <1> DEFINE e == At(t, "issue")
             a == IF External = {} THEN At(t, "issue")
                  ELSE [At(t, "drop") EXCEPT !.todo = External]
             r == At(t, "bad")
  <1>1. call[t].at = "targets"
    BY DEF RotationTargets
  <1>2. /\ e \in Calls /\ e.op = call[t].op /\ Placed(e) /\ KeyOK(e)
        /\ Locking(e) => lock = t
    BY <1>1, Here DEF At, Calls, Place, Issuing, Placed, KeyOK, Locking
  <1>3. Fits(t, r)
    BY <1>1, BadFits, FailedFits
  <1>4. Fits(t, a)
    <2>1. External = {} => Fits(t, At(t, "issue"))
      BY <1>1, Here DEF At, Calls, Place, Issuing, Placed, KeyOK, Fits, Locking, Issues, Making
    <2>2. Fits(t, [At(t, "drop") EXCEPT !.todo = External])
      BY <1>1, Here, TodoFits
    <2> QED
      BY <2>1, <2>2
  <1>5. CASE Query(t, a, r)
    <2> HIDE DEF a, e, r
    <2>1. Tame /\ Replied(t, a, r)
      BY <1>5, Tamed DEF Query, Request, Replied
    <2> QED
      BY <1>1, <1>3, <1>4, <2>1, Requested
  <1>6. CASE Overlook(t, e)
    <2> HIDE DEF e
    <2> QED
      BY <1>1, <1>2, <1>6, OverlookedOK
  <1> QED
    BY <1>5, <1>6 DEF RotationTargets, Listing

\* The old keys are deleted, the lock's with them.
LEMMA DeleteOldOK ==
  ASSUME Inv, NEW t \in Task, DeleteOld(t)
  PROVE  Inv'
  <1> DEFINE a == At(t, "verify")
             r == At(t, "bad")
  <1>1. Tame
    BY Tamed DEF DeleteOld, Request
  <1>2. Replied(t, a, r)
    BY DEF DeleteOld, Request, Replied
  <1>3. call[t].at # "idle"
    BY DEF DeleteOld
  <1>4. Fits(t, a)
    BY Here DEF DeleteOld, At, Calls, Op, Place, Blocking, Placed, KeyOK, Fits, Locking,
           Issues, Issuing, Making
  <1>5. Fits(t, r)
    BY <1>3, BadFits DEF DeleteOld
  <1> HIDE DEF a, r
  <1> QED
    BY <1>1, <1>2, <1>3, <1>4, <1>5, Requested

\* No external key is left when the rotation issues one.
LEMMA VerifyOK ==
  ASSUME Inv, NEW t \in Task, Verify(t)
  PROVE  Inv'
  <1> DEFINE e == At(t, "issue")
             a == At(t, IF External = {} THEN "issue" ELSE "bad")
             r == At(t, "bad")
  <1>1. call[t].at = "verify"
    BY DEF Verify
  <1>2. /\ e \in Calls /\ e.op = call[t].op /\ Placed(e) /\ KeyOK(e)
        /\ Locking(e) => lock = t
    BY <1>1, Here DEF At, Calls, Place, Issuing, Placed, KeyOK, Locking
  <1>3. Fits(t, r)
    BY <1>1, BadFits, FailedFits
  <1>4. Fits(t, a)
    BY <1>1, Here DEF At, Calls, Place, Issuing, Placed, KeyOK, Fits, Locking, Issues, Making
  <1>5. CASE Query(t, a, r)
    <2> HIDE DEF a, e, r
    <2>1. Tame /\ Replied(t, a, r)
      BY <1>5, Tamed DEF Query, Request, Replied
    <2> QED
      BY <1>1, <1>3, <1>4, <2>1, Requested
  <1>6. CASE Overlook(t, e)
    <2> HIDE DEF e
    <2> QED
      BY <1>1, <1>2, <1>6, OverlookedOK
  <1> QED
    BY <1>5, <1>6 DEF Verify, Listing

\* The user is created when the use case begins.
LEMMA UserForOK ==
  ASSUME Inv, NEW t \in Task, UserFor(t)
  PROVE  Inv'
  <1> DEFINE a == At(t, IF call[t].op = "enable" THEN "list" ELSE "may")
             r == At(t, "bad")
  <1>1. Tame
    BY Tamed DEF UserFor, Request
  <1>2. Replied(t, a, r)
    BY DEF UserFor, Request, Replied
  <1>3. call[t].at # "idle"
    BY DEF UserFor
  <1>4. Fits(t, a)
    BY Here DEF UserFor, At, Calls, Op, Place, Blocking, Placed, KeyOK, Fits, Locking, Issues,
           Issuing, Making
  <1>5. Fits(t, r)
    BY <1>3, BadFits DEF UserFor
  <1> HIDE DEF a, r
  <1> QED
    BY <1>1, <1>2, <1>3, <1>4, <1>5, Requested

\* The mark is looked at before the rotation.
LEMMA CheckOK ==
  ASSUME Inv, NEW t \in Task, Check(t, "check", "targets")
  PROVE  Inv'
  <1> DEFINE a == At(t, IF Permitted THEN "targets" ELSE "bad")
             r == At(t, "bad")
  <1>1. Tame
    BY Tamed DEF Check, Query, Request
  <1>2. Replied(t, a, r)
    BY DEF Check, Query, Request, Replied
  <1>3. call[t].at # "idle"
    BY DEF Check, Query
  <1>4. Fits(t, a)
    BY Here DEF Check, Query, At, Calls, Op, Place, Blocking, Placed, KeyOK, Fits, Locking,
           Issues, Issuing, Making
  <1>5. Fits(t, r)
    BY <1>3, BadFits DEF Check, Query
  <1> HIDE DEF a, r
  <1> QED
    BY <1>1, <1>2, <1>3, <1>4, <1>5, Requested

\* before the Open WebUI key is looked up,
LEMMA MayOK ==
  ASSUME Inv, NEW t \in Task, Check(t, "may", "stored")
  PROVE  Inv'
  <1> DEFINE a == At(t, IF Permitted THEN "stored" ELSE "bad")
             r == At(t, "bad")
  <1>1. Tame
    BY Tamed DEF Check, Query, Request
  <1>2. Replied(t, a, r)
    BY DEF Check, Query, Request, Replied
  <1>3. call[t].at # "idle"
    BY DEF Check, Query
  <1>4. Fits(t, a)
    BY Here DEF Check, Query, At, Calls, Op, Place, Blocking, Placed, KeyOK, Fits, Locking,
           Issues, Issuing, Making
  <1>5. Fits(t, r)
    BY <1>3, BadFits DEF Check, Query
  <1> HIDE DEF a, r
  <1> QED
    BY <1>1, <1>2, <1>3, <1>4, <1>5, Requested

\* and before it is generated.
LEMMA RecheckOK ==
  ASSUME Inv, NEW t \in Task, Check(t, "recheck", "generate")
  PROVE  Inv'
  <1> DEFINE a == At(t, IF Permitted THEN "generate" ELSE "bad")
             r == At(t, "bad")
  <1>1. Tame
    BY Tamed DEF Check, Query, Request
  <1>2. Replied(t, a, r)
    BY DEF Check, Query, Request, Replied
  <1>3. call[t].at # "idle"
    BY DEF Check, Query
  <1>4. Fits(t, a)
    BY Here DEF Check, Query, At, Calls, Op, Place, Blocking, Placed, KeyOK, Fits, Locking,
           Issues, Issuing, Making
  <1>5. Fits(t, r)
    BY <1>3, BadFits DEF Check, Query
  <1> HIDE DEF a, r
  <1> QED
    BY <1>1, <1>2, <1>3, <1>4, <1>5, Requested

\* The user is created before a key is issued.
LEMMA UserForKeyOK ==
  ASSUME Inv, NEW t \in Task, UserForKey(t)
  PROVE  Inv'
  <1> DEFINE a == At(t, IF call[t].op = "webui" THEN "recheck" ELSE "generate")
             r == Failed(t)
  <1>1. Tame
    BY Tamed DEF UserForKey, Request
  <1>2. Replied(t, a, r)
    BY DEF UserForKey, Request, Replied
  <1>3. call[t].at # "idle"
    BY DEF UserForKey
  <1>4. Fits(t, a)
    BY Here DEF UserForKey, At, Calls, Op, Place, Blocking, Placed, KeyOK, Fits, Locking,
           Issues, Issuing, Making
  <1>5. Fits(t, r)
    BY <1>3, FailedFits DEF UserForKey
  <1> HIDE DEF a, r
  <1> QED
    BY <1>1, <1>2, <1>3, <1>4, <1>5, Requested

\* One key of the list is blocked or unblocked.
LEMMA EachOK ==
  ASSUME Inv, NEW t \in Task, Each(t)
  PROVE  Inv'
  <1>1. PICK k \in call[t].todo :
          LET Then(failed) ==
                IF call[t].todo = {k} THEN AfterKeys(t, failed \/ call[t].failed)
                ELSE [call[t] EXCEPT !.todo = @ \ {k}, !.failed = failed \/ @]
          IN  IF use[k] = "deleted"
              THEN Step(t, Then(TRUE))
              ELSE Request(t, SetBlocked(k, call[t].op # "enable"), Then(FALSE), Then(TRUE))
    BY DEF Each
  <1>2. call[t].at = "each" /\ k \in Key
    BY Here DEF Each, Calls
  <1> DEFINE Rest(failed) == [call[t] EXCEPT !.todo = @ \ {k}, !.failed = failed \/ @]
             Then(failed) == IF call[t].todo = {k} THEN AfterKeys(t, failed \/ call[t].failed)
                             ELSE Rest(failed)
  <1>3. ASSUME NEW f \in BOOLEAN PROVE Fits(t, Then(f))
    <2>1. Fits(t, AfterKeys(t, f \/ call[t].failed))
      BY <1>2, Here, AfterKeysFits
    <2>2. /\ Rest(f) \in Calls /\ Rest(f).op = call[t].op /\ Rest(f).at = call[t].at
          /\ Rest(f).key = call[t].key /\ Rest(f).todo = call[t].todo \ {k}
      BY Here DEF Calls
    <2>3. Fits(t, Rest(f))
      <3> HIDE DEF Rest
      <3> QED
        BY <2>2, <1>2, Here DEF Placed, KeyOK, Fits, Locking, Issues, Issuing, Making
    <2> QED
      BY <2>1, <2>3
  <1>4. CASE use[k] = "deleted"
    <2>1. Step(t, Then(TRUE))
      BY <1>1, <1>4
    <2>2. Tame /\ PortalOK' /\ Go(t, Then(TRUE))
      BY <2>1, Tamed DEF Step, counters, Go, Inv, TypeOK, PortalOK
    <2> QED
      BY <2>2, <1>3, MovedTamely
  <1>5. CASE use[k] # "deleted"
    <2>1. Request(t, SetBlocked(k, call[t].op # "enable"), Then(FALSE), Then(TRUE))
      BY <1>1, <1>5
    <2>2. call[t].op = "enable" => use[k] # "openwebui"
      BY Here DEF KeyOK
    <2>3. Tame
      BY <2>1, <2>2, <1>2, Tamed DEF Request
    <2>4. Replied(t, Then(FALSE), Then(TRUE))
      BY <2>1 DEF Request, Replied
    <2> HIDE DEF Then
    <2> QED
      BY <2>3, <2>4, <1>2, <1>3, Requested
  <1> QED
    BY <1>4, <1>5

\* The end of the work on the key in the file.
LEMMA AfterWebuiFits ==
  ASSUME Inv, NEW t \in Task, NEW f \in BOOLEAN, call[t].at = "webui"
  PROVE  Fits(t, AfterWebui(t, f))
  <1>1. call[t].op \in {"disable", "enable", "undo"}
    BY Here DEF Placed
  <1>2. CASE call[t].op = "disable"
    <2>1. Fits(t, [At(t, "jobs") EXCEPT !.failed = f])
      BY <1>2, Here DEF At, Calls, Place, Blocking, Placed, KeyOK, Fits, Locking, Issues,
             Issuing, Making
    <2> QED
      BY <2>1, <1>2 DEF AfterWebui
  <1>3. CASE call[t].op = "undo"
    <2>1. Fits(t, [At(t, "bad") EXCEPT !.failed = f])
      BY <1>3, Here DEF At, Calls, Place, Blocking, Placed, KeyOK, Fits, Locking, Issues,
             Issuing, Making
    <2> QED
      BY <2>1, <1>3 DEF AfterWebui
  <1>4. CASE call[t].op = "enable" /\ f
    BY <1>4, UndoFits DEF AfterWebui
  <1>5. CASE call[t].op = "enable" /\ ~f
    <2>1. Fits(t, At(t, "unmark"))
      BY <1>5, Here DEF At, Calls, Place, Blocking, Placed, KeyOK, Fits, Locking, Issues,
             Issuing, Making
    <2> QED
      BY <2>1, <1>5 DEF AfterWebui
  <1> QED
    BY <1>1, <1>2, <1>3, <1>4, <1>5

\* The key file is removed, because its key is gone or with the account.
LEMMA Emptied ==
  ASSUME Inv, NEW t \in Task, NEW c \in Calls, Go(t, c),
         UNCHANGED <<litellm, account, job, calls, known, stopped>>, faults' \in 0..MaxFaults,
         store' = NoKey, forgotten \subseteq forgotten', forgotten' \subseteq Key,
         store \in forgotten' \cup {NoKey},
         c.op \in {call[t].op, "undo", "none"}, Placed(c), KeyOK(c)',
         Locking(c) => lock = t, Issues(c) => locked = {}
  PROVE  Inv'
  <1>1. Moves(t, c) /\ (Locking(c) => lock' = t)
    BY DEF Moves, Go, Locking
  <1>2. LitellmOK' /\ PortalOK' /\ Aged
    BY DEF litellm, Go, Inv, TypeOK, LitellmOK, PortalOK, Aged
  <1>3. /\ \A k \in known' : use'[k] # "unused"
        /\ locked' \subseteq External' /\ locked' = locked
        /\ NoStrayKey'
    BY ConstantsAssumption DEF litellm, Inv, TypeOK, KeysOK, NoStrayKey, External, Webui
  <1>5. store' \notin Key
    BY ConstantsAssumption
  <1>6. store' = store \/ (store' = NoKey /\ (store \in forgotten' \/ use'[store] = "deleted"))
    OBVIOUS
  <1> QED
    BY <1>1, <1>2, <1>3, <1>5, <1>6, Moved

\* So it is when LiteLLM is understood not to know the key.
LEMMA MissingOK ==
  ASSUME Inv, NEW t \in Task, NEW c \in Calls, Missing(t, c),
         c.op \in {call[t].op, "undo", "none"}, Placed(c), KeyOK(c)',
         ~Locking(c), ~Issues(c)
  PROVE  Inv'
  <1>1. faults' \in 0..MaxFaults
    BY ConstantsAssumption DEF Missing, Inv, TypeOK
  <1>2. store \in Key /\ store' = NoKey /\ forgotten' = forgotten \cup {store}
    BY DEF Missing, Inv, TypeOK
  <1> QED
    BY <1>1, <1>2, Emptied DEF Missing, Inv, TypeOK

\* The key in the file is blocked or unblocked, or given up.
LEMMA StoredKeyOK ==
  ASSUME Inv, NEW t \in Task, StoredKey(t)
  PROVE  Inv'
  <1> DEFINE a == AfterWebui(t, call[t].failed)
             r == AfterWebui(t, TRUE)
  <1>1. Fits(t, a) /\ Fits(t, r) /\ call[t].at = "webui"
    BY Here, AfterWebuiFits DEF StoredKey
  <1> HIDE DEF a, r
  <1>2. CASE store = NoKey /\ Step(t, a)
    <2>2. Tame /\ PortalOK' /\ Go(t, a)
      BY <1>2, Tamed DEF Step, counters, Go, Inv, TypeOK, PortalOK
    <2> QED
      BY <2>2, <1>1, MovedTamely
  <1>3. CASE Missing(t, a)
    <2>1. PICK c : c = a
      OBVIOUS
    <2>2. Fits(t, c) /\ Missing(t, c)
      BY <1>1, <1>3, <2>1
    <2>3. c.at \in {"jobs", "bad", "mark", "unmark"}
      BY <2>1, <1>1, Here DEF a, AfterWebui, At, Undo, NoCall, Calls, Placed
    <2>4. ~Locking(c) /\ ~Issues(c)
      BY <2>3 DEF Locking, Issues, Issuing
    <2>5. KeyOK(c)'
      BY <2>2, <2>3 DEF Fits, KeyOK, Missing, litellm, Making
    <2> QED
      BY <2>2, <2>4, <2>5, MissingOK DEF Fits
  <1>4. CASE /\ store # NoKey
            /\ Request(t, SetBlocked(store, call[t].op # "enable"), a, r)
    <2>1. Request(t, SetBlocked(store, call[t].op # "enable"), a, r)
      BY <1>4
    <2>2. Tame
      BY <2>1, <1>4, Tamed DEF Request, Inv, TypeOK
    <2>3. Replied(t, a, r)
      BY <2>1 DEF Request, Replied
    <2> QED
      BY <2>2, <2>3, <1>1, Requested
  <1> QED
    BY <1>2, <1>3, <1>4 DEF StoredKey, a, r

\* The Open WebUI job is cancelled.
LEMMA StopJobsOK ==
  ASSUME Inv, NEW t \in Task, StopJobs(t)
  PROVE  Inv'
  <1>1. Tame /\ PortalOK'
    BY Tamed, ConstantsAssumption DEF StopJobs, Go, Inv, TypeOK, PortalOK
  <1>2. Go(t, At(t, "ok")) \/ Go(t, At(t, "bad"))
    BY DEF StopJobs
  <1>3. call[t].at = "jobs"
    BY DEF StopJobs
  <1>4. Fits(t, At(t, "ok"))
    BY <1>3, Here DEF At, Calls, Place, Placed, KeyOK, Fits, Locking, Issues, Issuing, Making
  <1>5. Fits(t, At(t, "bad"))
    BY <1>3, BadFits
  <1> QED
    BY <1>1, <1>2, <1>4, <1>5, MovedTamely

\* A deletion removes the key file.
LEMMA ForgetOK ==
  ASSUME Inv, NEW t \in Task, Forget(t)
  PROVE  Inv'
  <1>0. PICK c : c = At(t, "list")
    OBVIOUS
  <1>1. c \in Calls /\ c.op = "delete" /\ c.at = "list" /\ c.key = call[t].key
    BY <1>0, Here DEF Forget, At, Calls, Place, Blocking, Placed
  <1>2. /\ Go(t, c) /\ store' = NoKey /\ forgotten' = (forgotten \cup {store}) \ {NoKey}
        /\ UNCHANGED <<litellm, account, job, calls, known, stopped>>
        /\ faults' \in 0..MaxFaults
    BY <1>0 DEF Forget, counters, Inv, TypeOK
  <1>3. call[t].op = "delete"
    BY Here DEF Forget, Placed
  <1>4. KeyOK(c)'
    BY <1>1, <1>2, <1>3, Here DEF KeyOK, litellm, Made
  <1>5. Placed(c) /\ ~Locking(c) /\ ~Issues(c)
    BY <1>1 DEF Placed, Locking, Issues
  <1> QED
    BY <1>1, <1>2, <1>3, <1>4, <1>5, Emptied, ConstantsAssumption DEF Inv, TypeOK

\* The user is deleted.
LEMMA PurgeOK ==
  ASSUME Inv, NEW t \in Task, Purge(t)
  PROVE  Inv'
  <1> DEFINE a == At(t, IF call[t].failed THEN "bad" ELSE "ok")
  <1>1. Replied(t, a, At(t, "again")) \/ Replied(t, a, At(t, "bad"))
    BY DEF Purge, Request, Replied
  <1>2. Tame
    BY Tamed DEF Purge, Request
  <1>3. call[t].at \in {"purge", "again"}
    BY DEF Purge
  <1>4. Fits(t, At(t, "bad")) /\ Fits(t, At(t, "again")) /\ Fits(t, At(t, "ok"))
    BY <1>3, Here, BadFits DEF At, Calls, Place, Blocking, Placed, KeyOK, Fits, Locking,
           Issues, Issuing, Making
  <1>5. Fits(t, a)
    BY <1>4
  <1> HIDE DEF a
  <1> QED
    BY <1>1, <1>2, <1>3, <1>4, <1>5, Requested

\* The lock is taken only when nobody holds it.
LEMMA AcquireOK ==
  ASSUME Inv, NEW t \in Task, Acquire(t)
  PROVE  Inv'
  <1>1. call[t].at = "lock"
    BY DEF Acquire
  <1>2. CASE Step(t, At(t, "bad"))
    <2>1. Tame /\ PortalOK' /\ Go(t, At(t, "bad"))
      BY <1>2, Tamed DEF Step, counters, Go, Inv, TypeOK, PortalOK
    <2> QED
      BY <2>1, <1>1, BadFits, MovedTamely
  <1>3. CASE ~Step(t, At(t, "bad"))
    <2>1. PICK c : c = [call[t] EXCEPT !.at = IF call[t].op = "rotate" THEN "check" ELSE "exists"]
      OBVIOUS
    <2>2. /\ lock = NoTask /\ lock' = t
          /\ call' = [call EXCEPT ![t] = c]
          /\ UNCHANGED <<litellm, store, account, job, counters, known, forgotten, stopped>>
      BY <1>3, <2>1 DEF Acquire
    <2>3. Fits(t, [c EXCEPT !.at = "lock"]) /\ c \in Calls /\ Placed(c) /\ ~Issues(c)
          /\ c.op = call[t].op /\ c.at \in {"check", "exists"}
          /\ c.key = call[t].key /\ c.todo = call[t].todo
      BY <1>1, <2>1, Here DEF Calls, Place, Issuing, Placed, KeyOK, Fits, Locking, Issues,
             Making
    <2>4. KeyOK(c)'
      BY <2>2, <2>3, Here DEF KeyOK, litellm, Made, Making
    <2>5. Moves(t, c)
      BY <2>2, <2>3, ConstantsAssumption DEF Moves
    <2>6. Tame
      BY <2>2, Tamed
    <2>7. PortalOK'
      BY <2>2 DEF counters, Inv, TypeOK, PortalOK
    <2> QED
      BY <2>2, <2>3, <2>4, <2>5, <2>6, <2>7, MovedKept
  <1> QED
    BY <1>2, <1>3

\* An old key is blocked.
LEMMA BlockOldOK ==
  ASSUME Inv, NEW t \in Task, BlockOld(t)
  PROVE  Inv'
  <1>1. PICK k \in call[t].todo :
          IF use[k] = "deleted" THEN Step(t, At(t, "bad"))
          ELSE Request(t, SetBlocked(k, TRUE),
                       [call[t] EXCEPT !.todo = call[t].todo \ {k},
                                       !.at = IF call[t].todo \ {k} = {} THEN "delete" ELSE @],
                       At(t, "bad"))
    BY DEF BlockOld
  <1> DEFINE a == [call[t] EXCEPT !.todo = call[t].todo \ {k},
                                  !.at = IF call[t].todo \ {k} = {} THEN "delete" ELSE @]
  <1>2. call[t].at = "drop" /\ k \in Key
    BY Here DEF BlockOld, Calls
  <1>3. Fits(t, At(t, "bad"))
    BY <1>2, BadFits
  <1>4. Fits(t, a)
    <2>1. a \in Calls /\ a.op = call[t].op /\ a.at \in {"drop", "delete"} /\ a.key = call[t].key
          /\ a.todo = call[t].todo \ {k}
      BY <1>2, Here DEF Calls, Place, Issuing
    <2> HIDE DEF a
    <2> QED
      BY <2>1, <1>2, Here DEF Placed, KeyOK, Fits, Locking, Issues, Issuing, Making
  <1>5. CASE use[k] = "deleted"
    <2>1. Tame /\ PortalOK' /\ Go(t, At(t, "bad"))
      BY <1>1, <1>5, Tamed DEF Step, counters, Go, Inv, TypeOK, PortalOK
    <2> QED
      BY <2>1, <1>3, MovedTamely
  <1>6. CASE use[k] # "deleted"
    <2>1. Request(t, SetBlocked(k, TRUE), a, At(t, "bad"))
      BY <1>1, <1>6
    <2> HIDE DEF a
    <2>2. Tame
      BY <2>1, <1>2, Tamed DEF Request
    <2>3. Replied(t, a, At(t, "bad"))
      BY <2>1 DEF Request, Replied
    <2> QED
      BY <2>2, <2>3, <1>2, <1>3, <1>4, Requested
  <1> QED
    BY <1>5, <1>6

\* A key that is generated was unused; one issued under the lock is the only
\* one of that kind.
LEMMA GenerateKeyOK ==
  ASSUME Inv, NEW t \in Task, GenerateKey(t)
  PROVE  Inv'
  <1>1. call[t].at = "generate"
    BY DEF GenerateKey
  <1>2. CASE Step(t, Failed(t))
    <2>1. Tame /\ PortalOK' /\ Go(t, Failed(t))
      BY <1>2, Tamed DEF Step, counters, Go, Inv, TypeOK, PortalOK
    <2> QED
      BY <2>1, <1>1, FailedFits, MovedTamely
  <1>3. CASE ~Step(t, Failed(t))
    <2>1. PICK k \in Key :
            /\ use[k] = "unused"
            /\ Request(t, Generate(t, k),
                       [At(t, IF call[t].op = "webui" THEN "write" ELSE "ok") EXCEPT !.key = k],
                       Failed(t))
      BY <1>3 DEF GenerateKey
    <2>2. PICK a : a = [At(t, IF call[t].op = "webui" THEN "write" ELSE "ok") EXCEPT !.key = k]
      OBVIOUS
    <2>3. /\ a \in Calls /\ a.op = call[t].op /\ a.key = k /\ a.todo = call[t].todo
          /\ a.at = IF call[t].op = "webui" THEN "write" ELSE "ok"
      BY <2>2, Here DEF At, Calls, Place
    <2>4. Replied(t, a, Failed(t))
      BY <2>1, <2>2 DEF Request, Replied
    <2>5. Fits(t, Failed(t)) /\ Fits(t, At(t, "broken"))
      BY <1>1, FailedFits, BreaksOff
    <2>6. CASE UNCHANGED litellm /\ (Go(t, Failed(t)) \/ Go(t, At(t, "broken")))
      <3>1. Tame
        BY <2>4, <2>6, Tamed DEF Replied
      <3>2. PortalOK'
        BY <2>4, ConstantsAssumption DEF Replied, Go, Inv, TypeOK, PortalOK
      <3> QED
        BY <2>4, <2>5, <2>6, <3>1, <3>2, MovedTamely DEF Replied
    <2>7. CASE Generate(t, k)
      <3>1. PICK c \in {a, Failed(t), At(t, "broken")} : Go(t, c)
        BY <2>4 DEF Replied
      <3>2. /\ UNCHANGED <<store, known, forgotten>>
            /\ use' = [use EXCEPT ![k] = IF call[t].op = "webui" THEN "openwebui" ELSE "external"]
            /\ locked' = IF call[t].op \in {"enable", "rotate"} THEN locked \cup {k} ELSE locked
            /\ blocked' = blocked
        BY <2>4, <2>7 DEF Replied, Generate
      <3>3. PortalOK'
        BY <2>4, ConstantsAssumption DEF Replied, Go, Inv, TypeOK, PortalOK
      <3>4. LitellmOK' /\ Aged
        BY <2>1, <2>7 DEF Generate, Inv, TypeOK, LitellmOK, Aged
      <3>5. k \notin known /\ k # store
        BY <2>1 DEF Inv, KeysOK
      <3>6. /\ \A x \in known' : use'[x] # "unused"
            /\ locked' \subseteq External'
            /\ store' \in Key => use'[store'] \in {"openwebui", "deleted"}
        BY <2>1, <3>2, <3>5 DEF Inv, TypeOK, KeysOK, External
      <3>7. NoStrayKey'
        <4>1. known' \cap Webui' \subseteq known \cap Webui
          BY <2>1, <3>2, <3>5 DEF Inv, TypeOK, Webui
        <4> QED
          BY <3>2, <4>1 DEF Inv, KeysOK, NoStrayKey
      <3>8. locked = {} => locked' = {} \/ lock = t
        BY <3>2, <1>1, Here DEF Locking, Issuing
      <3>9. c \in Calls /\ Placed(c) /\ ~Issues(c) /\ ~Locking(c)
            /\ c.op \in {call[t].op, "undo", "none"}
        <4>1. CASE c = a
          BY <4>1, <2>3, <1>1, Here DEF Placed, Issues, Locking, Issuing
        <4>2. CASE c \in {Failed(t), At(t, "broken")}
          <5>1. c.at \in {"mark", "bad", "broken"}
            BY <4>2, Here DEF Failed, Undo, NoCall, At, Calls
          <5> QED
            BY <4>2, <5>1, <2>5 DEF Fits, Issues, Locking, Issuing
        <4> QED
          BY <4>1, <4>2
      <3>10. KeyOK(c)'
        <4>1. CASE c = a
          BY <4>1, <1>1, <2>1, <2>3, <3>2, Here DEF KeyOK, Made, Making, Inv, TypeOK, Calls
        <4>2. CASE c \in {Failed(t), At(t, "broken")}
          BY <4>2, <2>5, <3>2, <3>4, <3>9 DEF Fits, KeyOK, Made, Aged, Inv, TypeOK, Calls
        <4> QED
          BY <4>1, <4>2
      <3>11. Moves(t, c)
        BY <3>1, <3>9 DEF Moves, Go
      <3> QED
        BY <3>2, <3>3, <3>4, <3>6, <3>7, <3>8, <3>9, <3>10, <3>11, Moved
    <2> QED
      BY <2>1, <2>2, <2>6, <2>7 DEF Request
  <1> QED
    BY <1>2, <1>3

\* The stored key is taken up, given up, or in the way.
LEMMA StoredOK ==
  ASSUME Inv, NEW t \in Task, Stored(t)
  PROVE  Inv'
  <1>1. call[t].at = "stored" /\ call[t].op = "webui"
    BY Here DEF Stored, Placed
  <1>2. Fits(t, At(t, "bad"))
    BY <1>1, BadFits
  <1>3. CASE store = NoKey /\ Step(t, At(t, "issue"))
    <2>1. Fits(t, At(t, "issue"))
      BY <1>1, <1>3, Here DEF At, Calls, Place, Issuing, Placed, KeyOK, Fits, Locking, Issues
    <2>2. Tame /\ PortalOK' /\ Go(t, At(t, "issue"))
      BY <1>3, Tamed DEF Step, counters, Go, Inv, TypeOK, PortalOK
    <2> QED
      BY <2>1, <2>2, MovedTamely
  <1>4. CASE Missing(t, At(t, "issue"))
    <2>1. PICK c : c = At(t, "issue")
      OBVIOUS
    <2>2. Missing(t, c)
      BY <1>4, <2>1
    <2>3. /\ c \in Calls /\ c.op = "webui" /\ c.at = "issue" /\ c.key = call[t].key
          /\ c.todo = call[t].todo
      BY <1>1, <2>1, Here DEF At, Calls, Place, Issuing
    <2>4. KeyOK(c)' /\ Placed(c) /\ ~Locking(c) /\ ~Issues(c)
      BY <1>1, <2>2, <2>3, Here DEF KeyOK, Made, Missing, litellm, Placed, Locking, Issues
    <2> QED
      BY <1>1, <2>2, <2>3, <2>4, MissingOK
  <1>5. CASE /\ store # NoKey
            /\ Query(t, IF KeyInfo(store) = "valid" THEN [At(t, "ok") EXCEPT !.key = store]
                        ELSE At(t, "bad"), At(t, "bad"))
    <2> DEFINE a == IF KeyInfo(store) = "valid" THEN [At(t, "ok") EXCEPT !.key = store]
                    ELSE At(t, "bad")
    <2>1. Query(t, a, At(t, "bad"))
      BY <1>5
    <2>2. Fits(t, [At(t, "ok") EXCEPT !.key = store])
      BY <1>1, <1>5, Here
         DEF At, Calls, Place, Placed, KeyOK, Fits, Locking, Issues, Issuing, Made, Making,
         Inv, TypeOK, KeysOK
    <2>3. Fits(t, a)
      BY <2>2, <1>2
    <2> HIDE DEF a
    <2>4. Tame /\ Replied(t, a, At(t, "bad"))
      BY <2>1, Tamed DEF Query, Request, Replied
    <2> QED
      BY <1>1, <1>2, <2>3, <2>4, Requested
  <1> QED
    BY <1>3, <1>4, <1>5 DEF Stored

\* The key is written to a file that held none.
LEMMA WriteOK ==
  ASSUME Inv, NEW t \in Task, Write(t)
  PROVE  Inv'
  <1>1. call[t].at = "write" /\ call[t].op = "webui" /\ call[t].key \in Key /\ store = NoKey
    BY Here DEF Write, Placed, KeyOK, Making
  <1>2. UNCHANGED <<litellm, account, job, calls, known, forgotten, stopped>>
    BY DEF Write
  <1>3. CASE Go(t, At(t, "discard")) /\ UNCHANGED store /\ faults' = faults + 1
    <2>1. Fits(t, At(t, "discard"))
      BY <1>1, Here DEF At, Calls, Place, Placed, KeyOK, Fits, Locking, Issues, Issuing, Making
    <2>2. Tame /\ PortalOK'
      BY <1>2, <1>3, Tamed, ConstantsAssumption DEF Write, Go, Inv, TypeOK, PortalOK
    <2> QED
      BY <1>3, <2>1, <2>2, MovedTamely
  <1>4. CASE Go(t, At(t, "ok")) /\ store' = call[t].key /\ UNCHANGED faults
    <2>1. PICK c : c = At(t, "ok")
      OBVIOUS
    <2>2. /\ c \in Calls /\ c.op = "webui" /\ c.at = "ok" /\ c.key = call[t].key
          /\ c.todo = call[t].todo
      BY <1>1, <2>1, Here DEF At, Calls, Place
    <2>3. KeyOK(c)' /\ Placed(c) /\ ~Locking(c) /\ ~Issues(c)
      BY <1>1, <1>2, <1>4, <2>2, Here DEF KeyOK, Made, Making, litellm, Placed, Locking, Issues
    <2>4. Moves(t, c)
      BY <1>1, <1>4, <2>1, <2>2 DEF Moves, Go
    <2>5. LitellmOK' /\ PortalOK' /\ Aged /\ locked' = locked /\ External' = External
      BY <1>1, <1>2, <1>4 DEF litellm, Go, Inv, TypeOK, LitellmOK, PortalOK, Aged, External
    <2>6. /\ use'[store'] \in {"openwebui", "deleted"}
          /\ \A k \in known' : use'[k] # "unused"
          /\ locked' \subseteq External'
          /\ NoStrayKey'
      BY <1>1, <1>2, <1>4, <2>5, Here, ConstantsAssumption
         DEF litellm, KeyOK, Made, Inv, TypeOK, KeysOK, NoStrayKey, Webui
    <2> QED
      BY <1>1, <1>2, <2>2, <2>3, <2>4, <2>5, <2>6, Moved
  <1> QED
    BY <1>3, <1>4 DEF Write

\* A key that could not be written is blocked.
LEMMA DiscardOK ==
  ASSUME Inv, NEW t \in Task, Discard(t)
  PROVE  Inv'
  <1>1. call[t].at = "discard" /\ call[t].key \in Key
    BY Here DEF Discard, KeyOK
  <1>2. Fits(t, At(t, "bad"))
    BY <1>1, BadFits
  <1>3. CASE Step(t, At(t, "bad"))
    <2>1. Tame /\ PortalOK' /\ Go(t, At(t, "bad"))
      BY <1>3, Tamed DEF Step, counters, Go, Inv, TypeOK, PortalOK
    <2> QED
      BY <2>1, <1>2, MovedTamely
  <1>4. CASE Request(t, SetBlocked(call[t].key, TRUE), At(t, "bad"), At(t, "bad"))
    <2>1. Tame
      BY <1>4, <1>1, Tamed DEF Request
    <2>2. Replied(t, At(t, "bad"), At(t, "bad"))
      BY <1>4 DEF Request, Replied
    <2> QED
      BY <1>1, <1>2, <2>1, <2>2, Requested
  <1> QED
    BY <1>3, <1>4 DEF Discard

\* A key that is handed over is the one in the file, or an external one.
LEMMA ReturnOK ==
  ASSUME Inv, NEW t \in Task, Return(t)
  PROVE  Inv'
  <1>1. PICK c : c = NoCall
    OBVIOUS
  <1>2. c \in Calls /\ c.op = "none" /\ c.at = "idle" /\ c.key = NoKey /\ c.todo = {}
    BY <1>1 DEF NoCall, Calls, Place
  <1>3. /\ Go(t, c)
        /\ UNCHANGED <<user, use, blocked, locked, excused, store, account, forgotten, counters>>
        /\ stale' \subseteq stale /\ held' \subseteq held
        /\ known' \in {known, known \cup {call[t].key}}
        /\ job' \in {job, call[t].key}
        /\ stopped' \in BOOLEAN
        /\ known' # known => call[t].at = "ok" /\ call[t].key # NoKey
    BY <1>1 DEF Return
  <1>4. call[t].key \in Key \cup {NoKey}
    BY Here DEF Calls
  <1>5. Placed(c) /\ KeyOK(c)' /\ ~Locking(c) /\ ~Issues(c)
    BY <1>2, ConstantsAssumption DEF Placed, KeyOK, Locking, Issues, Making
  <1>6. Moves(t, c)
    BY <1>2, <1>3 DEF Moves, Go
  <1>7. LitellmOK' /\ PortalOK' /\ Aged
    BY <1>3, <1>4 DEF counters, Go, Inv, TypeOK, LitellmOK, PortalOK, Aged
  <1>8. \A k \in known' : use'[k] # "unused"
    BY <1>3, <1>4, Here DEF KeyOK, Made, Inv, KeysOK
  <1>9. NoStrayKey'
    <2>1. call[t].at = "ok" /\ call[t].key \in Key =>
             use[call[t].key] # "openwebui" \/ call[t].key \in {store} \cup forgotten
      BY Here DEF KeyOK, Made
    <2> QED
      BY <1>3, <1>4, <2>1 DEF Inv, KeysOK, NoStrayKey, Webui
  <1>10. locked' = locked /\ locked' \subseteq External' /\ store' = store
         /\ (store' \in Key => use'[store'] \in {"openwebui", "deleted"})
    BY <1>3 DEF Inv, KeysOK, External
  <1> QED
    BY <1>2, <1>3, <1>5, <1>6, <1>7, <1>8, <1>9, <1>10, Moved

\* A call begins where its use case begins.
LEMMA BeginOK ==
  ASSUME Inv, NEW t \in Task, NEW op \in Op, NEW place, Begin(t, op, place),
         account' \in BOOLEAN, stopped' \in BOOLEAN, held' \subseteq Task,
         <<op, place>> \in {<<"disable", "mark">>, <<"enable", "user">>, <<"rotate", "lock">>,
                            <<"webui", "user">>, <<"create", "issue">>, <<"delete", "forget">>},
         op = "webui" => \A u \in Task : call[u].op # "webui"
  PROVE  Inv'
  <1>1. PICK c : c = [NoCall EXCEPT !.op = op, !.at = place]
    OBVIOUS
  <1>2. c \in Calls /\ c.op = op /\ c.at = place /\ c.key = NoKey /\ c.todo = {}
    BY <1>1 DEF NoCall, Calls, Place, Blocking, Issuing
  <1>3. /\ call' = [call EXCEPT ![t] = c]
        /\ UNCHANGED <<user, use, blocked, locked, stale, excused, store, lock, job,
                       faults, known, forgotten>>
        /\ calls < MaxCalls /\ calls' = calls + 1
    BY <1>1 DEF Begin
  <1>4. Tame /\ PortalOK'
    BY <1>3, ConstantsAssumption
       DEF Tame, Inv, TypeOK, LitellmOK, PortalOK, Aged, KeysOK, External, NoStrayKey, Webui
  <1>5. Placed(c) /\ KeyOK(c)' /\ ~Locking(c) /\ ~Issues(c)
    BY <1>2, ConstantsAssumption DEF Placed, KeyOK, Locking, Issues, Issuing, Making
  <1> QED
    BY <1>2, <1>3, <1>4, <1>5, MovedKept DEF Moves
-----------------------------------------------------------------------------
\* The invariant holds at first.
LEMMA InitOK == Init => Inv
  <1> SUFFICES ASSUME Init PROVE Inv
    OBVIOUS
  <1>1. /\ NoCall \in Calls /\ NoCall.op = "none" /\ NoCall.at = "idle"
        /\ NoCall.todo = {} /\ NoCall.key = NoKey
    BY DEF NoCall, Calls, Place
  <1>2. call = [t \in Task |-> NoCall] /\ \A t \in Task : call[t] = NoCall
    BY DEF Init
  <1>3. TypeOK
    <2>1. /\ use = [k \in Key |-> "unused"] /\ user = "absent" /\ blocked = {} /\ store = NoKey
          /\ lock = NoTask /\ account = FALSE /\ job = NoKey /\ calls = 0 /\ faults = 0
          /\ known = {} /\ locked = {} /\ stale = {} /\ excused = {} /\ held = {}
          /\ forgotten = {} /\ stopped = FALSE
      BY DEF Init
    <2>2. use \in [Key -> {"unused", "external", "openwebui", "deleted"}]
      BY <2>1
    <2>3. calls \in 0..MaxCalls /\ faults \in 0..MaxFaults
      BY <2>1, ConstantsAssumption
    <2> QED
      BY <1>1, <1>2, <2>1, <2>2, <2>3 DEF TypeOK
  <1>4. CallsOK
    BY <1>1, <1>2, ConstantsAssumption DEF CallsOK, Placed, KeyOK, Making
  <1>5. KeysOK
    BY <1>1, <1>2, ConstantsAssumption DEF Init, KeysOK, NoStrayKey, External, Webui
  <1>6. LockOK
    BY <1>1, <1>2 DEF LockOK, Locking, Issues
  <1> QED
    BY <1>3, <1>4, <1>5, <1>6 DEF Inv

\* Every step of a call keeps it,
LEMMA CallingOK ==
  ASSUME Inv, NEW t \in Task, Calling(t)
  PROVE  Inv'
  BY MarkOK, ListOK, EachOK, StoredKeyOK, UnmarkOK, StopJobsOK, ForgetOK, PurgeOK, AcquireOK,
     ExistsOK, RotationTargetsOK, BlockOldOK, DeleteOldOK, VerifyOK, CheckOK, MayOK, RecheckOK,
     UserForOK, UserForKeyOK, GenerateKeyOK, StoredOK, WriteOK, DiscardOK, ReturnOK
     DEF Calling, Recheck

\* and so does every beginning.
LEMMA BeginsOK ==
  ASSUME Inv, NEW t \in Task,
         \/ BeginSetLlmAccess(t) \/ BeginRotate(t) \/ BeginOpenwebui(t)
         \/ CreateAccount(t) \/ DeleteAccount(t)
  PROVE  Inv'
  <1>1. account \in BOOLEAN /\ stopped \in BOOLEAN /\ held \subseteq Task
    BY DEF Inv, TypeOK
  <1>2. CASE BeginSetLlmAccess(t)
    BY <1>1, <1>2, BeginOK DEF BeginSetLlmAccess, Op
  <1>3. CASE BeginRotate(t)
    BY <1>1, <1>3, BeginOK DEF BeginRotate, Op
  <1>4. CASE BeginOpenwebui(t)
    BY <1>1, <1>4, BeginOK DEF BeginOpenwebui, Op
  <1>5. CASE CreateAccount(t)
    BY <1>5, BeginOK DEF CreateAccount, Op
  <1>6. CASE DeleteAccount(t)
    BY <1>1, <1>6, BeginOK DEF DeleteAccount, Op
  <1> QED
    BY <1>2, <1>3, <1>4, <1>5, <1>6

\* The invariant is inductive.
LEMMA StepOK == Inv /\ [Next]_vars => Inv'
  <1> SUFFICES ASSUME Inv, [Next]_vars PROVE Inv'
    OBVIOUS
  <1>1. CASE Next
    BY <1>1, BeginsOK, CallingOK DEF Next
  <1>2. CASE UNCHANGED vars
    BY <1>2 DEF vars, litellm, counters, Inv, TypeOK, CallsOK, KeysOK, LockOK, KeyOK,
           NoStrayKey,
                External, Webui
  <1> QED
    BY <1>1, <1>2

\* The invariant holds always.
THEOREM Invariance == Spec => []Inv
  BY InitOK, StepOK, PTL DEF Spec

\* Every variable has its type, whatever the calls and the failures.
THEOREM TypeCorrect == Spec => []TypeOK
  <1>1. Inv => TypeOK
    BY DEF Inv
  <1> QED
    BY <1>1, Invariance, PTL

\* EnsureOpenwebuiKeyUseCase: an accepted key that was handed to an Open WebUI job
\* is the one in the file, unless a deletion removed the file.
THEOREM NoKeyStrays == Spec => []NoStrayKey
  <1>1. Inv => NoStrayKey
    BY DEF Inv, KeysOK
  <1> QED
    BY <1>1, Invariance, PTL

\* Only three steps change which keys were issued under the lock.
LEMMA LockedStep ==
  ASSUME Inv, [Next]_vars
  PROVE  \/ locked' = locked
         \/ locked # {} /\ locked' = {}
         \/ locked = {} /\ \E k \in Key : locked' = {k}
  <1>1. ASSUME NEW t \in Task, GenerateKey(t)
        PROVE  locked' = locked \/ (locked = {} /\ \E k \in Key : locked' = {k})
    <2>1. call[t].op \in {"enable", "rotate"} => locked = {}
      BY <1>1, Here DEF GenerateKey, Issues
    <2>2. \/ UNCHANGED litellm
          \/ \E k \in Key : Generate(t, k)
      BY <1>1 DEF GenerateKey, Step, Request
    <2> QED
      BY <2>1, <2>2 DEF Generate, litellm
  <1>2. ASSUME NEW t \in Task, DeleteOld(t) \/ Purge(t)
        PROVE  locked' = locked \/ locked' = {}
    <2>1. UNCHANGED litellm \/ Delete(External) \/ Delete(UserKeys)
      BY <1>2 DEF DeleteOld, Purge, Request, DeleteUser
    <2>2. locked \subseteq External /\ External \subseteq UserKeys
      BY DEF Inv, KeysOK, UserKeys
    <2> QED
      BY <2>1, <2>2 DEF Delete, litellm
  <1>3. ASSUME NEW t \in Task,
               List(t) \/ Exists(t) \/ RotationTargets(t) \/ Verify(t)
        PROVE  locked' = locked \/ locked' = {}
    <2>1. \A a, e, r : Listing(t, a, e, r) => locked' = locked \/ locked' = {}
      BY DEF Listing, Query, Request, Overlook, litellm
    <2> QED
      BY <1>3, <2>1 DEF List, Exists, RotationTargets, Verify
  <1>4. ASSUME NEW t \in Task,
               \/ Mark(t) \/ Each(t) \/ StoredKey(t) \/ Unmark(t) \/ StopJobs(t)
               \/ Forget(t) \/ Acquire(t) \/ BlockOld(t)
               \/ Check(t, "check", "targets") \/ Check(t, "may", "stored")
               \/ Recheck(t) \/ UserFor(t) \/ UserForKey(t) \/ Stored(t) \/ Write(t)
               \/ Discard(t) \/ Return(t)
               \/ BeginSetLlmAccess(t) \/ BeginRotate(t) \/ BeginOpenwebui(t)
               \/ CreateAccount(t) \/ DeleteAccount(t)
        PROVE  locked' = locked
    <2>1. \A c : Step(t, c) \/ Missing(t, c) => locked' = locked
      BY DEF Step, Missing, litellm
    <2>2. CASE Mark(t) \/ Unmark(t) \/ UserFor(t) \/ UserForKey(t)
      BY <2>2 DEF Mark, Unmark, UserFor, UserForKey, Request, EnsureUser, Deny, Allow, litellm
    <2>3. CASE Each(t) \/ BlockOld(t) \/ Discard(t)
      <3>1. CASE Each(t)
        BY <2>1, <3>1 DEF Each, Request, SetBlocked, litellm
      <3>2. CASE BlockOld(t)
        BY <2>1, <3>2 DEF BlockOld, Request, SetBlocked, litellm
      <3>3. CASE Discard(t)
        BY <2>1, <3>3 DEF Discard, Request, SetBlocked, litellm
      <3> QED
        BY <2>3, <3>1, <3>2, <3>3
    <2>4. CASE StoredKey(t) \/ Stored(t) \/ Acquire(t)
      BY <2>1, <2>4 DEF StoredKey, Stored, Acquire, Query, Request, SetBlocked, litellm
    <2>5. CASE Check(t, "check", "targets") \/ Check(t, "may", "stored") \/ Recheck(t)
      BY <2>5 DEF Check, Recheck, Query, Request, litellm
    <2>6. CASE StopJobs(t) \/ Forget(t) \/ Write(t) \/ Return(t)
      BY <2>6 DEF StopJobs, Forget, Write, Return, litellm
    <2>7. CASE \/ BeginSetLlmAccess(t) \/ BeginRotate(t) \/ BeginOpenwebui(t)
              \/ CreateAccount(t) \/ DeleteAccount(t)
      BY <2>7 DEF BeginSetLlmAccess, BeginRotate, BeginOpenwebui, CreateAccount, DeleteAccount,
              Begin
    <2> QED
      BY <1>4, <2>2, <2>3, <2>4, <2>5, <2>6, <2>7
  <1>5. CASE UNCHANGED vars
    BY <1>5 DEF vars, litellm
  <1> QED
    BY <1>1, <1>2, <1>3, <1>4, <1>5 DEF Next, Calling

\* external_api_key_lock: what is issued under the lock implements KeyRegister, a
\* register that is emptied before it is filled.
THEOREM LockIsRegister == Spec => KeyIsRegister
  <1>1. Init => Register!Init
    BY DEF Init, Register!Init
  <1>2. Inv /\ Inv' /\ [Next]_vars => [Register!Next]_(External \cap locked)
    <2> SUFFICES ASSUME Inv, Inv', [Next]_vars PROVE [Register!Next]_(External \cap locked)
      OBVIOUS
    <2>1. External \cap locked = locked /\ (External \cap locked)' = locked'
      BY DEF Inv, KeysOK
    <2> QED
      BY <2>1, LockedStep DEF Register!Next, Register!Issue, Register!Remove
  <1> QED
    BY <1>1, <1>2, Invariance, PTL DEF Spec, KeyIsRegister, Register!Spec
-----------------------------------------------------------------------------
(***************************************************************************)
(* What a stop achieves.  From the mark on, the keys that are accepted     *)
(* still are the work of the calls that stop the access, and no call can   *)
(* add another unless it was in progress when the user was marked.  A call *)
(* that gives the access back ends all this, and until it has returned     *)
(* nothing is promised.                                                    *)
(***************************************************************************)

\* Keys that are not accepted, or excused.
Lifted(k) == k \in blocked \cup excused \/ use[k] = "deleted"

\* The others, among those a stop finds: external keys and the key in the file.
Live == {k \in Key : ~Lifted(k) /\ (use[k] = "external" \/ (use[k] = "openwebui" /\ k = store))}

\* A call that gives the access back, or that does not know that it was stopped.
Enabling(t) == call[t].op = "enable" \/ (call[t].op \in {"undo", "delete"} /\ t \notin held)
Loose == \E t \in Task : Enabling(t)

\* A call that stops the access is going to block the key, or to report that
\* it could not.
Pending(c, k) ==
    \/ c.failed \/ c.at \in {"list", "broken"}
    \/ c.op = "disable" /\ c.at = "bad"
    \/ c.at = "each" /\ k \in c.todo \cup {store}
    \/ c.at = "webui" /\ k = store

\* So that the stop is then taken for undone.
Owed(k) == \E t \in held : call[t].op = "undo" /\ Pending(call[t], k)

\* The call issues no key, unless it began before the stop.
Barred(t) ==
    t \notin stale =>
        /\ call[t].op = "rotate" => \/ call[t].at \in {"lock", "bad", "broken"}
                                    \/ call[t].at = "check" /\ user = "denied"
        /\ call[t].op = "webui" => user = "denied" /\ call[t].at \in {"user", "may", "bad", "broken"}
        /\ call[t].op # "create"

Closed ==
    /\ user = "denied" \/ ~account
    /\ \A t \in Task : Barred(t)
    /\ \A k \in Live :
          /\ stopped => Owed(k)
          /\ \A t \in held : Owed(k) \/ (call[t].op = "disable" /\ Pending(call[t], k))

HeldOK ==
    \A t \in held : /\ call[t].op \in {"disable", "undo", "delete"}
                    /\ call[t].at # "mark"
                    /\ call[t].op = "disable" /\ call[t].at = "ok" => ~call[t].failed

\* A key that was not in the file yet when the access was stopped is excused.
StaleOK == \A t \in stale : call[t].at = "write" => Lifted(call[t].key)

Stop == HeldOK /\ StaleOK /\ (stopped \/ held # {} => Loose \/ Closed)

\* A step that stops nothing and leaves at most the keys of K live.
Quiet(K) ==
    /\ UNCHANGED <<stale, held>>
    /\ user' = user \/ user = "absent"
    /\ Live' \subseteq K
    /\ \A k \in Key : Lifted(k) => Lifted(k)'

\* Every change of LiteLLM but a mark, its clearing, the deletion of the user, an
\* unblocking and the making of a key is quiet.
LEMMA Quieted ==
  ASSUME Inv, UNCHANGED store
  PROVE  /\ UNCHANGED litellm => Quiet(Live)
         /\ EnsureUser => Quiet(Live)
         /\ \A k \in Key : SetBlocked(k, TRUE) => Quiet(Live \ {k})
         /\ Delete(External) /\ UNCHANGED <<user, stale, held>> => Quiet(Live)
         /\ \A t, c : Overlook(t, c) =>
               Quiet(IF call[t].at = "list" /\ call[t].op # "enable" THEN {} ELSE Live)
  <1> USE DEF Inv, TypeOK, Quiet, Live, Lifted
  <1>1. UNCHANGED litellm => Quiet(Live)
    BY DEF litellm
  <1>2. EnsureUser => Quiet(Live)
    BY DEF EnsureUser
  <1>3. ASSUME NEW k \in Key, SetBlocked(k, TRUE) PROVE Quiet(Live \ {k})
    BY <1>3 DEF SetBlocked
  <1>4. Delete(External) /\ UNCHANGED <<user, stale, held>> => Quiet(Live)
    BY DEF Delete, External
  <1>5. ASSUME NEW t, NEW c, Overlook(t, c)
        PROVE  Quiet(IF call[t].at = "list" /\ call[t].op # "enable" THEN {} ELSE Live)
    BY <1>5 DEF Overlook, UserKeys, External, Webui
  <1> QED
    BY <1>1, <1>2, <1>3, <1>4, <1>5

\* A call t moves on, and no other call's work is disturbed.
LEMMA Kept ==
  ASSUME Inv, Stop, NEW t \in Task,
         \A u \in Task \ {t} : call'[u] = call[u],
         UNCHANGED <<stale, held, stopped, account>>,
         user' = user \/ user = "absent",
         call'[t].op = call[t].op \/ (call[t].op = "enable" /\ call'[t].op = "undo"),
         t \in held => /\ call'[t].at # "mark"
                       /\ call'[t].op = "disable" /\ call'[t].at = "ok" => ~call'[t].failed,
         t \in stale /\ call'[t].at = "write" => Lifted(call[t].key)',
         \A k \in Key : use[k] # "external" /\ k # store /\ Lifted(k) => Lifted(k)',
         Closed /\ call[t].op # "enable" =>
            /\ Live' \subseteq Live
            /\ Barred(t)'
            /\ t \in held /\ call[t].op # "delete" =>
                  \A k \in Live' : Pending(call[t], k) => Pending(call[t], k)'
            /\ \A k \in Live' : k = store => k = store'
  PROVE  Stop'
  <1>1. HeldOK'
    BY DEF Stop, HeldOK, Inv, TypeOK
  <1>2. StaleOK'
    <2> SUFFICES ASSUME NEW u \in stale, u # t, call[u].at = "write" PROVE Lifted(call[u].key)'
      BY DEF StaleOK, Inv, TypeOK
    <2>1. u \in Task
      BY DEF Inv, TypeOK
    <2>2. call[u].key \in Key /\ use[call[u].key] # "external" /\ store = NoKey
      BY <2>1, Here DEF KeyOK, Placed, Made, Making
    <2> QED
      BY <2>2, <2>1, ConstantsAssumption DEF Stop, StaleOK
  <1>3. ASSUME Loose PROVE Loose'
    BY <1>3 DEF Loose, Enabling, Stop, HeldOK
  <1>4. ASSUME Closed, ~Loose PROVE Closed'
    <2>1. call[t].op # "enable"
      BY <1>4 DEF Loose, Enabling
    <2>2. /\ Live' \subseteq Live /\ Barred(t)'
          /\ t \in held /\ call[t].op # "delete" =>
                \A k \in Live' : Pending(call[t], k) => Pending(call[t], k)'
          /\ \A k \in Live' : k = store => k = store'
      BY <1>4, <2>1
    <2>3. (user = "denied" \/ ~account)'
      BY <1>4 DEF Closed
    <2>4. ASSUME NEW u \in Task PROVE Barred(u)'
      BY <1>4, <2>2 DEF Closed, Barred
    <2>5. ASSUME NEW u \in held, NEW k \in Live', Pending(call[u], k),
                 call[u].op # "delete"
          PROVE  call'[u].op = call[u].op /\ Pending(call[u], k)'
      BY <2>1, <2>2, <2>5 DEF Pending, Inv, TypeOK
    <2> HIDE DEF Pending
    <2>6. ASSUME NEW k \in Live', Owed(k) PROVE Owed(k)'
      BY <2>5, <2>6 DEF Owed
    <2>7. ASSUME NEW k \in Live', stopped PROVE Owed(k)'
      BY <1>4, <2>2, <2>6, <2>7 DEF Closed
    <2>8. ASSUME NEW k \in Live', NEW u \in held
          PROVE  Owed(k)' \/ (call'[u].op = "disable" /\ Pending(call[u], k)')
      BY <1>4, <2>2, <2>5, <2>6 DEF Closed
    <2> QED
      BY <2>3, <2>4, <2>7, <2>8 DEF Closed
  <1> QED
    BY <1>1, <1>2, <1>3, <1>4 DEF Stop

\* The same for a step that is quiet.
LEMMA QuietKept ==
  ASSUME Inv, Stop, NEW t \in Task, NEW K, Quiet(K), K \subseteq Live,
         \A u \in Task \ {t} : call'[u] = call[u],
         UNCHANGED <<store, stopped, account>>,
         call'[t].op = call[t].op \/ (call[t].op = "enable" /\ call'[t].op = "undo"),
         t \in held => /\ call'[t].at # "mark"
                       /\ call'[t].op = "disable" /\ call'[t].at = "ok" => ~call'[t].failed,
         call'[t].at # "write",
         Closed /\ call[t].op # "enable" =>
            /\ Barred(t)'
            /\ t \in held /\ call[t].op # "delete" =>
                  \A k \in K : Pending(call[t], k) => Pending(call[t], k)'
  PROVE  Stop'
  <1>1. /\ UNCHANGED <<stale, held>> /\ (user' = user \/ user = "absent")
        /\ Live' \subseteq K /\ \A k \in Key : Lifted(k) => Lifted(k)'
    BY DEF Quiet
  <1> QED
    BY <1>1, Kept

\* What a call becomes.
LEMMA Becomes ==
  ASSUME Inv, NEW t \in Task
  PROVE  /\ \A c : Go(t, c) => call'[t] = c
         /\ \A p : /\ At(t, p).op = call[t].op /\ At(t, p).at = p /\ At(t, p).key = call[t].key
                  /\ At(t, p).todo = call[t].todo /\ At(t, p).failed = call[t].failed
         /\ \A p : Undo(t, p).op = "undo" /\ Undo(t, p).at = p
         /\ Failed(t) = IF call[t].op = "enable" THEN Undo(t, "mark") ELSE At(t, "bad")
  BY Here DEF Inv, TypeOK, Go, At, Undo, NoCall, Failed, Calls

\* The calls that issue keys: none of them is taken for one that stops the
\* access, and those that must not issue a key come to nothing.
LEMMA IssuingStops ==
  ASSUME Inv, Stop, NEW t \in Task,
         \/ Exists(t) \/ RotationTargets(t) \/ BlockOld(t) \/ DeleteOld(t) \/ Verify(t)
         \/ Check(t, "check", "targets") \/ Check(t, "may", "stored") \/ Recheck(t)
         \/ UserFor(t) \/ UserForKey(t) \/ Discard(t)
  PROVE  Stop'
  <1>1. UNCHANGED <<store, stopped, account>> /\ \A u \in Task \ {t} : call'[u] = call[u]
    BY DEF Exists, RotationTargets, BlockOld, DeleteOld, Verify, Check, Recheck, UserFor,
           UserForKey, Discard, Listing, Overlook, Query, Request, Step, Go, Inv, TypeOK
  <1>2. Quiet(Live)
    <2>0. \A c : Overlook(t, c) /\ call[t].at # "list" => Quiet(Live)
      BY <1>1, Quieted
    <2>1. \A k \in Key : Quiet(Live \ {k}) => Quiet(Live)
      BY DEF Quiet
    <2>2. call[t].at = "discard" => call[t].key \in Key
      BY Here DEF KeyOK
    <2>3. call[t].todo \subseteq Key
      BY Here DEF Calls
    <2> QED
      BY <1>1, <2>0, <2>1, <2>2, <2>3, Quieted
         DEF Exists, RotationTargets, BlockOld, DeleteOld, Verify, Check, Recheck, UserFor,
             UserForKey, Discard, Listing, Query, Request, Step
  <1>3. t \notin held
    BY Here DEF Exists, RotationTargets, BlockOld, DeleteOld, Verify, Check, Recheck, UserFor,
                UserForKey, Discard, Query, Stop, HeldOK, Placed
  <1>4. /\ call'[t].op = call[t].op \/ (call[t].op = "enable" /\ call'[t].op = "undo")
        /\ call'[t].at # "write"
    <2>1. CASE BlockOld(t)
      <3>1. call[t].op = "rotate" /\ call[t].at = "drop"
        BY <2>1, Here DEF BlockOld, Placed
      <3>2. PICK c : /\ Go(t, c)
                     /\ \/ c \in {At(t, "bad"), At(t, "broken")}
                        \/ \E k \in call[t].todo :
                             c = [call[t] EXCEPT !.todo = call[t].todo \ {k},
                                     !.at = IF call[t].todo \ {k} = {} THEN "delete" ELSE @]
        BY <2>1 DEF BlockOld, Request, Step
      <3>3. call'[t] = c
        BY <3>2, Becomes
      <3>4. c.op = call[t].op /\ c.at # "write"
        <4>1. CASE c \in {At(t, "bad"), At(t, "broken")}
          BY <4>1, Becomes
        <4>2. CASE c \notin {At(t, "bad"), At(t, "broken")}
          BY <3>1, <3>2, <4>2, Here DEF Calls
        <4> QED
          BY <4>1, <4>2
      <3> QED
        BY <3>3, <3>4
    <2>2. CASE RotationTargets(t)
      <3>1. call[t].op = "rotate"
        BY <2>2, Here DEF RotationTargets, Query, Placed
      <3>2. PICK c : /\ Go(t, c)
                     /\ \/ \E p \in {"bad", "broken", "issue"} : c = At(t, p)
                        \/ c = [At(t, "drop") EXCEPT !.todo = External]
        BY <2>2 DEF RotationTargets, Listing, Overlook, Query, Request
      <3>3. call'[t] = c
        BY <3>2, Becomes
      <3>4. c.op = call[t].op /\ c.at # "write"
        BY <3>1, <3>2, Here, Becomes DEF Calls, At
      <3> QED
        BY <3>3, <3>4
    <2>3. CASE ~BlockOld(t) /\ ~RotationTargets(t)
      <3>1. \E p \in Place \ {"write"} : Go(t, At(t, p)) \/ Go(t, Failed(t))
        BY <2>3
           DEF Exists, RotationTargets, BlockOld, DeleteOld, Verify, Check, Recheck, UserFor,
               UserForKey, Discard, Listing, Overlook, Query, Request, Step, Place, Blocking, Issuing
      <3> QED
        BY <3>1, Becomes
    <2> QED
      BY <2>1, <2>2, <2>3
  <1>5. ASSUME Closed, call[t].op # "enable" PROVE Barred(t)'
    <2>1. SUFFICES ASSUME t \notin stale PROVE Barred(t)'
      BY <1>2 DEF Barred, Quiet
    <2>2. \/ call[t].op = "rotate" /\ call[t].at = "check" /\ user = "denied"
          \/ call[t].op = "webui" /\ call[t].at \in {"user", "may"} /\ user = "denied"
      BY <1>5, <2>1, Here
         DEF Exists, RotationTargets, BlockOld, DeleteOld, Verify, Check, Recheck, UserFor,
             UserForKey, Discard, Query,
             Closed, Barred, Placed
    <2>3. user' = "denied"
      BY <1>2, <2>2 DEF Quiet
    <2>4. \/ call'[t].at \in {"bad", "broken"}
          \/ call[t].op = "webui" /\ call'[t].at = "may"
      <3>1. Check(t, "check", "targets") \/ Check(t, "may", "stored") \/ UserFor(t)
        BY <2>2 DEF Exists, RotationTargets, BlockOld, DeleteOld, Verify, Check, Recheck,
               UserFor,
                    UserForKey, Discard, Query
      <3>2. \/ Go(t, At(t, "bad")) \/ Go(t, At(t, "broken"))
            \/ call[t].op = "webui" /\ Go(t, At(t, "may"))
        BY <2>2, <3>1 DEF Check, UserFor, Query, Request, Permitted
      <3> QED
        BY <3>2, Becomes
    <2> QED
      BY <2>2, <2>3, <2>4, <1>4 DEF Barred
  <1> QED
    BY <1>1, <1>2, <1>3, <1>4, <1>5, QuietKept

\* After the stop a rotation gets the lock to find the mark.
LEMMA AcquireStops ==
  ASSUME Inv, Stop, NEW t \in Task, Acquire(t)
  PROVE  Stop'
  <1>1. /\ UNCHANGED <<litellm, store, stopped, account>>
        /\ \A u \in Task \ {t} : call'[u] = call[u]
    BY DEF Acquire, Step, Go, Inv, TypeOK
  <1>2. Quiet(Live)
    BY <1>1, Quieted
  <1>3. t \notin held /\ call[t].op \in {"enable", "rotate"}
    BY Here DEF Acquire, Stop, HeldOK, Placed
  <1>4. /\ call'[t].op = call[t].op
        /\ call'[t].at \in {"bad", "check", "exists"}
        /\ call'[t].at = "exists" => call[t].op # "rotate"
        /\ call'[t].at = "check" => account
    BY <1>3, Here DEF Acquire, Step, Go, Inv, TypeOK, At, Calls
  <1>5. ASSUME Closed, call[t].op # "enable" PROVE Barred(t)'
    BY <1>1, <1>3, <1>4, <1>5 DEF Closed, Barred, litellm
  <1> QED
    BY <1>1, <1>2, <1>3, <1>4, <1>5, QuietKept

\* A key that is generated after the stop is excused.
LEMMA GenerateStops ==
  ASSUME Inv, Stop, NEW t \in Task, GenerateKey(t)
  PROVE  Stop'
  <1>1. UNCHANGED <<store, stopped, account>> /\ \A u \in Task \ {t} : call'[u] = call[u]
    BY DEF GenerateKey, Request, Step, Go, Inv, TypeOK
  <1>2. t \notin held
    BY Here DEF GenerateKey, Stop, HeldOK, Placed
  <1>3. UNCHANGED litellm \/ \E k \in Key : use[k] = "unused" /\ Generate(t, k)
    BY DEF GenerateKey, Request, Step
  <1>4. /\ UNCHANGED <<user, stale, held>>
        /\ \A k \in Key : use[k] # "unused" /\ Lifted(k) => Lifted(k)'
    BY <1>3 DEF litellm, Generate, Lifted, Inv, TypeOK
  <1>5. /\ call'[t].op = call[t].op \/ (call[t].op = "enable" /\ call'[t].op = "undo")
        /\ call'[t].at = "write" => call'[t].key \in Key /\ Generate(t, call'[t].key)
    <2>1. PICK c : /\ Go(t, c)
                   /\ \/ c \in {Failed(t), At(t, "broken")}
                      \/ \E k \in Key, p \in {"write", "ok"} :
                           c = [At(t, p) EXCEPT !.key = k] /\ Generate(t, k)
      BY DEF GenerateKey, Request, Step
    <2>2. call'[t] = c
      BY <2>1, Becomes
    <2>3. CASE c \in {Failed(t), At(t, "broken")}
      BY <2>2, <2>3, Becomes
    <2>4. CASE \E k \in Key, p \in {"write", "ok"} :
                 c = [At(t, p) EXCEPT !.key = k] /\ Generate(t, k)
      BY <2>2, <2>4, Here DEF At, Calls
    <2> QED
      BY <2>1, <2>3, <2>4
  <1>6. t \in stale /\ call'[t].at = "write" => Lifted(call[t].key)'
    BY <1>5 DEF Generate, Lifted
  <1>7. ASSUME Closed, call[t].op # "enable"
        PROVE  Live' \subseteq Live /\ Barred(t)'
    <2>1. t \in stale
      BY <1>7, Here DEF GenerateKey, Closed, Barred, Placed
    <2>2. Live' \subseteq Live
      BY <1>1, <1>3, <2>1 DEF litellm, Generate, Live, Lifted, Inv, TypeOK
    <2> QED
      BY <1>4, <2>1, <2>2 DEF Barred
  <1>8. \A k \in Key : use[k] # "external" /\ k # store /\ Lifted(k) => Lifted(k)'
    BY <1>3 DEF litellm, Generate, Lifted, Inv, TypeOK
  <1> QED
    BY <1>1, <1>2, <1>4, <1>5, <1>6, <1>7, <1>8, Kept

\* The stored key is taken up, or forgotten because LiteLLM does not know it.
LEMMA StoredStops ==
  ASSUME Inv, Stop, NEW t \in Task, Stored(t)
  PROVE  Stop'
  <1>1. call[t].op = "webui" /\ call[t].at = "stored"
    BY Here DEF Stored, Placed
  <1>2. /\ UNCHANGED <<litellm, stopped, account>>
        /\ \A u \in Task \ {t} : call'[u] = call[u]
    BY DEF Stored, Missing, Step, Query, Request, Go, Inv, TypeOK
  <1>3. call'[t].op = call[t].op /\ call'[t].at # "write"
    <2>1. PICK c : /\ Go(t, c)
                   /\ \/ \E p \in {"issue", "bad", "broken"} : c = At(t, p)
                      \/ c = [At(t, "ok") EXCEPT !.key = store]
      BY DEF Stored, Missing, Step, Query, Request
    <2>2. CASE c = [At(t, "ok") EXCEPT !.key = store]
      <3>1. call'[t] = c
        BY <2>1, Becomes
      <3> QED
        BY <3>1, <2>2, Here DEF At, Calls
    <2>3. CASE \E p \in {"issue", "bad", "broken"} : c = At(t, p)
      BY <2>1, <2>3, Becomes
    <2> QED
      BY <2>1, <2>2, <2>3
  <1>4. t \notin held
    BY <1>1 DEF Stop, HeldOK
  <1>5. store' = store \/ store' = NoKey
    BY DEF Stored, Missing, Step, Query, Request
  <1>6. Live' \subseteq Live /\ \A k \in Live' : k = store => k = store'
    BY <1>2, <1>5, ConstantsAssumption DEF litellm, Live, Lifted, Inv, TypeOK, KeysOK
  <1>7. ASSUME Closed PROVE Barred(t)'
    BY <1>1, <1>2, <1>7 DEF Closed, Barred, litellm
  <1>8. \A k \in Key : Lifted(k) => Lifted(k)'
    BY <1>2 DEF litellm, Lifted
  <1> QED
    BY <1>2, <1>3, <1>4, <1>6, <1>7, <1>8, Kept DEF litellm

\* A key that is written after the stop is excused.
LEMMA WriteStops ==
  ASSUME Inv, Stop, NEW t \in Task, Write(t)
  PROVE  Stop'
  <1>1. /\ call[t].op = "webui" /\ call[t].at = "write" /\ store = NoKey
        /\ call[t].key \in Key
    BY Here DEF Write, Placed, KeyOK, Making
  <1>2. /\ UNCHANGED <<litellm, stopped, account>>
        /\ \A u \in Task \ {t} : call'[u] = call[u]
        /\ store' \in {store, call[t].key}
    BY DEF Write, Go, Inv, TypeOK
  <1>3. call'[t].op = call[t].op /\ call'[t].at # "write"
    BY Becomes DEF Write
  <1>4. t \notin held
    BY <1>1 DEF Stop, HeldOK
  <1>5. ASSUME Closed PROVE t \in stale
    BY <1>1, <1>5 DEF Closed, Barred
  <1>6. ASSUME Closed PROVE Live' \subseteq Live /\ Barred(t)'
    BY <1>1, <1>2, <1>5, <1>6 DEF Stop, StaleOK, litellm, Live, Lifted, Barred
  <1>7. \A k \in Key : Lifted(k) => Lifted(k)'
    BY <1>2 DEF litellm, Lifted
  <1>8. \A k \in Live' : k # store
    BY <1>1, ConstantsAssumption DEF Live
  <1> QED
    BY <1>2, <1>3, <1>4, <1>6, <1>7, <1>8, Kept DEF litellm

-----------------------------------------------------------------------------
\* The calls that stop the access, and those that allow it.

\* The mark: from here on the calls in progress are known to be stale.
LEMMA MarkStops ==
  ASSUME Inv, Stop, NEW t \in Task, Mark(t)
  PROVE  Stop'
  <1>1. call[t].at = "mark" /\ call[t].op \in {"disable", "undo"} /\ t \notin held
    BY Here DEF Mark, Placed, Stop, HeldOK
  <1>2. UNCHANGED <<store, stopped, account>> /\ \A u \in Task \ {t} : call'[u] = call[u]
    BY DEF Mark, Request, Go, Inv, TypeOK
  <1>3. /\ call'[t].op = call[t].op
        /\ call'[t].at \in {"list", "broken"} \/ (call'[t].at = "jobs" /\ call'[t].failed)
    <2>1. PICK c : /\ Go(t, c)
                   /\ \/ c \in {At(t, "list"), At(t, "broken")}
                      \/ c = [At(t, "jobs") EXCEPT !.failed = TRUE]
      BY DEF Mark, Request
    <2>2. CASE c = [At(t, "jobs") EXCEPT !.failed = TRUE]
      <3>1. call'[t] = c
        BY <2>1, Becomes
      <3> QED
        BY <3>1, <2>2, Here DEF At, Calls
    <2>3. CASE c \in {At(t, "list"), At(t, "broken")}
      BY <2>1, <2>3, Becomes
    <2> QED
      BY <2>1, <2>2, <2>3
  <1>4. \A k : Pending(call[t], k)'
    BY <1>3 DEF Pending
  <1>5. CASE UNCHANGED litellm
    <2>1. Quiet(Live)
      BY <1>2, <1>5, Quieted
    <2>2. Barred(t)'
      BY <1>1, <1>3 DEF Barred
    <2> QED
      BY <1>1, <1>2, <1>3, <2>1, <2>2, QuietKept
  <1>6. CASE Deny(t)
    <2>1. /\ user' = "denied" /\ held' = held \cup {t} /\ stale' = Running \ {t}
          /\ Live' \subseteq Live
      BY <1>2, <1>6 DEF Deny, Live, Lifted
    <2>2. HeldOK'
      BY <1>1, <1>2, <1>3, <2>1 DEF Stop, HeldOK, Inv, TypeOK
    <2>3. StaleOK'
      BY <1>2, <1>6 DEF Deny, StaleOK, Lifted, Running
    <2>4. ASSUME NEW u \in Task PROVE Barred(u)'
      <3>1. CASE u = t
        BY <3>1, <1>1, <1>3 DEF Barred
      <3>2. CASE u # t /\ call[u].at = "idle"
        BY <3>2, <1>2, Here DEF Barred, Placed
      <3>3. CASE u # t /\ call[u].at # "idle"
        BY <3>3, <2>1 DEF Barred, Running
      <3> QED
        BY <3>1, <3>2, <3>3
    <2>5. ASSUME Loose, call[t].op = "disable" PROVE Loose'
      BY <1>1, <1>2, <2>1, <2>5 DEF Loose, Enabling
    <2>6. ASSUME NEW k, Owed(k) PROVE Owed(k)'
      BY <1>1, <1>2, <2>1, <2>6 DEF Owed, Pending, Inv, TypeOK
    <2>7. ASSUME NEW k, call[t].op = "undo" PROVE Owed(k)'
      BY <1>3, <1>4, <2>1, <2>7 DEF Owed
    <2>8. ASSUME NEW u \in held, NEW k
          PROVE  u # t /\ call'[u] = call[u] /\ (Pending(call[u], k) => Pending(call[u], k)')
      BY <1>1, <1>2 DEF Pending, Inv, TypeOK
    <2> HIDE DEF Pending, Owed
    <2>9. ASSUME ~(Loose /\ call[t].op = "disable"), NEW k \in Live'
          PROVE  /\ stopped' => Owed(k)'
                 /\ \A u \in held' : Owed(k)' \/ (call'[u].op = "disable" /\ Pending(call[u], k)')
      <3>1. CASE call[t].op = "undo"
        BY <3>1, <2>7
      <3>2. CASE call[t].op = "disable"
        <4>1. stopped \/ held # {} => Closed
          BY <3>2, <2>9 DEF Stop
        <4>2. stopped' => Owed(k)'
          BY <4>1, <1>2, <2>1, <2>6 DEF Closed
        <4>3. \A u \in held : Owed(k)' \/ (call'[u].op = "disable" /\ Pending(call[u], k)')
          BY <4>1, <2>1, <2>6, <2>8 DEF Closed
        <4> QED
          BY <3>2, <4>2, <4>3, <1>3, <1>4, <2>1
      <3> QED
        BY <3>1, <3>2, <1>1
    <2>10. Loose' \/ Closed'
      BY <2>1, <2>4, <2>5, <2>9 DEF Closed
    <2> QED
      BY <2>2, <2>3, <2>10 DEF Stop
  <1> QED
    BY <1>5, <1>6 DEF Mark, Request

\* After the list a live key is to be blocked, or is the one in the file.
LEMMA ListStops ==
  ASSUME Inv, Stop, NEW t \in Task, List(t)
  PROVE  Stop'
  <1>1. call[t].at = "list" /\ call[t].op \in {"disable", "enable", "undo", "delete"}
    BY Here DEF List, Placed
  <1>2. /\ UNCHANGED <<store, stopped, account>>
        /\ \A u \in Task \ {t} : call'[u] = call[u]
    BY DEF List, Listing, Overlook, Query, Request, Go, Inv, TypeOK
  <1>3. PICK c : /\ Go(t, c)
                 /\ \/ /\ Quiet(Live)
                       /\ \/ c = At(t, "broken")
                          \/ c = AfterKeys(t, TRUE)
                          \/ c = AfterKeys(t, call[t].failed) /\ Targets(t) = {}
                          \/ c = [At(t, "each") EXCEPT !.todo = Targets(t)]
                    \/ /\ c = AfterKeys(t, call[t].failed)
                       /\ Quiet(IF call[t].op # "enable" THEN {} ELSE Live)
    <2>1. \A c : Overlook(t, c) => Quiet(IF call[t].op # "enable" THEN {} ELSE Live)
      BY <1>1, <1>2, Quieted
    <2>2. UNCHANGED litellm => Quiet(Live)
      BY <1>2, Quieted
    <2>3. CASE Query(t, IF Targets(t) = {} THEN AfterKeys(t, call[t].failed)
                        ELSE [At(t, "each") EXCEPT !.todo = Targets(t)], AfterKeys(t, TRUE))
      BY <2>2, <2>3 DEF Query, Request
    <2>4. CASE Overlook(t, AfterKeys(t, call[t].failed))
      BY <2>1, <2>4 DEF Overlook
    <2> QED
      BY <2>3, <2>4 DEF List, Listing
  <1>4. /\ call'[t].op = call[t].op
        /\ \/ call'[t].at = "broken"
           \/ call'[t].at \in {"purge", "webui"} /\ (call'[t].failed \/ Targets(t) = {})
           \/ call'[t].at = "each" /\ call'[t].todo = Targets(t)
           \/ call'[t].at \in {"purge", "webui"} /\ (call[t].op # "enable" => Quiet({}))
        /\ call'[t].at = "purge" => call[t].op = "delete"
    <2>1. call'[t] = c
      BY <1>3, Becomes
    <2> QED
      BY <1>1, <1>3, <2>1, Here DEF At, AfterKeys, Calls
  <1>5. Barred(t)'
    BY <1>1, <1>4 DEF Barred
  <1> DEFINE K == IF call[t].op # "enable" /\ Quiet({}) THEN {} ELSE Live
  <1>6. ASSUME call[t].op # "enable", t \in held, NEW k \in K PROVE Pending(call[t], k)'
    <2>1. k \in External \/ k = store
      BY DEF Live, External
    <2>2. call[t].op # "delete" => Targets(t) = External
      BY Here
    <2>3. call[t].op = "delete" => Targets(t) = UserKeys /\ k \in UserKeys
      BY DEF Targets, UserKeys, Webui, External, Live
    <2> QED
      BY <1>1, <1>2, <1>4, <1>6, <2>1, <2>2, <2>3 DEF Pending
  <1>7. Quiet(K) /\ K \subseteq Live
    BY <1>3
  <1> HIDE DEF K
  <1> QED
    BY <1>1, <1>2, <1>4, <1>5, <1>6, <1>7, QuietKept

\* A key that is not blocked makes the call remember a failure.
LEMMA EachStops ==
  ASSUME Inv, Stop, NEW t \in Task, Each(t)
  PROVE  Stop'
  <1>1. call[t].at = "each" /\ call[t].op \in {"disable", "enable", "undo", "delete"}
    BY Here DEF Each, Placed
  <1>2. /\ UNCHANGED <<store, stopped, account>>
        /\ \A u \in Task \ {t} : call'[u] = call[u]
    BY DEF Each, Step, Request, Go, Inv, TypeOK
  <1>3. PICK k \in call[t].todo, f \in BOOLEAN :
          /\ \/ call'[t] = At(t, "broken")
             \/ call'[t] = AfterKeys(t, f \/ call[t].failed) /\ call[t].todo = {k}
             \/ call'[t] = [call[t] EXCEPT !.todo = @ \ {k}, !.failed = f \/ @]
          /\ \/ f /\ use[k] = "deleted" /\ UNCHANGED litellm
             \/ f /\ (UNCHANGED litellm \/ SetBlocked(k, call[t].op # "enable"))
             \/ call'[t] = At(t, "broken") /\ (UNCHANGED litellm \/ SetBlocked(k, call[t].op # "enable"))
             \/ SetBlocked(k, call[t].op # "enable")
    BY Becomes DEF Each, Step, Request
  <1>4. k \in Key
    BY Here DEF Calls
  <1>5. /\ call'[t].op = call[t].op
        /\ call'[t].failed = call[t].failed \/ call'[t].failed
        /\ call'[t].at \in {"each", "broken", "purge", "webui"}
        /\ call'[t].at = "purge" => call[t].op = "delete"
        /\ \/ call'[t].at = "broken" \/ (f /\ call'[t].failed)
           \/ call'[t].at = "each" /\ call'[t].todo = call[t].todo \ {k}
           \/ call'[t].at = "webui" /\ call[t].todo = {k}
           \/ call[t].op = "delete"
        /\ f => call'[t].at = "broken" \/ call'[t].failed
    BY <1>1, <1>3, Here DEF At, AfterKeys, Calls
  <1>6. CASE call[t].op # "enable"
    <2> DEFINE K == {x \in Live : f \/ call'[t].at = "broken" \/ x # k}
    <2>1. Quiet(K)
      <3>1. \/ SetBlocked(k, TRUE)
            \/ UNCHANGED litellm /\ (f \/ call'[t].at = "broken")
        <4>1. \/ f /\ UNCHANGED litellm
              \/ call'[t] = At(t, "broken") /\ UNCHANGED litellm
              \/ SetBlocked(k, TRUE)
          BY <1>3, <1>6
        <4>2. call'[t] = At(t, "broken") => call'[t].at = "broken"
          BY Becomes
        <4> QED
          BY <4>1, <4>2
      <3>2. CASE SetBlocked(k, TRUE)
        <4>1. Quiet(Live \ {k})
          BY <3>2, <1>2, <1>4, Quieted
        <4> QED
          BY <4>1 DEF Quiet
      <3>3. CASE UNCHANGED litellm /\ (f \/ call'[t].at = "broken")
        <4>1. Quiet(Live)
          BY <3>3, <1>2, Quieted
        <4> QED
          BY <3>3, <4>1 DEF Quiet
      <3> QED
        BY <3>1, <3>2, <3>3
    <2>2. Barred(t)'
      BY <1>1, <1>5 DEF Barred
    <2>3. ASSUME NEW x \in K, call[t].op # "delete", Pending(call[t], x) PROVE Pending(call[t], x)'
      BY <1>1, <1>2, <1>5, <2>3 DEF Pending
    <2> HIDE DEF K
    <2>4. K \subseteq Live
      BY DEF K
    <2> QED
      BY <1>1, <1>2, <1>5, <2>1, <2>2, <2>3, <2>4, QuietKept
  <1>7. CASE call[t].op = "enable"
    <2>1. t \notin held
      BY <1>7 DEF Stop, HeldOK
    <2>2. use[k] \in {"external", "deleted"}
      BY <1>1, <1>7, Here DEF KeyOK
    <2>3. UNCHANGED litellm \/ SetBlocked(k, FALSE)
      BY <1>3, <1>7
    <2>4. /\ UNCHANGED <<user, stale, held>>
          /\ \A x \in Key : use[x] # "external" /\ Lifted(x) => Lifted(x)'
      BY <2>2, <2>3 DEF litellm, SetBlocked, Lifted
    <2> QED
      BY <1>2, <1>5, <1>7, <2>1, <2>4, Kept
  <1> QED
    BY <1>6, <1>7

\* The key in the file is blocked after the others.
LEMMA StoredKeyStops ==
  ASSUME Inv, Stop, NEW t \in Task, StoredKey(t)
  PROVE  Stop'
  <1>1. call[t].at = "webui" /\ call[t].op \in {"disable", "enable", "undo"}
    BY Here DEF StoredKey, Placed
  <1>2. /\ UNCHANGED <<stopped, account>>
        /\ \A u \in Task \ {t} : call'[u] = call[u]
    BY DEF StoredKey, Missing, Step, Request, Go, Inv, TypeOK
  <1>3. PICK f \in BOOLEAN :
          /\ \/ call'[t] = At(t, "broken")
             \/ call'[t] = AfterWebui(t, f) /\ (call[t].failed => f)
          /\ \/ f \/ call'[t] = At(t, "broken")
             \/ UNCHANGED litellm /\ store' = NoKey
             \/ SetBlocked(store, call[t].op # "enable")
    <2>1. call[t].failed \in BOOLEAN
      BY Here
    <2> QED
      BY <2>1, Becomes DEF StoredKey, Missing, Step, Request
  <1>5. /\ call'[t].op = call[t].op \/ (call[t].op = "enable" /\ call'[t].op = "undo")
        /\ call'[t].at # "write"
        /\ call[t].op # "enable" => \/ call'[t].at = "broken"
                                    \/ /\ call'[t].failed = f
                                       /\ call[t].failed => f
                                       /\ call'[t].at \in {"jobs", "bad"}
        /\ call[t].op = "disable" => call'[t].at # "ok"
    BY <1>1, <1>3, Here DEF At, AfterWebui, Undo, NoCall, Calls
  <1>6. \/ store' = store /\ (UNCHANGED litellm \/ (store \in Key /\ SetBlocked(store, call[t].op # "enable")))
        \/ store' = NoKey /\ UNCHANGED litellm
    BY DEF StoredKey, Missing, Step, Request, Inv, TypeOK
  <1>7. /\ UNCHANGED <<user, stale, held>>
        /\ \A k \in Key : k # store /\ Lifted(k) => Lifted(k)'
    BY <1>6 DEF litellm, SetBlocked, Lifted
  <1>8. ASSUME call[t].op # "enable"
        PROVE  /\ Live' \subseteq Live /\ \A k \in Live' : k = store => k = store'
               /\ f \/ call'[t].at = "broken" \/ store \notin Live'
    <2>1. /\ Live' \subseteq Live
          /\ \A k \in Live' : k = store => k = store'
      BY <1>6, <1>8, ConstantsAssumption DEF litellm, SetBlocked, Live, Lifted, Inv, TypeOK, KeysOK
    <2>2. f \/ call'[t].at = "broken" \/ store \notin Live'
      BY <1>3, <1>8, Becomes, ConstantsAssumption DEF litellm, SetBlocked, Live, Lifted, Inv, TypeOK, KeysOK
    <2> QED
      BY <2>1, <2>2
  <1>9. ASSUME call[t].op # "enable" PROVE Barred(t)'
    BY <1>1, <1>5, <1>9 DEF Barred
  <1>10. ASSUME call[t].op # "enable", NEW k \in Live', Pending(call[t], k)
         PROVE  Pending(call[t], k)'
    BY <1>1, <1>5, <1>8, <1>10 DEF Pending
  <1>11. t \in held => /\ call'[t].at # "mark"
                       /\ call'[t].op = "disable" /\ call'[t].at = "ok" => ~call'[t].failed
    BY <1>1, <1>5 DEF Stop, HeldOK
  <1> QED
    BY <1>2, <1>5, <1>7, <1>8, <1>9, <1>10, <1>11, Kept

\* Only a call that remembers no failure reports success.
LEMMA StopJobsStops ==
  ASSUME Inv, Stop, NEW t \in Task, StopJobs(t)
  PROVE  Stop'
  <1>1. call[t].at = "jobs" /\ call[t].op = "disable"
    BY Here DEF StopJobs, Placed
  <1>2. /\ UNCHANGED <<litellm, store, stopped, account>>
        /\ \A u \in Task \ {t} : call'[u] = call[u]
    BY DEF StopJobs, Go, Inv, TypeOK
  <1>3. Quiet(Live)
    BY <1>2, Quieted
  <1>4. /\ call'[t].op = call[t].op /\ call'[t].failed = call[t].failed
        /\ call'[t].at = "bad" \/ (call'[t].at = "ok" /\ ~call'[t].failed)
    BY Becomes DEF StopJobs
  <1>5. Barred(t)'
    BY <1>1, <1>4 DEF Barred
  <1>6. \A k \in Live : Pending(call[t], k) => Pending(call[t], k)'
    BY <1>1, <1>4 DEF Pending
  <1> QED
    BY <1>1, <1>2, <1>3, <1>4, <1>5, <1>6, QuietKept

\* The key of the file that is removed is not among the live ones any more.
LEMMA ForgetStops ==
  ASSUME Inv, Stop, NEW t \in Task, Forget(t)
  PROVE  Stop'
  <1>1. call[t].at = "forget" /\ call[t].op = "delete"
    BY Here DEF Forget, Placed
  <1>2. /\ UNCHANGED <<litellm, stopped, account>> /\ store' = NoKey
        /\ \A u \in Task \ {t} : call'[u] = call[u]
    BY DEF Forget, Go, Inv, TypeOK
  <1>3. call'[t].op = "delete" /\ call'[t].at = "list"
    BY <1>1, Becomes DEF Forget
  <1>4. Live' \subseteq Live /\ \A k \in Live' : k # store
    BY <1>2, ConstantsAssumption DEF litellm, Live, Lifted, Inv, TypeOK, KeysOK
  <1>5. \A k \in Key : Lifted(k) => Lifted(k)'
    BY <1>2 DEF litellm, Lifted
  <1>6. Barred(t)'
    BY <1>3 DEF Barred
  <1> QED
    BY <1>1, <1>2, <1>3, <1>4, <1>5, <1>6, Kept DEF litellm

\* The user is deleted with the user's keys.
LEMMA PurgeStops ==
  ASSUME Inv, Stop, NEW t \in Task, Purge(t)
  PROVE  Stop'
  <1>1. call[t].at \in {"purge", "again"} /\ call[t].op = "delete"
    BY Here DEF Purge, Placed
  <1>2. /\ UNCHANGED <<store, stopped, account>>
        /\ \A u \in Task \ {t} : call'[u] = call[u]
    BY DEF Purge, Request, Go, Inv, TypeOK
  <1>3. call'[t].op = "delete" /\ call'[t].at \in {"ok", "bad", "again", "broken"}
    BY <1>1, Becomes DEF Purge, Request
  <1>4. Barred(t)'
    BY <1>3 DEF Barred
  <1>5. CASE UNCHANGED litellm
    BY <1>1, <1>2, <1>3, <1>4, <1>5, Quieted, QuietKept
  <1>6. CASE DeleteUser(t)
    <2>1. /\ held' = (IF account THEN {} ELSE {t}) /\ stale' = Running \ {t}
          /\ Live' = {} /\ \A k \in UserKeys : Lifted(k)'
          /\ \A k \in Key : Lifted(k) => Lifted(k)'
      BY <1>6 DEF DeleteUser, Delete, UserKeys, External, Webui, Live, Lifted
    <2>2. HeldOK'
      BY <1>3, <2>1 DEF HeldOK
    <2>3. StaleOK'
      <3> SUFFICES ASSUME NEW u \in Task \ {t}, call[u].at = "write" PROVE Lifted(call[u].key)'
        BY <1>2, <2>1 DEF StaleOK, Running
      <3>1. call[u].key \in Key /\ use[call[u].key] \in {"openwebui", "deleted"}
        BY Here DEF KeyOK, Placed, Made
      <3> QED
        BY <1>2, <3>1, <2>1 DEF UserKeys, Webui, Lifted
    <2>4. ASSUME NEW u \in Task PROVE Barred(u)'
      <3>1. CASE u # t /\ call[u].at = "idle"
        BY <3>1, <1>2, Here DEF Barred, Placed
      <3>2. CASE u # t /\ call[u].at # "idle"
        BY <3>2, <2>1 DEF Barred, Running
      <3> QED
        BY <1>4, <3>1, <3>2
    <2>5. Loose' \/ Closed'
      BY <1>2, <1>3, <2>1, <2>4 DEF Loose, Enabling, Closed, Inv, TypeOK
    <2> QED
      BY <2>2, <2>3, <2>5 DEF Stop
  <1> QED
    BY <1>5, <1>6 DEF Purge, Request

\* The mark is cleared: an enabling is under way.
LEMMA UnmarkStops ==
  ASSUME Inv, Stop, NEW t \in Task, Unmark(t)
  PROVE  Stop'
  <1>1. call[t].at = "unmark" /\ call[t].op = "enable" /\ t \notin held
    BY Here DEF Unmark, Placed, Stop, HeldOK
  <1>2. /\ UNCHANGED <<store, stopped, account>>
        /\ \A u \in Task \ {t} : call'[u] = call[u]
    BY DEF Unmark, Request, Go, Inv, TypeOK
  <1>3. call'[t].op \in {"enable", "undo"} /\ call'[t].at # "write"
    BY <1>1, Becomes DEF Unmark, Request
  <1>4. held' \subseteq held /\ stale' = stale /\ \A k \in Key : Lifted(k) => Lifted(k)'
    BY DEF Unmark, Request, Allow, litellm, Lifted
  <1>5. HeldOK'
    BY <1>1, <1>2, <1>4 DEF Stop, HeldOK, Inv, TypeOK
  <1>6. StaleOK'
    <2> SUFFICES ASSUME NEW u \in stale, u # t, call[u].at = "write" PROVE Lifted(call[u].key)'
      BY <1>2, <1>3, <1>4 DEF StaleOK, Inv, TypeOK
    <2>1. call[u].key \in Key
      BY Here DEF KeyOK, Inv, TypeOK
    <2> QED
      BY <1>2, <2>1, <1>4 DEF Stop, StaleOK, Inv, TypeOK
  <1>7. Loose'
    BY <1>1, <1>3, <1>4 DEF Loose, Enabling
  <1> QED
    BY <1>5, <1>6, <1>7 DEF Stop

\* A call ends: it has stopped the access, given it back, or done neither.
LEMMA ReturnStops ==
  ASSUME Inv, Stop, NEW t \in Task, Return(t)
  PROVE  Stop'
  <1> DEFINE c == call[t]
             took == t \in held /\
                       \/ c.at = "ok" /\ c.op \in {"disable", "delete"}
                       \/ c.op = "undo" /\ c.at = "bad" /\ ~c.failed
             gave == ~took /\ c.op \in {"enable", "undo", "delete"}
  <1>1. /\ call[t].at \in {"ok", "bad", "broken"}
        /\ call'[t].op = "none" /\ call'[t].at = "idle"
        /\ \A u \in Task \ {t} : call'[u] = call[u]
        /\ UNCHANGED <<user, use, blocked, excused, store, account>>
        /\ stale' = stale \ {t}
        /\ held' = (IF gave THEN {} ELSE held \ {t})
        /\ (stopped' <=> ((stopped \/ took) /\ ~gave))
    BY DEF Return, Go, NoCall, Inv, TypeOK
  <1>2. HeldOK'
    BY <1>1 DEF Stop, HeldOK, Inv, TypeOK
  <1>3. \A k : Lifted(k)' <=> Lifted(k)
    BY <1>1 DEF Lifted
  <1>4. StaleOK'
    BY <1>1, <1>3 DEF Stop, StaleOK, Inv, TypeOK
  <1>5. CASE gave
    <2>1. held' = {} /\ ~stopped'
      BY <1>1, <1>5
    <2> QED
      BY <1>2, <1>4, <2>1 DEF Stop
  <1>6. CASE ~gave
    <2>1. ~Enabling(t)
      BY <1>6 DEF Enabling
    <2>2. t \in held => \A k : call[t].op = "disable" /\ Pending(call[t], k) => ~took
      BY DEF Pending, Stop, HeldOK
    <2>3. t \in held /\ call[t].op = "undo" => took /\ \A k : ~Pending(call[t], k)
      BY <1>6 DEF Pending
    <2> HIDE DEF took
    <2>4. held' = held \ {t} /\ (stopped' => stopped \/ took) /\ (took => t \in held)
      BY <1>1, <1>6 DEF took
    <2>5. ASSUME Loose PROVE Loose'
      BY <1>1, <2>1, <2>4, <2>5 DEF Loose, Enabling
    <2>6. ASSUME NEW u \in held \ {t}, NEW k
          PROVE  call'[u] = call[u] /\ (Pending(call[u], k) => Pending(call[u], k)')
      BY <1>1 DEF Pending, Inv, TypeOK
    <2> HIDE DEF Pending
    <2>7. ASSUME NEW k, Owed(k) PROVE Owed(k)'
      BY <2>3, <2>4, <2>6, <2>7 DEF Owed
    <2>8. ASSUME Closed PROVE Closed'
      <3>1. Live' = Live
        BY <1>1, <1>3 DEF Live
      <3>2. ASSUME NEW u \in Task PROVE Barred(u)'
        BY <1>1, <2>8 DEF Barred, Closed
      <3>3. ASSUME NEW k \in Live, stopped' PROVE Owed(k)
        BY <2>2, <2>4, <2>8, <3>3 DEF Closed
      <3>4. ASSUME NEW k \in Live, NEW u \in held \ {t}
            PROVE  Owed(k) \/ (call'[u].op = "disable" /\ Pending(call[u], k)')
        BY <2>6, <2>8 DEF Closed
      <3> QED
        BY <1>1, <2>4, <2>7, <2>8, <3>1, <3>2, <3>3, <3>4 DEF Closed
    <2>9. stopped' \/ held' # {} => stopped \/ held # {}
      BY <2>4
    <2> QED
      BY <1>2, <1>4, <2>5, <2>8, <2>9 DEF Stop
  <1> QED
    BY <1>5, <1>6

\* A call begins.  One that enables begins to give the access back; after a
\* stop the others find the mark.
LEMMA BeginStops ==
  ASSUME Inv, Stop, NEW t \in Task,
         \/ BeginSetLlmAccess(t) \/ BeginRotate(t) \/ BeginOpenwebui(t)
         \/ CreateAccount(t) \/ DeleteAccount(t)
  PROVE  Stop'
  <1>1. PICK op \in Op, p \in Place :
          /\ Begin(t, op, p)
          /\ \/ op = "disable" /\ p = "mark" /\ account' = account
             \/ op = "enable" /\ account' = account
             \/ op = "rotate" /\ p = "lock" /\ account' = account
             \/ op = "webui" /\ p = "user" /\ account /\ account' = account
             \/ op = "webui" /\ stopped' = FALSE /\ held' = {}
             \/ op = "create" /\ stopped' = FALSE /\ held' = {}
             \/ op = "delete"
          /\ p # "write"
          /\ (stopped' = FALSE /\ held' = {}) \/ UNCHANGED <<stopped, held>>
    <2>1. {"disable", "enable", "rotate", "webui", "create", "delete"} \subseteq Op
      BY DEF Op
    <2>2. {"mark", "user", "lock", "issue", "forget"} \subseteq Place
      BY DEF Place, Blocking, Issuing
    <2>3. CASE BeginSetLlmAccess(t)
      BY <2>1, <2>2, <2>3 DEF BeginSetLlmAccess
    <2>4. CASE BeginRotate(t)
      BY <2>1, <2>2, <2>4 DEF BeginRotate
    <2>5. CASE BeginOpenwebui(t)
      <3>1. CASE account
        BY <2>1, <2>2, <2>5, <3>1 DEF BeginOpenwebui, Inv, TypeOK
      <3>2. CASE ~account
        BY <2>1, <2>2, <2>5, <3>2 DEF BeginOpenwebui
      <3> QED
        BY <3>1, <3>2
    <2>6. CASE CreateAccount(t)
      BY <2>1, <2>2, <2>6 DEF CreateAccount
    <2>7. CASE DeleteAccount(t)
      BY <2>1, <2>2, <2>7 DEF DeleteAccount
    <2> QED
      BY <2>3, <2>4, <2>5, <2>6, <2>7
  <1>2. /\ call'[t].op = op /\ call'[t].at = p /\ call[t].op = "none"
        /\ \A u \in Task \ {t} : call'[u] = call[u]
        /\ UNCHANGED <<user, use, blocked, stale, excused, store>>
    BY <1>1, Here DEF Begin, NoCall, Inv, TypeOK, Placed
  <1>3. t \notin held
    BY <1>2 DEF Stop, HeldOK
  <1>4. held' \subseteq held
    BY <1>1
  <1>5. HeldOK'
    BY <1>2, <1>3, <1>4 DEF Stop, HeldOK, Inv, TypeOK
  <1>6. \A k : Lifted(k)' <=> Lifted(k)
    BY <1>2 DEF Lifted
  <1>7. StaleOK'
    BY <1>1, <1>2, <1>6 DEF Stop, StaleOK, Inv, TypeOK
  <1>8. CASE op \in {"enable", "delete"}
    <2>1. Loose'
      BY <1>2, <1>3, <1>4, <1>8 DEF Loose, Enabling
    <2> QED
      BY <1>5, <1>7, <2>1 DEF Stop
  <1>9. CASE stopped' = FALSE /\ held' = {}
    BY <1>5, <1>7, <1>9 DEF Stop
  <1>10. CASE op \in {"disable", "rotate", "webui"} /\ ~(stopped' = FALSE /\ held' = {})
    <2>1. UNCHANGED <<stopped, held, account>>
      BY <1>1, <1>10
    <2>2. ASSUME Loose PROVE Loose'
      BY <1>2, <2>1, <2>2 DEF Loose, Enabling
    <2>3. ASSUME NEW u \in held, NEW k
          PROVE  call'[u] = call[u] /\ (Pending(call[u], k) => Pending(call[u], k)')
      BY <1>2, <1>3 DEF Pending, Inv, TypeOK
    <2> HIDE DEF Pending
    <2>4. ASSUME Closed PROVE Closed'
      <3>1. Live' = Live
        BY <1>2, <1>6 DEF Live
      <3>2. ASSUME NEW u \in Task PROVE Barred(u)'
        BY <1>1, <1>2, <1>10, <2>4 DEF Barred, Closed
      <3>3. ASSUME NEW k, Owed(k) PROVE Owed(k)'
        BY <2>1, <2>3, <3>3 DEF Owed
      <3> QED
        BY <1>2, <2>1, <2>3, <2>4, <3>1, <3>2, <3>3 DEF Closed
    <2> QED
      BY <1>5, <1>7, <2>1, <2>2, <2>4 DEF Stop
  <1> QED
    BY <1>1, <1>8, <1>9, <1>10

\* Nothing is stopped at first.
LEMMA StopInit == Init => Stop
  BY DEF Init, Stop, HeldOK, StaleOK

\* With the invariant above, what a stop achieves is inductive.
LEMMA StopStep == Inv /\ Stop /\ [Next]_vars => Stop'
  <1> SUFFICES ASSUME Inv, Stop, [Next]_vars PROVE Stop'
    OBVIOUS
  <1>1. ASSUME NEW t \in Task, Calling(t) PROVE Stop'
    BY <1>1, MarkStops, ListStops, EachStops, StoredKeyStops, UnmarkStops, StopJobsStops,
       ForgetStops, PurgeStops, AcquireStops, IssuingStops, GenerateStops, StoredStops,
       WriteStops, ReturnStops
       DEF Calling
  <1>2. CASE Next
    BY <1>1, <1>2, BeginStops DEF Next
  <1>3. CASE UNCHANGED vars
    BY <1>3 DEF vars, litellm, Stop, HeldOK, StaleOK, Lifted, Loose, Enabling, Closed, Live,
                Owed, Pending, Barred
  <1> QED
    BY <1>2, <1>3

\* The invariant behind StoppedHasNoKey.
THEOREM StopInvariance == Spec => []Stop
  BY StopInit, StopStep, Invariance, PTL DEF Spec

\* SetLlmAccessUseCase and RevokeLlmAccessUseCase: when a stop was reported and
\* nobody is about to change it, no key that is known is accepted, but for the
\* excused ones.
THEOREM StoppedIsClosed == Spec => []StoppedHasNoKey
  <1>1. Inv /\ Stop => StoppedHasNoKey
    <2> SUFFICES ASSUME Inv, Stop, stopped, Settled, NEW k \in Usable
                 PROVE  k \in excused \cup forgotten
      BY DEF StoppedHasNoKey
    <2>1. ~Loose /\ \A x : ~Owed(x)
      BY DEF Settled, Loose, Enabling, Owed, Inv, TypeOK
    <2>2. Live = {}
      BY <2>1 DEF Stop, Closed
    <2>3. CASE use[k] = "external"
      BY <2>2, <2>3 DEF Usable, UserKeys, External, Webui, Live, Lifted
    <2>4. CASE use[k] = "openwebui"
      <3>1. k \in {store} \cup forgotten
        BY <2>4 DEF Inv, KeysOK, NoStrayKey, Usable, UserKeys, External, Webui
      <3> QED
        BY <2>2, <2>4, <3>1 DEF Usable, UserKeys, External, Webui, Live, Lifted
    <2> QED
      BY <2>3, <2>4 DEF Usable, UserKeys, External, Webui
  <1> QED
    BY <1>1, Invariance, StopInvariance, PTL

=============================================================================
