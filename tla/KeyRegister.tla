---------------------------- MODULE KeyRegister ----------------------------
(***************************************************************************)
(* What the lock on a user's external API key promises: the key is a       *)
(* register.  A key is put into it only when it is empty, so there are     *)
(* never two, and the old key is gone before a new one exists.             *)
(***************************************************************************)
CONSTANT Key

VARIABLE held   \* the keys that exist

Init == held = {}

\* A key is issued: by EnsureLlmKeyUseCase for want of one, or by
\* RotateLlmKeyUseCase after it has removed the old one.
Issue == held = {} /\ \E k \in Key : held' = {k}

\* The key is removed, by a rotation or with the user.
Remove == held # {} /\ held' = {}

Next == Issue \/ Remove

Spec == Init /\ [][Next]_held
=============================================================================
