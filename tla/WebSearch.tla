----------------------------- MODULE WebSearch -----------------------------
(***************************************************************************)
(* The search MCP server (src/src/hpc_search_mcp): its three tools, called *)
(* by LiteLLM, each call in a worker thread of its own.  search_web asks   *)
(* SearXNG and returns results with signed references; fetch_web_page      *)
(* reads the page behind one reference; search_and_fetch_web does both for *)
(* as many results as are needed.  The threads share one semaphore.        *)
(*                                                                         *)
(* Everything outside answers as it likes: DNS changes between two         *)
(* queries, connections fail, pages redirect, and time passes.             *)
(***************************************************************************)
EXTENDS Integers, Sequences, FiniteSets, SequencesExt

CONSTANTS
    Call,        \* the worker threads
    Host,        \* hosts of web pages
    Refused,     \* a URL refused for its form: scheme, port, credentials, localhost
    Public,      \* addresses that may be connected to
    Private,     \* addresses that may not
    None,        \* no connection
    Permits,     \* FETCH_MAX_CONCURRENCY
    MaxResults,  \* results taken from SearXNG
    MaxPages,    \* MAX_FETCH_COUNT
    MaxRedirects \* FETCH_MAX_REDIRECTS

ASSUME ConstantsAssumption ==
    /\ IsFiniteSet(Call)
    /\ Permits \in Nat \ {0}
    /\ MaxResults \in Nat
    /\ MaxPages \in Nat
    /\ MaxRedirects \in Nat

VARIABLES
    free,   \* permits left in _FETCH_SEMAPHORE
    found,  \* URLs for which search_web has signed a reference
    call    \* what each thread is doing

vars == <<free, found, call>>

Url == Host \cup {Refused}
Address == Public \cup Private

\* The address a host name was resolved to.
Target == Host \X Address

\* Places of a thread between acquire and release.
Holding == {"resolve_a", "resolve_aaaa", "connect", "request", "read"}

Place == {"idle", "search", "next", "verify", "acquire", "done"} \cup Holding

\* A thread: the page it fetches, if any, and where it is with a combined call.
Calls == [at : Place, tool : {"search", "combined", "fetch"}, url : Url,
          hop : 0..MaxRedirects, addresses : SUBSET Target, conn : Target \cup {None},
          late : BOOLEAN, answer : {"none", "error", "raised", "results", "page", "pages"},
          wanted : 0..MaxPages, rest : BoundedSeq(Url, MaxResults), tried : 0..MaxResults,
          pages : 0..MaxPages, failures : 0..MaxResults]

Idle == [at |-> "idle", tool |-> "fetch", url |-> Refused, hop |-> 0,
         addresses |-> {}, conn |-> None, late |-> FALSE, answer |-> "none",
         wanted |-> 0, rest |-> <<>>, tried |-> 0, pages |-> 0, failures |-> 0]

Init == free = Permits /\ found = {} /\ call = [c \in Call |-> Idle]

-----------------------------------------------------------------------------
(***************************************************************************)
(* How a fetch ends.  The permit is given back on every way out.           *)
(***************************************************************************)

\* Given back to whoever did not get one, too.
M_Release(c) == free' = IF call[c].at \in Holding \cup {"acquire"} THEN free + 1 ELSE free

\* fetch_web_page's finally, whatever made the thread leave.
Release(c) == free' = IF call[c].at \in Holding THEN free + 1 ELSE free

\* A place where no page is being fetched.
Cleared(r) == [r EXCEPT !.url = Refused, !.hop = 0, !.addresses = {}, !.conn = None]

Answered(r, answer) == [Cleared(r) EXCEPT !.at = "done", !.answer = answer, !.rest = <<>>]

Leave(c, r) == call' = [call EXCEPT ![c] = r] /\ Release(c) /\ UNCHANGED found

\* A WebFetchError: the answer of fetch_web_page, one failed candidate of
\* search_and_fetch_web.
Fail(c) ==
    LET r == call[c] IN
    Leave(c, IF r.tool = "fetch" THEN Answered(r, "error")
             ELSE [Cleared(r) EXCEPT !.at = "next", !.failures = @ + 1])

\* Any other exception passes through search_and_fetch_web.
Escape(c) == Leave(c, Answered(call[c], "raised"))

Page(c) ==
    LET r == call[c] IN
    Leave(c, IF r.tool = "fetch" THEN Answered(r, "page")
             ELSE [Cleared(r) EXCEPT !.at = "next", !.pages = @ + 1])

Goto(c, r) == call' = [call EXCEPT ![c] = r] /\ UNCHANGED <<free, found>>

-----------------------------------------------------------------------------
(***************************************************************************)
(* The tools (server.py).                                                  *)
(***************************************************************************)

SearchWeb(c) ==
    /\ call[c].at \in {"idle", "done"}
    /\ Goto(c, [Idle EXCEPT !.at = "search", !.tool = "search"])

\* The deadline of the whole call begins here.
SearchAndFetchWeb(c) ==
    /\ call[c].at \in {"idle", "done"}
    /\ \E n \in 1..MaxPages :
          Goto(c, [Idle EXCEPT !.at = "search", !.tool = "combined", !.wanted = n])

\* The caller hands over a reference; it may have made it up.
FetchWebPage(c) ==
    /\ call[c].at \in {"idle", "done"}
    /\ \E u \in Url : Goto(c, [Idle EXCEPT !.at = "verify", !.url = u])

\* create_fetch_reference, of each result's URL
CreateReferences(urls) == found' = found \cup urls

\* search_service.search_web: SearXNG's results, each with a reference.
SearXNG(c) ==
    LET r == call[c] IN
    /\ r.at = "search"
    /\ UNCHANGED free
    /\ \/ \E s \in BoundedSeq(Url, MaxResults) :
             /\ CreateReferences(ToSet(s))
             /\ call' = [call EXCEPT ![c] =
                           IF r.tool = "search" THEN Answered(r, "results")
                           ELSE [r EXCEPT !.at = "next", !.rest = s]]
       \/ /\ UNCHANGED found
          /\ call' = [call EXCEPT ![c] = Answered(r, "error")]

\* The loop of search_and_fetch_web: the next candidate, unless there are
\* pages enough or the time is over, which counts as its failure.
NextCandidate(c) ==
    LET r == call[c]
        over == r.pages >= r.wanted \/ r.rest = <<>>
        ended == [r EXCEPT !.at = "done", !.answer = IF r.pages = 0 THEN "error" ELSE "pages"]
    IN
    /\ r.at = "next"
    /\ \/ over /\ Goto(c, ended)
       \/ ~over /\ r.late /\ Goto(c, [ended EXCEPT !.tried = @ + 1, !.failures = @ + 1])
       \/ ~over /\ ~r.late /\ Goto(c, [r EXCEPT !.at = "verify", !.url = Head(r.rest),
                                               !.rest = Tail(@), !.tried = @ + 1])

-----------------------------------------------------------------------------
(***************************************************************************)
(* fetch_web_page.                                                         *)
(***************************************************************************)

\* A reference is good for a URL that a search has returned; one that is too
\* old, or was not signed here, is refused (verify_fetch_reference).
Verify(c) ==
    LET r == call[c] IN
    /\ r.at = "verify"
    /\ \/ r.url \in found /\ ~r.late /\ Goto(c, [r EXCEPT !.at = "acquire"])
       \/ Fail(c)

Acquire(c) ==
    /\ call[c].at = "acquire" /\ free > 0
    /\ free' = free - 1
    /\ call' = [call EXCEPT ![c].at = "resolve_a"]
    /\ UNCHANGED found

\* Two seconds have passed and there is still no permit.
Busy(c) == call[c].at = "acquire" /\ free = 0 /\ Fail(c)

\* What the name server says of a host's addresses of one type, perhaps
\* nothing; it says something else the next time.
Answers == SUBSET Address

\* The URL is looked at and the IPv4 addresses are asked for.
ResolveA(c) ==
    LET r == call[c] IN
    /\ r.at = "resolve_a"
    /\ \/ /\ r.url # Refused /\ ~r.late
          /\ \E s \in Answers :
                Goto(c, [r EXCEPT !.at = "resolve_aaaa", !.addresses = {r.url} \X s])
       \/ Fail(c)
       \/ Escape(c)

\* The IPv6 addresses; all must be public, and these are used from here on.
ResolveAAAA(c) ==
    LET r == call[c] IN
    /\ r.at = "resolve_aaaa"
    /\ \/ /\ ~r.late
          /\ \E s \in Answers :
                LET all == r.addresses \cup ({r.url} \X s) IN
                /\ all # {} /\ all \subseteq Host \X Public
                /\ Goto(c, [r EXCEPT !.at = "connect", !.addresses = all])
       \/ Fail(c)
       \/ Escape(c)

\* _open_pinned_socket: the addresses in turn, until one accepts.
Connect(c) ==
    LET r == call[c] IN
    /\ r.at = "connect"
    /\ IF r.late \/ r.addresses = {} THEN Fail(c)
       ELSE \E x \in r.addresses :
               \/ Goto(c, [r EXCEPT !.at = "request", !.conn = x])
               \/ Goto(c, [r EXCEPT !.addresses = @ \ {x}])

\* The addresses of the URL before are used; redirects are not counted.
M_Redirected(r, u) == [r EXCEPT !.at = "connect", !.url = u, !.hop = @ + 1, !.conn = None]
M_Unlimited(r, u) == [Cleared(r) EXCEPT !.at = "resolve_a", !.url = u]

\* The next URL is looked at and resolved like the first one.
Redirected(r, u) == [Cleared(r) EXCEPT !.at = "resolve_a", !.url = u, !.hop = r.hop + 1]

\* The header of the response: content to be read, a redirect, or an error.  The
\* deadline is not looked at here.  A path that cannot be sent and a Location that
\* is no URL raise something else.
Request(c) ==
    LET r == call[c] IN
    /\ r.at = "request"
    /\ \/ Goto(c, [r EXCEPT !.at = "read"])
       \/ r.hop < MaxRedirects /\ \E u \in Url : Goto(c, Redirected(r, u))
       \/ Fail(c)
       \/ Escape(c)

\* The body, in time and not too long, of a type that text can be taken from; some
\* names of character sets raise something else.
Read(c) ==
    /\ call[c].at = "read"
    /\ \/ ~call[c].late /\ Page(c)
       \/ Fail(c)
       \/ ~call[c].late /\ Escape(c)

-----------------------------------------------------------------------------
(***************************************************************************)
(* The specification.                                                      *)
(***************************************************************************)

\* The deadline of a call passes.
Expire(c) ==
    /\ call[c].at \notin {"idle", "search", "done"} /\ ~call[c].late
    /\ Goto(c, [call[c] EXCEPT !.late = TRUE])

\* systemd starts the server again: threads and permits are new.  References
\* stay good, their key is in the environment file.
Restart ==
    /\ \E c \in Call : call[c].at # "idle"
    /\ free' = Permits /\ call' = [c \in Call |-> Idle]
    /\ UNCHANGED found

\* The thread reads what a server sends.  Its timeouts are of the wait for the next
\* bytes: a server that sends a header byte by byte, one "100 Continue" after the
\* other or trailers without end keeps it there, whatever the deadline.
Reading(c) == call[c].at \in {"search", "request", "read"}

Tool(c) == SearchWeb(c) \/ SearchAndFetchWeb(c) \/ FetchWebPage(c)

Step(c) ==
    \/ SearXNG(c) \/ NextCandidate(c) \/ Verify(c) \/ Acquire(c) \/ Busy(c)
    \/ ResolveA(c) \/ ResolveAAAA(c) \/ Connect(c) \/ Request(c) \/ Read(c)

Next == Restart \/ \E c \in Call : Tool(c) \/ Step(c) \/ Expire(c)

Spec == Init /\ [][Next]_vars

\* The threads go on: the wait for a permit, DNS and a connection have timeouts.
\* No deadline need ever pass.
FairSpec == Spec /\ \A c \in Call : WF_vars(Step(c) /\ ~Reading(c))

-----------------------------------------------------------------------------
(***************************************************************************)
(* What is true of it.                                                     *)
(***************************************************************************)

Holders == {c \in Call : call[c].at \in Holding}

\* The types; and the permits that are out are those of the threads between
\* acquire and release, however calls end (BoundedSemaphore raises otherwise).
TypeOK ==
    /\ free \in 0..Permits /\ free + Cardinality(Holders) = Permits
    /\ found \subseteq Url
    /\ call \in [Call -> Calls]
    /\ \A c \in Call : call[c].pages <= call[c].wanted

\* A connection is open only to an address that is public and was given for
\* the host of the very URL being fetched, whatever DNS says by now and however
\* many redirects led there (_validate_and_resolve_url, _open_pinned_socket).
OnlyPublic ==
    \A c \in Call : call[c].conn # None =>
        call[c].conn[1] = call[c].url /\ call[c].conn[2] \in Public

\* The answer of search_and_fetch_web has a page or a failure for every
\* candidate it tried, and lacks pages only for want of candidates or of time.
Complete(r) ==
    r.answer \in {"error", "pages"} /\ r.tool = "combined" /\ r.tried > 0 =>
        /\ r.tried = r.pages + r.failures
        /\ (r.answer = "pages") = (r.pages > 0)
        /\ r.pages = r.wanted \/ r.rest = <<>> \/ r.late

\* A call ends with an answer that is complete, or with the server, if the servers
\* it reads from come to an end: however pages redirect, and whichever other calls
\* are kept for ever, with their permits, by servers that do not (BoundedSemaphore,
\* the loops of fetch_web_page and search_and_fetch_web).
AnswersCome ==
    \A c \in Call :
        []<>~Reading(c) =>
            (call[c].at \notin {"idle", "done"} ~>
                call[c].at = "idle" \/ (call[c].at = "done" /\ Complete(call[c])))
=============================================================================
