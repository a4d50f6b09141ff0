-------------------------- MODULE WebSearchProofs --------------------------
(***************************************************************************)
(* Proofs about WebSearch, for any number of calls, results, pages and     *)
(* redirects.                                                              *)
(*                                                                         *)
(* What is proved of every step is what it leaves of the one call that     *)
(* moves: the permits are counted by the places of the calls, so a step    *)
(* either stays on its side of the semaphore or hands exactly one permit   *)
(* over (Moved).  A combined call accounts for what it has tried           *)
(* (Counted), and a fetch holds only addresses of the URL it is at         *)
(* (Pinned), which are public from the moment they can be connected to.    *)
(***************************************************************************)
EXTENDS WebSearch, FiniteSetTheorems, SequenceTheorems, TLAPS

\* Candidates that are left: the first is taken, the others stay within the bound.
LEMMA RestIsSeq ==
  ASSUME NEW s \in BoundedSeq(Url, MaxResults)
  PROVE  /\ s \in Seq(Url) /\ Len(s) \in 0..MaxResults
         /\ s # <<>> => /\ Head(s) \in Url
                        /\ Tail(s) \in BoundedSeq(Url, MaxResults)
                        /\ Len(Tail(s)) = Len(s) - 1
  <1>1. PICK m \in 0..MaxResults : s \in [1..m -> Url]
    BY DEF BoundedSeq, SeqOf
  <1>2. s \in Seq(Url) /\ Len(s) = m
    BY <1>1, ConstantsAssumption
  <1>3. ASSUME s # <<>>
        PROVE  /\ Head(s) \in Url /\ Len(Tail(s)) = m - 1 /\ m - 1 \in 0..MaxResults
               /\ Tail(s) \in [1..(m - 1) -> Url]
    <2>1. Head(s) \in Url /\ Tail(s) \in Seq(Url) /\ Len(Tail(s)) = m - 1
      BY <1>2, <1>3, HeadTailProperties
    <2>2. m > 0
      BY <1>2, <1>3, EmptySeq
    <2>3. Tail(s) \in [1..(m - 1) -> Url]
      BY <2>1, LenProperties
    <2> QED
      BY <2>1, <2>2, <2>3, ConstantsAssumption
  <1> QED
    BY <1>1, <1>2, <1>3 DEF BoundedSeq, SeqOf

-----------------------------------------------------------------------------
\* Places of a call that fetches a page.
Fetching == {"verify", "acquire"} \cup Holding

\* What a combined call has tried is what has come of it, and what it is at.
Counted(r) ==
    /\ r.at = "search" => r.tried = 0 /\ r.pages = 0 /\ r.failures = 0
    /\ r.at = "next" => r.tried = r.pages + r.failures
    /\ r.at \in Fetching => r.tried = r.pages + r.failures + 1 /\ r.pages < r.wanted
    /\ r.at # "done" => r.tried + Len(r.rest) <= MaxResults

\* Addresses are those of the URL that is being fetched, and those that are
\* connected to are public.
Pinned(r) ==
    /\ r.at = "resolve_aaaa" => r.addresses \subseteq {r.url} \X Address
    /\ r.at = "connect" => r.addresses \subseteq {r.url} \X Public
    /\ r.conn # None => r.at \in {"request", "read"} /\ r.conn \in {r.url} \X Public

\* What holds of each call by itself.
CallOK(r) ==
    /\ r.pages <= r.wanted
    /\ r.at = "next" => r.tool = "combined"
    /\ r.at = "search" => r.tool # "fetch"
    /\ r.tool = "search" => r.at \in {"search", "done"}
    /\ r.tool = "combined" => Counted(r)
    /\ r.at = "done" => Complete(r)
    /\ Pinned(r)

\* The inductive invariant.
Inv == TypeOK /\ \A c \in Call : CallOK(call[c])

\* What a step of one call must show.
LEMMA Moved ==
  ASSUME Inv, NEW c \in Call, NEW r \in Calls, CallOK(r),
         call' = [call EXCEPT ![c] = r],
         found' \subseteq Url,
         \/ (r.at \in Holding <=> call[c].at \in Holding) /\ free' = free
         \/ r.at \in Holding /\ call[c].at \notin Holding /\ free' = free - 1 /\ free > 0
         \/ r.at \notin Holding /\ call[c].at \in Holding /\ free' = free + 1
  PROVE  Inv'
  <1>1. call \in [Call -> Calls] /\ \A d \in Call : CallOK(call[d])
    BY DEF Inv, TypeOK
  <1>2. call' \in [Call -> Calls] /\ call'[c] = r /\ \A d \in Call \ {c} : call'[d] = call[d]
    BY <1>1
  <1>3. \A d \in Call : CallOK(call[d])'
    BY <1>1, <1>2 DEF CallOK, Counted, Pinned, Complete
  <1>4. /\ IsFiniteSet(Holders) /\ Cardinality(Holders) \in Nat
        /\ free \in 0..Permits /\ free + Cardinality(Holders) = Permits
    BY ConstantsAssumption, FS_Subset, FS_CardinalityType DEF Inv, TypeOK, Holders
  <1>5. free' \in 0..Permits /\ free' + Cardinality(Holders') = Permits
    <2>1. CASE (r.at \in Holding <=> call[c].at \in Holding) /\ free' = free
      <3>1. Holders' = Holders
        BY <1>2, <2>1 DEF Holders
      <3> QED
        BY <1>4, <2>1, <3>1
    <2>2. CASE r.at \in Holding /\ call[c].at \notin Holding /\ free' = free - 1 /\ free > 0
      <3>1. Holders' = Holders \cup {c} /\ c \notin Holders
        BY <1>2, <2>2 DEF Holders
      <3>2. Cardinality(Holders') = Cardinality(Holders) + 1
        BY <1>4, <3>1, FS_AddElement
      <3> QED
        BY <1>4, <2>2, <3>2, ConstantsAssumption
    <2>3. CASE r.at \notin Holding /\ call[c].at \in Holding /\ free' = free + 1
      <3>1. Holders' = Holders \ {c} /\ c \in Holders
        BY <1>2, <2>3 DEF Holders
      <3>2. Cardinality(Holders') = Cardinality(Holders) - 1
        BY <1>4, <3>1, FS_RemoveElement
      <3>3. Cardinality(Holders) > 0
        BY <1>4, <3>1, FS_EmptySet
      <3> QED
        BY <1>4, <2>3, <3>2, <3>3, ConstantsAssumption
    <2> QED
      BY <2>1, <2>2, <2>3
  <1>6. \A d \in Call : call'[d].pages <= call'[d].wanted
    BY <1>3 DEF CallOK
  <1> QED
    BY <1>2, <1>3, <1>5, <1>6 DEF Inv, TypeOK

\* What is known of a call.
LEMMA Here ==
  ASSUME Inv, NEW c \in Call
  PROVE  /\ call[c] \in Calls /\ CallOK(call[c])
         /\ found \subseteq Url /\ free \in 0..Permits
         /\ MaxResults \in Nat /\ MaxPages \in Nat /\ MaxRedirects \in Nat
  BY ConstantsAssumption DEF Inv, TypeOK

\* No candidates are a list of candidates too.
LEMMA NoRest == <<>> \in BoundedSeq(Url, MaxResults) /\ Len(<<>>) = 0
  <1>1. <<>> \in [1..0 -> Url] /\ 0 \in 0..MaxResults
    BY ConstantsAssumption
  <1> QED
    BY <1>1 DEF BoundedSeq, SeqOf

\* A call at rest.
LEMMA AtRest ==
  /\ Idle \in Calls /\ Idle.at = "idle" /\ Idle.tool = "fetch" /\ Idle.wanted = 0
  /\ Idle.pages = 0 /\ Idle.tried = 0 /\ Idle.failures = 0 /\ Idle.conn = None
  /\ Idle.rest = <<>> /\ Idle.answer = "none"
  <1>1. /\ "idle" \in Place /\ Refused \in Url /\ 0 \in 0..MaxRedirects /\ 0 \in 0..MaxPages
        /\ 0 \in 0..MaxResults /\ {} \in SUBSET Target /\ None \in Target \cup {None}
    BY ConstantsAssumption DEF Place, Url
  <1> QED
    BY <1>1, NoRest DEF Idle, Calls

\* A place where no page is being fetched.
LEMMA Clears ==
  ASSUME NEW r \in Calls
  PROVE  LET x == Cleared(r)
         IN  /\ x \in Calls /\ x.at = r.at /\ x.tool = r.tool /\ x.late = r.late
             /\ x.wanted = r.wanted /\ x.pages = r.pages /\ x.tried = r.tried
             /\ x.failures = r.failures /\ x.rest = r.rest /\ x.answer = r.answer
             /\ x.conn = None
  <1>1. Refused \in Url /\ 0 \in 0..MaxRedirects /\ {} \in SUBSET Target /\ None \in Target \cup {None}
    BY ConstantsAssumption DEF Url
  <1> QED
    BY <1>1 DEF Cleared, Calls

\* A call that is answered keeps what it counted and holds nothing.
LEMMA AnswersIt ==
  ASSUME NEW r \in Calls, NEW a \in {"error", "raised", "results", "page"}
  PROVE  LET x == Answered(r, a)
         IN  /\ x \in Calls /\ x.at = "done" /\ x.tool = r.tool /\ x.late = r.late
             /\ x.wanted = r.wanted /\ x.pages = r.pages /\ x.tried = r.tried
             /\ x.failures = r.failures /\ x.rest = <<>> /\ x.answer = a
             /\ x.conn = None
  <1> DEFINE y == Cleared(r)
             x == [y EXCEPT !.at = "done", !.answer = a, !.rest = <<>>]
  <1>1. /\ y \in Calls /\ y.tool = r.tool /\ y.late = r.late
        /\ y.wanted = r.wanted /\ y.pages = r.pages /\ y.tried = r.tried
        /\ y.failures = r.failures /\ y.conn = None
    BY Clears
  <1> HIDE DEF y
  <1>2. /\ x \in Calls /\ x.at = "done" /\ x.tool = r.tool /\ x.late = r.late
        /\ x.wanted = r.wanted /\ x.pages = r.pages /\ x.tried = r.tried
        /\ x.failures = r.failures /\ x.rest = <<>> /\ x.answer = a
        /\ x.conn = None
    BY <1>1, NoRest DEF Calls, Place
  <1> QED
    BY <1>2 DEF x, y, Answered

\* However a fetch ends, the permit is given back and the call goes on.
LEMMA LeftOK ==
  ASSUME Inv, NEW c \in Call, NEW r \in Calls, CallOK(r), call[c].at \in Fetching,
         Leave(c, r), r.at \notin Holding
  PROVE  Inv'
  BY Here, Moved DEF Leave, Release, Fetching

\* A fetch that fails ends the call of fetch_web_page, and is counted by
\* search_and_fetch_web.
LEMMA FailOK ==
  ASSUME Inv, NEW c \in Call, call[c].at \in Fetching, Fail(c)
  PROVE  Inv'
  <1>0. call[c] \in Calls /\ CallOK(call[c])
    BY Here
  <1>1. CASE call[c].tool = "fetch"
    <2>1. PICK x : x = Answered(call[c], "error")
      OBVIOUS
    <2>2. x \in Calls /\ x.at = "done" /\ x.tool = "fetch" /\ x.pages = call[c].pages
          /\ x.wanted = call[c].wanted /\ x.conn = None
      BY <1>0, <1>1, <2>1, AnswersIt
    <2>3. CallOK(x)
      BY <1>0, <2>2 DEF CallOK, Pinned, Complete
    <2> QED
      BY <1>1, <2>1, <2>2, <2>3, LeftOK DEF Fail, Holding
  <1>2. CASE call[c].tool # "fetch"
    <2>1. call[c].tool = "combined"
      BY <1>0, <1>2 DEF CallOK, Calls, Fetching, Holding
    <2>2. PICK y : y = Cleared(call[c])
      OBVIOUS
    <2>3. /\ y \in Calls /\ y.tool = "combined" /\ y.wanted = call[c].wanted
          /\ y.pages = call[c].pages /\ y.tried = call[c].tried
          /\ y.failures = call[c].failures /\ y.rest = call[c].rest /\ y.conn = None
      BY <1>0, <2>1, <2>2, Clears
    <2>4. PICK x : x = [y EXCEPT !.at = "next", !.failures = @ + 1]
      OBVIOUS
    <2>5. y.tried = y.pages + y.failures + 1 /\ y.tried + Len(y.rest) <= MaxResults
      BY <1>0, <2>1, <2>3 DEF CallOK, Counted, Fetching, Holding
    <2>6. Len(y.rest) \in 0..MaxResults /\ y.pages \in Nat /\ y.failures \in Nat
          /\ y.failures + 1 \in 0..MaxResults
      <3>1. /\ y.pages \in Nat /\ y.failures \in Nat /\ y.tried \in 0..MaxResults
            /\ y.rest \in BoundedSeq(Url, MaxResults)
        BY <2>3, ConstantsAssumption DEF Calls
      <3>2. Len(y.rest) \in 0..MaxResults
        BY <3>1, RestIsSeq
      <3>3. y.tried = y.pages + y.failures + 1
        BY <2>5
      <3> QED
        BY <3>1, <3>2, <3>3, ConstantsAssumption
    <2>7. x \in Calls /\ x.at = "next" /\ x.tool = "combined" /\ x.pages = y.pages
          /\ x.failures = y.failures + 1 /\ x.tried = y.tried /\ x.rest = y.rest
          /\ x.wanted = y.wanted /\ x.conn = None
      BY <2>3, <2>4, <2>6 DEF Calls, Place
    <2>8. CallOK(x)
      BY <1>0, <2>3, <2>5, <2>6, <2>7 DEF CallOK, Counted, Pinned, Fetching, Holding
    <2> QED
      BY <1>2, <2>2, <2>4, <2>7, <2>8, LeftOK DEF Fail, Holding
  <1> QED
    BY <1>1, <1>2

\* An exception that nobody catches ends either call.
LEMMA EscapeOK ==
  ASSUME Inv, NEW c \in Call, call[c].at \in Fetching, Escape(c)
  PROVE  Inv'
  <1>1. call[c] \in Calls /\ CallOK(call[c])
    BY Here
  <1>2. PICK x : x = Answered(call[c], "raised")
    OBVIOUS
  <1>3. x \in Calls /\ x.at = "done" /\ x.answer = "raised" /\ x.pages = call[c].pages
        /\ x.wanted = call[c].wanted /\ x.conn = None /\ x.tool = call[c].tool
        /\ x.tried = call[c].tried
    BY <1>1, <1>2, AnswersIt
  <1>4. CallOK(x)
    BY <1>1, <1>3 DEF CallOK, Counted, Pinned, Complete, Fetching, Holding
  <1> QED
    BY <1>2, <1>3, <1>4, LeftOK DEF Escape, Holding

\* A page ends the call of fetch_web_page, and is counted by search_and_fetch_web.
LEMMA PageOK ==
  ASSUME Inv, NEW c \in Call, call[c].at \in Fetching, Page(c)
  PROVE  Inv'
  <1>0. call[c] \in Calls /\ CallOK(call[c])
    BY Here
  <1>1. CASE call[c].tool = "fetch"
    <2>1. PICK x : x = Answered(call[c], "page")
      OBVIOUS
    <2>2. x \in Calls /\ x.at = "done" /\ x.tool = "fetch" /\ x.pages = call[c].pages
          /\ x.wanted = call[c].wanted /\ x.conn = None
      BY <1>0, <1>1, <2>1, AnswersIt
    <2>3. CallOK(x)
      BY <1>0, <2>2 DEF CallOK, Pinned, Complete
    <2> QED
      BY <1>1, <2>1, <2>2, <2>3, LeftOK DEF Page, Holding
  <1>2. CASE call[c].tool # "fetch"
    <2>1. call[c].tool = "combined"
      BY <1>0, <1>2 DEF CallOK, Calls, Fetching, Holding
    <2>2. PICK y : y = Cleared(call[c])
      OBVIOUS
    <2>3. /\ y \in Calls /\ y.tool = "combined" /\ y.wanted = call[c].wanted
          /\ y.pages = call[c].pages /\ y.tried = call[c].tried
          /\ y.failures = call[c].failures /\ y.rest = call[c].rest /\ y.conn = None
      BY <1>0, <2>1, <2>2, Clears
    <2>4. PICK x : x = [y EXCEPT !.at = "next", !.pages = @ + 1]
      OBVIOUS
    <2>5. y.tried = y.pages + y.failures + 1 /\ y.tried + Len(y.rest) <= MaxResults
          /\ y.pages < y.wanted
      BY <1>0, <2>1, <2>3 DEF CallOK, Counted, Fetching, Holding
    <2>6. y.pages \in Nat /\ y.failures \in Nat /\ y.wanted \in 0..MaxPages
          /\ y.pages + 1 \in 0..MaxPages
      BY <2>3, <2>5, ConstantsAssumption DEF Calls
    <2>7. x \in Calls /\ x.at = "next" /\ x.tool = "combined" /\ x.pages = y.pages + 1
          /\ x.failures = y.failures /\ x.tried = y.tried /\ x.rest = y.rest
          /\ x.wanted = y.wanted /\ x.conn = None
      BY <2>3, <2>4, <2>6 DEF Calls, Place
    <2>8. CallOK(x)
      BY <1>0, <2>3, <2>5, <2>6, <2>7 DEF CallOK, Counted, Pinned, Fetching, Holding
    <2> QED
      BY <1>2, <2>2, <2>4, <2>7, <2>8, LeftOK DEF Page, Holding
  <1> QED
    BY <1>1, <1>2

-----------------------------------------------------------------------------
\* A call begins with nothing tried.
LEMMA Began ==
  ASSUME Inv, NEW c \in Call, call[c].at \notin Holding, NEW r \in Calls, Goto(c, r),
         r.pages = 0, r.tried = 0, r.failures = 0, r.conn = None, r.rest = <<>>,
         \/ r.at = "search" /\ r.tool # "fetch"
         \/ r.at = "verify" /\ r.tool = "fetch"
  PROVE  Inv'
  <1>1. r.wanted \in Nat
    BY ConstantsAssumption DEF Calls
  <1>2. CallOK(r)
    BY <1>1, NoRest, ConstantsAssumption DEF CallOK, Counted, Pinned, Fetching, Holding
  <1> QED
    BY <1>2, Here, Moved DEF Goto, Holding

\* Every tool starts with no permit and nothing counted.
LEMMA ToolOK ==
  ASSUME Inv, NEW c \in Call, Tool(c)
  PROVE  Inv'
  <1>1. call[c].at \notin Holding
    BY DEF Tool, SearchWeb, SearchAndFetchWeb, FetchWebPage, Holding
  <1>2. CASE SearchWeb(c)
    <2>1. PICK r : r = [Idle EXCEPT !.at = "search", !.tool = "search"]
      OBVIOUS
    <2>2. r \in Calls /\ r.at = "search" /\ r.tool = "search" /\ r.pages = 0 /\ r.tried = 0
          /\ r.failures = 0 /\ r.conn = None /\ r.rest = <<>>
      BY <2>1, AtRest DEF Calls, Place
    <2> QED
      BY <1>1, <1>2, <2>1, <2>2, Began DEF SearchWeb
  <1>3. CASE SearchAndFetchWeb(c)
    <2>1. PICK n \in 1..MaxPages :
            Goto(c, [Idle EXCEPT !.at = "search", !.tool = "combined", !.wanted = n])
      BY <1>3 DEF SearchAndFetchWeb
    <2>2. PICK r : r = [Idle EXCEPT !.at = "search", !.tool = "combined", !.wanted = n]
      OBVIOUS
    <2>3. n \in 0..MaxPages
      BY ConstantsAssumption
    <2>4. r \in Calls /\ r.at = "search" /\ r.tool = "combined" /\ r.pages = 0 /\ r.tried = 0
          /\ r.failures = 0 /\ r.conn = None /\ r.rest = <<>>
      BY <2>2, <2>3, AtRest DEF Calls, Place
    <2> QED
      BY <1>1, <2>1, <2>2, <2>4, Began
  <1>4. CASE FetchWebPage(c)
    <2>1. PICK u \in Url : Goto(c, [Idle EXCEPT !.at = "verify", !.url = u])
      BY <1>4 DEF FetchWebPage
    <2>2. PICK r : r = [Idle EXCEPT !.at = "verify", !.url = u]
      OBVIOUS
    <2>3. r \in Calls /\ r.at = "verify" /\ r.tool = "fetch" /\ r.pages = 0 /\ r.tried = 0
          /\ r.failures = 0 /\ r.conn = None /\ r.rest = <<>>
      BY <2>2, AtRest DEF Calls, Place
    <2> QED
      BY <1>1, <2>1, <2>2, <2>3, Began
  <1> QED
    BY <1>2, <1>3, <1>4 DEF Tool

\* The results are new candidates, none of them tried.
LEMMA SearXNGOK ==
  ASSUME Inv, NEW c \in Call, SearXNG(c)
  PROVE  Inv'
  <1>0. call[c] \in Calls /\ CallOK(call[c]) /\ call[c].at = "search"
    BY Here DEF SearXNG
  <1>1. PICK x : /\ call' = [call EXCEPT ![c] = x] /\ free' = free /\ found' \subseteq Url
                 /\ \/ \E a \in {"results", "error"} : x = Answered(call[c], a)
                    \/ /\ call[c].tool # "search"
                       /\ \E s \in BoundedSeq(Url, MaxResults) :
                             x = [call[c] EXCEPT !.at = "next", !.rest = s]
    <2>1. ASSUME NEW s \in BoundedSeq(Url, MaxResults) PROVE ToSet(s) \subseteq Url
      BY <2>1, RestIsSeq DEF ToSet
    <2> QED
      BY <2>1, Here DEF SearXNG, CreateReferences
  <1>2. CASE \E a \in {"results", "error"} : x = Answered(call[c], a)
    <2>1. PICK a \in {"results", "error"} : x = Answered(call[c], a)
      BY <1>2
    <2>2. x \in Calls /\ x.at = "done" /\ x.tried = call[c].tried /\ x.tool = call[c].tool
          /\ x.pages = call[c].pages /\ x.wanted = call[c].wanted /\ x.conn = None
      BY <1>0, <2>1, AnswersIt
    <2>3. CallOK(x)
      BY <1>0, <2>2 DEF CallOK, Counted, Pinned, Complete, Fetching, Holding
    <2> QED
      BY <1>0, <1>1, <2>2, <2>3, Moved DEF Holding
  <1>3. CASE /\ call[c].tool # "search"
             /\ \E s \in BoundedSeq(Url, MaxResults) : x = [call[c] EXCEPT !.at = "next", !.rest = s]
    <2>1. PICK s \in BoundedSeq(Url, MaxResults) : x = [call[c] EXCEPT !.at = "next", !.rest = s]
      BY <1>3
    <2>2. x \in Calls /\ x.at = "next" /\ x.tried = call[c].tried /\ x.tool = call[c].tool
          /\ x.pages = call[c].pages /\ x.failures = call[c].failures
          /\ x.wanted = call[c].wanted /\ x.conn = call[c].conn /\ x.rest = s
      BY <1>0, <2>1 DEF Calls, Place
    <2>3. call[c].tool = "combined" \/ call[c].tool = "fetch"
      BY <1>0, <1>3 DEF Calls
    <2>4. CallOK(x)
      BY <1>0, <2>2, <2>3, RestIsSeq DEF CallOK, Counted, Pinned, Complete, Fetching, Holding
    <2> QED
      BY <1>0, <1>1, <2>2, <2>4, Moved DEF Holding
  <1> QED
    BY <1>1, <1>2, <1>3

\* The candidates end, the time is over, or the next one is tried.
LEMMA NextCandidateOK ==
  ASSUME Inv, NEW c \in Call, NextCandidate(c)
  PROVE  Inv'
  <1> DEFINE r == call[c]
             end == IF r.pages = 0 THEN "error" ELSE "pages"
  <1>0. /\ r \in Calls /\ CallOK(r) /\ r.at = "next" /\ r.tool = "combined"
        /\ r.tried = r.pages + r.failures /\ r.tried + Len(r.rest) <= MaxResults
        /\ r.conn = None /\ r.pages <= r.wanted
    BY Here DEF NextCandidate, CallOK, Counted, Pinned
  <1>1. /\ r.pages \in Nat /\ r.failures \in Nat /\ r.wanted \in Nat /\ r.tried \in 0..MaxResults
        /\ r.rest \in BoundedSeq(Url, MaxResults) /\ Len(r.rest) \in 0..MaxResults
    BY <1>0, RestIsSeq, ConstantsAssumption DEF Calls
  <1> DEFINE over == r.pages >= r.wanted \/ r.rest = <<>>
             a == [r EXCEPT !.at = "done", !.answer = end]
             b == [a EXCEPT !.tried = @ + 1, !.failures = @ + 1]
             d == [r EXCEPT !.at = "verify", !.url = Head(r.rest), !.rest = Tail(@),
                            !.tried = @ + 1]
  <1>2. \/ over /\ Goto(c, a)
        \/ ~over /\ r.late /\ Goto(c, b)
        \/ ~over /\ Goto(c, d)
    BY DEF NextCandidate
  <1>3. CASE over /\ Goto(c, a)
    <2>0. PICK x : x = a
      OBVIOUS
    <2>1. x \in Calls /\ x.at = "done" /\ x.answer = end /\ x.tool = r.tool
          /\ x.pages = r.pages /\ x.tried = r.tried /\ x.failures = r.failures
          /\ x.wanted = r.wanted /\ x.rest = r.rest /\ x.conn = r.conn
      BY <1>0, <2>0 DEF Calls, Place
    <2>2. CallOK(x)
      BY <1>0, <1>1, <1>3, <2>1 DEF CallOK, Counted, Pinned, Complete, Fetching, Holding
    <2> QED
      BY <1>0, <1>3, <2>0, <2>1, <2>2, Here, Moved DEF Goto, Holding
  <1>4. CASE ~over /\ r.late /\ Goto(c, b)
    <2>9. PICK x : x = b
      OBVIOUS
    <2>0. Len(r.rest) > 0
      BY <1>1, <1>4, RestIsSeq, EmptySeq
    <2>1. r.tried + 1 \in 0..MaxResults /\ r.failures + 1 \in 0..MaxResults
      <3> DEFINE n == r.tried
                 p == r.pages
                 f == r.failures
                 l == Len(r.rest)
      <3>1. /\ n \in Nat /\ p \in Nat /\ f \in Nat /\ l \in Nat /\ MaxResults \in Nat
            /\ n = p + f /\ n + l <= MaxResults /\ l > 0
        BY <1>0, <1>1, <2>0, ConstantsAssumption
      <3> HIDE DEF n, p, f, l
      <3>2. n + 1 \in 0..MaxResults /\ f + 1 \in 0..MaxResults
        BY <3>1
      <3> QED
        BY <3>2 DEF n, f
    <2>2. x \in Calls /\ x.at = "done" /\ x.answer = end /\ x.tool = r.tool
          /\ x.pages = r.pages /\ x.tried = r.tried + 1 /\ x.failures = r.failures + 1
          /\ x.wanted = r.wanted /\ x.rest = r.rest /\ x.conn = r.conn /\ x.late
      BY <1>0, <1>4, <2>9, <2>1 DEF Calls, Place
    <2>3. CallOK(x)
      BY <1>0, <1>1, <1>4, <2>2 DEF CallOK, Counted, Pinned, Complete, Fetching, Holding
    <2> QED
      BY <1>0, <1>4, <2>9, <2>2, <2>3, Here, Moved DEF Goto, Holding
  <1>5. CASE ~over /\ Goto(c, d)
    <2>0. PICK x : x = d
      OBVIOUS
    <2>1. /\ Head(r.rest) \in Url /\ Tail(r.rest) \in BoundedSeq(Url, MaxResults)
          /\ Len(Tail(r.rest)) = Len(r.rest) - 1 /\ Len(Tail(r.rest)) \in 0..MaxResults
      BY <1>1, <1>5, RestIsSeq
    <2>2. r.tried + 1 \in 0..MaxResults
      BY <1>0, <1>1, <2>1, ConstantsAssumption
    <2>3. x \in Calls /\ x.at = "verify" /\ x.tool = r.tool
          /\ x.pages = r.pages /\ x.tried = r.tried + 1 /\ x.failures = r.failures
          /\ x.wanted = r.wanted /\ x.rest = Tail(r.rest) /\ x.conn = r.conn
      BY <1>0, <2>0, <2>1, <2>2 DEF Calls, Place
    <2>4. Counted(x)
      <3>1. r.pages < r.wanted
        BY <1>0, <1>1, <1>5
      <3>2. r.tried + 1 + Len(Tail(r.rest)) <= MaxResults
        BY <1>0, <1>1, <2>1, ConstantsAssumption
      <3> HIDE DEF d, over
      <3> QED
        BY <1>0, <1>1, <2>3, <3>1, <3>2 DEF Counted, Fetching, Holding
    <2>5. Pinned(x)
      BY <1>0, <2>3 DEF Pinned
    <2>6. CallOK(x)
      BY <1>0, <2>3, <2>4, <2>5 DEF CallOK
    <2> QED
      BY <1>0, <1>5, <2>0, <2>3, <2>6, Here, Moved DEF Goto, Holding
  <1> QED
    BY <1>2, <1>3, <1>4, <1>5

-----------------------------------------------------------------------------
\* A reference that search_web has signed lets the call ask for a permit.
LEMMA VerifyOK ==
  ASSUME Inv, NEW c \in Call, Verify(c)
  PROVE  Inv'
  <1> DEFINE r == call[c]
  <1>1. r \in Calls /\ CallOK(r) /\ r.at = "verify" /\ r.at \in Fetching
    BY Here DEF Verify, Fetching
  <1>2. CASE Goto(c, [r EXCEPT !.at = "acquire"])
    <2>1. PICK x : x = [r EXCEPT !.at = "acquire"]
      OBVIOUS
    <2>2. /\ x \in Calls /\ x.at = "acquire" /\ x.tool = r.tool /\ x.conn = r.conn
          /\ x.pages = r.pages /\ x.wanted = r.wanted /\ x.tried = r.tried
          /\ x.failures = r.failures /\ x.rest = r.rest
      BY <1>1, <2>1 DEF Calls, Place
    <2>3. CallOK(x)
      BY <1>1, <2>2 DEF CallOK, Counted, Pinned, Fetching, Holding
    <2> QED
      BY <1>1, <1>2, <2>1, <2>2, <2>3, Here, Moved DEF Goto, Holding
  <1>3. CASE Fail(c)
    BY <1>1, <1>3, FailOK
  <1> QED
    BY <1>2, <1>3 DEF Verify

\* A permit is taken only if one is left.
LEMMA AcquireOK ==
  ASSUME Inv, NEW c \in Call, Acquire(c)
  PROVE  Inv'
  <1> DEFINE r == call[c]
  <1>1. r \in Calls /\ CallOK(r) /\ r.at = "acquire" /\ r.at \in Fetching
    BY Here DEF Acquire, Fetching
  <1>2. PICK x : x = [r EXCEPT !.at = "resolve_a"]
    OBVIOUS
  <1>3. /\ x \in Calls /\ x.at = "resolve_a" /\ x.tool = r.tool /\ x.conn = r.conn
        /\ x.pages = r.pages /\ x.wanted = r.wanted /\ x.tried = r.tried
        /\ x.failures = r.failures /\ x.rest = r.rest
    BY <1>1, <1>2 DEF Calls, Place, Holding
  <1>4. CallOK(x)
    BY <1>1, <1>3 DEF CallOK, Counted, Pinned, Fetching, Holding
  <1>5. call' = [call EXCEPT ![c] = x] /\ free > 0 /\ free' = free - 1 /\ found' = found
    BY <1>2 DEF Acquire
  <1> QED
    BY <1>1, <1>3, <1>4, <1>5, Here, Moved DEF Holding

\* A call that goes from one place of its fetch to the next, with the permit.
LEMMA Onward ==
  ASSUME Inv, NEW c \in Call, call[c].at \in Holding,
         NEW x \in Calls, Goto(c, x), x.at \in Holding, Pinned(x),
         x.tool = call[c].tool, x.pages = call[c].pages, x.wanted = call[c].wanted,
         x.tried = call[c].tried, x.failures = call[c].failures, x.rest = call[c].rest
  PROVE  Inv'
  <1>1. CallOK(call[c]) /\ call[c].at \in Fetching
    BY Here DEF Fetching
  <1>2. CallOK(x)
    BY <1>1 DEF CallOK, Counted, Fetching, Holding
  <1> QED
    BY <1>2, Here, Moved DEF Goto

\* The first answer is kept, public or not.
LEMMA ResolveAOK ==
  ASSUME Inv, NEW c \in Call, ResolveA(c)
  PROVE  Inv'
  <1> DEFINE r == call[c]
  <1>1. r \in Calls /\ CallOK(r) /\ r.at = "resolve_a" /\ r.at \in Fetching /\ r.at \in Holding
    BY Here DEF ResolveA, Fetching, Holding
  <1>2. ASSUME NEW s \in Answers, r.url # Refused,
               Goto(c, [r EXCEPT !.at = "resolve_aaaa", !.addresses = {r.url} \X s])
        PROVE  Inv'
    <2>1. PICK x : x = [r EXCEPT !.at = "resolve_aaaa", !.addresses = {r.url} \X s]
      OBVIOUS
    <2>2. r.url \in Host
      BY <1>1, <1>2 DEF Calls, Url
    <2>3. {r.url} \X s \subseteq {r.url} \X Address /\ {r.url} \X s \in SUBSET Target
      BY <2>2 DEF Answers, Target
    <2>4. /\ x \in Calls /\ x.at = "resolve_aaaa" /\ x.tool = r.tool /\ x.conn = r.conn
          /\ x.pages = r.pages /\ x.wanted = r.wanted /\ x.tried = r.tried
          /\ x.failures = r.failures /\ x.rest = r.rest /\ x.url = r.url
          /\ x.addresses = {r.url} \X s
      BY <1>1, <2>1, <2>3 DEF Calls, Place, Holding
    <2>5. Pinned(x)
      BY <1>1, <2>3, <2>4 DEF CallOK, Pinned
    <2> QED
      BY <1>1, <1>2, <2>1, <2>4, <2>5, Onward DEF Holding
  <1> QED
    BY <1>1, <1>2, FailOK, EscapeOK DEF ResolveA

\* From here on the addresses are public, and those of the URL.
LEMMA ResolveAAAAOK ==
  ASSUME Inv, NEW c \in Call, ResolveAAAA(c)
  PROVE  Inv'
  <1> DEFINE r == call[c]
             all(s) == r.addresses \cup ({r.url} \X s)
  <1>1. r \in Calls /\ CallOK(r) /\ r.at = "resolve_aaaa" /\ r.at \in Fetching /\ r.at \in Holding
    BY Here DEF ResolveAAAA, Fetching, Holding
  <1>2. ASSUME NEW s \in Answers, all(s) \subseteq Host \X Public,
               Goto(c, [r EXCEPT !.at = "connect", !.addresses = all(s)])
        PROVE  Inv'
    <2>1. PICK x : x = [r EXCEPT !.at = "connect", !.addresses = all(s)]
      OBVIOUS
    <2>2. r.addresses \subseteq {r.url} \X Address
      BY <1>1 DEF CallOK, Pinned
    <2>3. all(s) \subseteq {r.url} \X Public
      BY <1>2, <2>2
    <2>4. all(s) \in SUBSET Target
      BY <1>2 DEF Target, Address
    <2>5. /\ x \in Calls /\ x.at = "connect" /\ x.tool = r.tool /\ x.conn = r.conn
          /\ x.pages = r.pages /\ x.wanted = r.wanted /\ x.tried = r.tried
          /\ x.failures = r.failures /\ x.rest = r.rest /\ x.url = r.url
          /\ x.addresses = all(s)
      <3> HIDE DEF all
      <3> QED
        BY <1>1, <2>1, <2>4 DEF Calls, Place, Holding
    <2>6. Pinned(x)
      BY <1>1, <2>3, <2>5 DEF CallOK, Pinned
    <2> QED
      BY <1>1, <1>2, <2>1, <2>5, <2>6, Onward DEF Holding
  <1> QED
    BY <1>1, <1>2, FailOK, EscapeOK DEF ResolveAAAA

\* The connection is to one of the checked addresses; one that fails is not tried again.
LEMMA ConnectOK ==
  ASSUME Inv, NEW c \in Call, Connect(c)
  PROVE  Inv'
  <1> DEFINE r == call[c]
  <1>1. /\ r \in Calls /\ r.at = "connect" /\ r.at \in Fetching /\ r.at \in Holding
        /\ r.addresses \subseteq {r.url} \X Public /\ r.addresses \subseteq Target
        /\ r.conn = None
    BY Here DEF Connect, Fetching, Holding, CallOK, Pinned, Calls
  <1>2. ASSUME NEW a \in r.addresses, Goto(c, [r EXCEPT !.at = "request", !.conn = a])
        PROVE  Inv'
    <2>1. PICK x : x = [r EXCEPT !.at = "request", !.conn = a]
      OBVIOUS
    <2>2. /\ x \in Calls /\ x.at = "request" /\ x.tool = r.tool /\ x.conn = a
          /\ x.pages = r.pages /\ x.wanted = r.wanted /\ x.tried = r.tried
          /\ x.failures = r.failures /\ x.rest = r.rest /\ x.url = r.url
      BY <1>1, <2>1 DEF Calls, Place, Holding
    <2>3. Pinned(x)
      BY <1>1, <2>2 DEF Pinned
    <2> QED
      BY <1>1, <1>2, <2>1, <2>2, <2>3, Onward DEF Holding
  <1>3. ASSUME NEW a \in r.addresses, Goto(c, [r EXCEPT !.addresses = @ \ {a}])
        PROVE  Inv'
    <2>1. PICK x : x = [r EXCEPT !.addresses = @ \ {a}]
      OBVIOUS
    <2>2. /\ x \in Calls /\ x.at = "connect" /\ x.tool = r.tool /\ x.conn = None
          /\ x.pages = r.pages /\ x.wanted = r.wanted /\ x.tried = r.tried
          /\ x.failures = r.failures /\ x.rest = r.rest /\ x.url = r.url
          /\ x.addresses = r.addresses \ {a}
      BY <1>1, <2>1 DEF Calls
    <2>3. Pinned(x)
      BY <1>1, <2>2 DEF Pinned
    <2> QED
      BY <1>1, <1>3, <2>1, <2>2, <2>3, Onward DEF Holding
  <1> QED
    BY <1>1, <1>2, <1>3, FailOK DEF Connect

\* A redirect lets go of the connection and of the addresses.
LEMMA RequestOK ==
  ASSUME Inv, NEW c \in Call, Request(c)
  PROVE  Inv'
  <1> DEFINE r == call[c]
  <1>1. r \in Calls /\ CallOK(r) /\ r.at = "request" /\ r.at \in Fetching /\ r.at \in Holding
    BY Here DEF Request, Fetching, Holding
  <1>2. CASE Goto(c, [r EXCEPT !.at = "read"])
    <2>1. PICK x : x = [r EXCEPT !.at = "read"]
      OBVIOUS
    <2>2. /\ x \in Calls /\ x.at = "read" /\ x.tool = r.tool /\ x.conn = r.conn
          /\ x.pages = r.pages /\ x.wanted = r.wanted /\ x.tried = r.tried
          /\ x.failures = r.failures /\ x.rest = r.rest /\ x.url = r.url
      BY <1>1, <2>1 DEF Calls, Place, Holding
    <2>3. Pinned(x)
      BY <1>1, <2>2 DEF CallOK, Pinned
    <2> QED
      BY <1>1, <1>2, <2>1, <2>2, <2>3, Onward DEF Holding
  <1>3. ASSUME NEW u \in Url, r.hop < MaxRedirects, Goto(c, Redirected(r, u))
        PROVE  Inv'
    <2>1. PICK y : y = Cleared(r)
      OBVIOUS
    <2>2. PICK x : x = [y EXCEPT !.at = "resolve_a", !.url = u, !.hop = r.hop + 1]
      OBVIOUS
    <2>3. r.hop + 1 \in 0..MaxRedirects
      BY <1>1, <1>3, ConstantsAssumption DEF Calls
    <2>4. /\ y \in Calls /\ y.conn = None /\ y.tool = r.tool /\ y.pages = r.pages
          /\ y.wanted = r.wanted /\ y.tried = r.tried /\ y.failures = r.failures
          /\ y.rest = r.rest
      BY <1>1, <2>1, Clears
    <2>5. /\ x \in Calls /\ x.at = "resolve_a" /\ x.tool = r.tool /\ x.conn = None
          /\ x.pages = r.pages /\ x.wanted = r.wanted /\ x.tried = r.tried
          /\ x.failures = r.failures /\ x.rest = r.rest
      BY <2>2, <2>3, <2>4 DEF Calls, Place, Holding
    <2>6. Pinned(x)
      BY <2>5 DEF Pinned
    <2>7. Goto(c, x)
      BY <1>3, <2>1, <2>2 DEF Redirected
    <2> QED
      BY <1>1, <2>5, <2>6, <2>7, Onward DEF Holding
  <1> QED
    BY <1>1, <1>2, <1>3, FailOK, EscapeOK DEF Request

\* That the time is over changes neither where the call is nor what it has counted.
LEMMA ExpireOK ==
  ASSUME Inv, NEW c \in Call, Expire(c)
  PROVE  Inv'
  <1> DEFINE r == call[c]
  <1>1. r \in Calls /\ CallOK(r) /\ r.at # "done"
    BY Here DEF Expire
  <1>2. PICK x : x = [r EXCEPT !.late = TRUE]
    OBVIOUS
  <1>3. /\ x \in Calls /\ x.at = r.at /\ x.tool = r.tool /\ x.conn = r.conn
        /\ x.pages = r.pages /\ x.wanted = r.wanted /\ x.tried = r.tried
        /\ x.failures = r.failures /\ x.rest = r.rest /\ x.url = r.url
        /\ x.addresses = r.addresses
    BY <1>1, <1>2 DEF Calls
  <1>4. CallOK(x)
    BY <1>1, <1>3 DEF CallOK, Counted, Pinned
  <1> QED
    BY <1>2, <1>3, <1>4, Here, Moved DEF Expire, Goto

-----------------------------------------------------------------------------
\* At first no call is in progress.
LEMMA InitOK == Init => Inv
  <1> SUFFICES ASSUME Init PROVE Inv
    OBVIOUS
  <1>1. call = [c \in Call |-> Idle] /\ free = Permits /\ found = {}
    BY DEF Init
  <1>2. CallOK(Idle)
    BY AtRest, NoRest, ConstantsAssumption DEF CallOK, Counted, Pinned, Fetching, Holding
  <1>3. Holders = {}
    BY <1>1, AtRest DEF Holders, Holding
  <1>4. free + Cardinality(Holders) = Permits /\ free \in 0..Permits
    BY <1>1, <1>3, FS_EmptySet, ConstantsAssumption
  <1> QED
    BY <1>1, <1>2, <1>4, AtRest DEF Inv, TypeOK

\* After a restart of the server all permits are there.
LEMMA RestartOK == Inv /\ Restart => Inv'
  <1> SUFFICES ASSUME Inv, Restart PROVE Inv'
    OBVIOUS
  <1>1. call' = [c \in Call |-> Idle] /\ free' = Permits /\ found' = found
    BY DEF Restart
  <1>2. CallOK(Idle)'
    BY AtRest, NoRest, ConstantsAssumption DEF CallOK, Counted, Pinned, Fetching, Holding
  <1>3. Holders' = {}
    BY <1>1, AtRest DEF Holders, Holding
  <1>4. free' + Cardinality(Holders') = Permits /\ free' \in 0..Permits
    BY <1>1, <1>3, FS_EmptySet, ConstantsAssumption
  <1> QED
    BY <1>1, <1>2, <1>4, AtRest DEF Inv, TypeOK

\* Every step keeps the invariant.
LEMMA StepOK == Inv /\ [Next]_vars => Inv'
  <1> SUFFICES ASSUME Inv, [Next]_vars PROVE Inv'
    OBVIOUS
  <1>1. CASE Restart
    BY <1>1, RestartOK
  <1>2. ASSUME NEW c \in Call, Busy(c) PROVE Inv'
    BY <1>2, FailOK DEF Busy, Fetching
  <1>3. ASSUME NEW c \in Call, Read(c) PROVE Inv'
    BY <1>3, FailOK, PageOK, EscapeOK DEF Read, Fetching, Holding
  <1>4. ASSUME NEW c \in Call, Tool(c) \/ Step(c) \/ Expire(c) PROVE Inv'
    BY <1>2, <1>3, <1>4, ToolOK, SearXNGOK, NextCandidateOK, VerifyOK, AcquireOK, ResolveAOK,
       ResolveAAAAOK, ConnectOK, RequestOK, ExpireOK DEF Step
  <1>5. CASE UNCHANGED vars
    BY <1>5 DEF vars, Inv, TypeOK, Holders, CallOK, Counted, Pinned, Complete
  <1> QED
    BY <1>1, <1>4, <1>5 DEF Next

\* The invariant of the proofs holds whatever the calls, SearXNG, the DNS and the
\* pages do (websearch server, tools and fetcher).
THEOREM Invariance == Spec => []Inv
  BY InitOK, StepOK, PTL DEF Spec

\* Every state is well formed: permits are neither lost nor returned twice, and no
\* call has more pages than it asked for.
THEOREM TypeCorrect == Spec => []TypeOK
  <1>1. Inv => TypeOK
    BY DEF Inv
  <1> QED
    BY <1>1, Invariance, PTL

\* A connection is only ever open to a public address that the resolver gave for the
\* very URL that is being fetched, after redirects and partial failures too.
THEOREM PublicOnly == Spec => []OnlyPublic
  <1>1. Inv => OnlyPublic
    BY DEF Inv, CallOK, Pinned, OnlyPublic
  <1> QED
    BY <1>1, Invariance, PTL

\* A call of search_and_fetch_web that has answered has all the pages asked for, has
\* tried every candidate, has run out of time, or reports an error: none is skipped.
THEOREM AnswersComplete == Spec => [](\A c \in Call : call[c].at = "done" => Complete(call[c]))
  <1>1. Inv => \A c \in Call : call[c].at = "done" => Complete(call[c])
    BY DEF Inv, CallOK
  <1> QED
    BY <1>1, Invariance, PTL
=============================================================================
