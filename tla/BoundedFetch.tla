----------------------------- MODULE BoundedFetch -----------------------------
(***************************************************************************)
(* One outbound request under its deadline: requestGitHubApi               *)
(* (packages/github/src/http.ts) and fetchAndParseOidcRemoteDocument       *)
(* (packages/oidc/src/registered-provider-verifier.ts), with the           *)
(* abort-aware wait and the bounded body reader they share                 *)
(* (packages/http/src).                                                    *)
(*                                                                         *)
(* The answer's headers, its body's chunks, failures of the network and    *)
(* the deadline are events of the event loop, in any order; what one event *)
(* sets off runs to completion.  fetch may go on after the deadline, and   *)
(* need not settle at all.                                                 *)
(***************************************************************************)
EXTENDS Integers

CONSTANTS
  Purpose,     \* what the request is for
  Response,    \* answers: [status, rateLimitHeaders, json, declared, hasBody]
  Chunk,       \* sizes of the chunks a body arrives in
  ByteLimit,   \* byteLimit, maxResponseBodyBytes
  ErrorLimit,  \* maxGitHubErrorBodyBytes
  None         \* undefined

Status == 200..599

ASSUME PurposeAssumption == Purpose \subseteq {"document", "github_json", "revocation"}

ASSUME SizeAssumption == ByteLimit \in Nat /\ ErrorLimit \in Nat /\ Chunk \subseteq Nat

ASSUME ResponseAssumption ==
  Response \subseteq [status : Status, rateLimitHeaders : BOOLEAN, json : BOOLEAN,
                      declared : Nat \cup {None}, hasBody : BOOLEAN]

ASSUME NoneAssumption == None \notin Nat \cup Response

VARIABLES
  purpose,     \* what this request is for
  pc,          \* "fetching", "reading" or "settled"
  network,     \* what became of the fetch
  aborted,     \* the deadline has passed: signal.aborted
  response,    \* the response kept: responseForCleanup, response
  body,        \* the body of the response that arrived, kept or not
  totalBytes,  \* bytes read of it
  outcome      \* what the caller gets: [result, upstreamStatus]

vars == <<purpose, pc, network, aborted, response, body, totalBytes, outcome>>

\* The errors of a document request are those of oidcRemoteDocumentTransportError
\* and OidcRemoteDocumentError; "invalid" and "rate_limited" are GitHub's.
Result == {"value", "timeout", "transport", "status", "rate_limited",
           "content_type", "limit", "malformed", "invalid"}

Outcome == [result : Result, upstreamStatus : Status \cup {None}]

Body == {"absent", "open", "locked", "consumed", "cancelled", "failed"}

Init ==
  /\ purpose \in Purpose
  /\ pc = "fetching" /\ network = "pending" /\ aborted = FALSE
  /\ response = None /\ body = "absent" /\ totalBytes = 0
  /\ outcome = None

-----------------------------------------------------------------------------
Ok(r) == r.status \in 200..299

MayBeRateLimited(r) == purpose # "document" /\ r.status = 403

LimitOf(r) == IF MayBeRateLimited(r) THEN ErrorLimit ELSE ByteLimit

Exceeds_AtLimit(size, r) == size >= LimitOf(r)

Exceeds(size, r) == size > LimitOf(r)

\* GitHub has one error for a successful response that is not as expected.
Unusable(reason) == IF purpose = "document" THEN reason ELSE "invalid"

\* What the status and the headers alone decide; "read" if the body matters.
DocumentHeaders(r) ==
  IF r.status # 200 THEN "status"
  ELSE IF ~r.json THEN "content_type"
  ELSE IF r.declared # None /\ Exceeds(r.declared, r) THEN "limit"
  ELSE "read"

GitHubHeaders(r) ==
  IF r.status = 429 \/ (r.status = 403 /\ r.rateLimitHeaders) THEN "rate_limited"
  ELSE IF r.status = 403 THEN "read"
  ELSE IF ~Ok(r) THEN "status"
  ELSE IF purpose = "github_json" THEN "read"
  ELSE IF r.status = 204 THEN "value" ELSE "invalid"

AfterHeaders(r) ==
  IF purpose = "document" THEN DocumentHeaders(r) ELSE GitHubHeaders(r)

\* The body of a 403 can only tell a rate limit; unreadable, too large or
\* malformed, it tells none.
AfterBody(r, content) ==
  IF MayBeRateLimited(r) THEN IF content = "rate_limit" THEN "rate_limited" ELSE "status"
  ELSE IF content = "expected" THEN "value" ELSE Unusable("malformed")

BodyTooLarge(r) == IF MayBeRateLimited(r) THEN "status" ELSE Unusable("limit")

BodyUnreadable(r, error) == IF MayBeRateLimited(r) THEN "status" ELSE error

TransportErrors_Unclassified == {"timeout", "network"}

\* The name of a rejection's error, which only a document request looks at.
TransportErrors == IF purpose = "document" THEN {"timeout", "transport"} ELSE {"transport"}

\* The deadline passes; it ends the reading of a 403 just as well.
Interrupted_Swallowed(r) ==
  IF r # None /\ MayBeRateLimited(r) THEN "status"
  ELSE IF purpose = "document" THEN "timeout" ELSE "transport"

Interrupted(r) == IF purpose = "document" THEN "timeout" ELSE "transport"

Reported(result, r) ==
  [result |-> result,
   upstreamStatus |-> IF r = None \/ (purpose = "document" /\ result # "status")
                        THEN None ELSE r.status]

\* discardGitHubResponseBody, discardOidcResponseBody
Discarded(b) == IF b = "open" THEN "cancelled" ELSE b

\* The request settles, and its finally block discards what is left.
Settle(result, r, b) ==
  /\ pc' = "settled"
  /\ outcome' = Reported(result, r)
  /\ body' = Discarded(b)

BodyOf(r) == IF r.hasBody THEN "open" ELSE "absent"

-----------------------------------------------------------------------------
(* The fetch *)

\* In time: the response is kept and its headers are looked at.  An absent
\* body reads as an empty one.
Answered(r) ==
  /\ pc = "fetching" /\ network = "pending" /\ network' = "settled"
  /\ response' = r
  /\ \/ /\ AfterHeaders(r) = "read" /\ r.hasBody
        /\ pc' = "reading" /\ body' = "locked"
        /\ UNCHANGED outcome
     \/ /\ AfterHeaders(r) = "read" /\ ~r.hasBody
        /\ Settle(AfterBody(r, "other"), r, BodyOf(r))
     \/ /\ AfterHeaders(r) # "read"
        /\ Settle(AfterHeaders(r), r, BodyOf(r))
  /\ UNCHANGED <<purpose, aborted, totalBytes>>

\* Too late: the caller has its outcome, and nobody will read the body.
LateBody_Kept(r) == BodyOf(r)

LateBody(r) == Discarded(BodyOf(r))

AnsweredLate(r) ==
  /\ aborted /\ network = "pending" /\ network' = "settled"
  /\ body' = LateBody(r)
  /\ UNCHANGED <<purpose, pc, aborted, response, totalBytes, outcome>>

FetchFails ==
  /\ pc = "fetching" /\ network = "pending" /\ network' = "settled"
  /\ \E error \in TransportErrors : Settle(error, None, body)
  /\ UNCHANGED <<purpose, aborted, response, totalBytes>>

FetchFailsLate ==
  /\ aborted /\ network = "pending" /\ network' = "settled"
  /\ UNCHANGED <<purpose, pc, aborted, response, body, totalBytes, outcome>>

-----------------------------------------------------------------------------
(* readBodyUpTo *)

ChunkArrives(n) ==
  /\ pc = "reading"
  /\ totalBytes' = totalBytes + n
  /\ IF Exceeds(totalBytes + n, response)
       THEN Settle(BodyTooLarge(response), response, "cancelled")
       ELSE UNCHANGED <<pc, outcome, body>>
  /\ UNCHANGED <<purpose, network, aborted, response>>

BodyEnds(content) ==
  /\ pc = "reading"
  /\ Settle(AfterBody(response, content), response, "consumed")
  /\ UNCHANGED <<purpose, network, aborted, response, totalBytes>>

BodyFails ==
  /\ pc = "reading"
  /\ \E error \in TransportErrors :
       Settle(BodyUnreadable(response, error), response, "failed")
  /\ UNCHANGED <<purpose, network, aborted, response, totalBytes>>

-----------------------------------------------------------------------------
Interruptible_HeadersOnly == {"fetching"}

\* The deadline spans the headers and the complete body.
Interruptible == {"fetching", "reading"}

\* The abort ends the wait for the response, or cancels the reader; the
\* runtime may have failed the stream itself.
DeadlinePasses ==
  /\ pc \in Interruptible /\ aborted' = TRUE
  /\ \E b \in IF body = "locked" THEN {"cancelled", "failed"} ELSE {body} :
       Settle(Interrupted(response), response, b)
  /\ UNCHANGED <<purpose, network, response, totalBytes>>

Terminated == pc = "settled" /\ UNCHANGED vars

Next ==
  \/ \E r \in Response : Answered(r) \/ AnsweredLate(r)
  \/ FetchFails \/ FetchFailsLate
  \/ \E n \in Chunk : ChunkArrives(n)
  \/ \E content \in {"expected", "rate_limit", "other"} : BodyEnds(content)
  \/ BodyFails
  \/ DeadlinePasses
  \/ Terminated

\* Only the timer is sure to fire: the peer may stall at any point.
Spec == Init /\ [][Next]_vars /\ WF_vars(DeadlinePasses)

-----------------------------------------------------------------------------
(* Properties *)

TypeOK ==
  /\ purpose \in Purpose /\ pc \in {"fetching", "reading", "settled"}
  /\ network \in {"pending", "settled"} /\ aborted \in BOOLEAN
  /\ response \in Response \cup {None}
  /\ body \in Body /\ totalBytes \in Nat
  /\ outcome \in Outcome \cup {None}

\* Once a request has settled no response body stays open or locked, whether
\* it arrived before the deadline, was cut short, or came after everyone left.
NothingLeaks == pc = "settled" => body \notin {"open", "locked"}

\* A body is refused for its size exactly when more than the limit was
\* declared or has arrived; one of the very limit is read and used.
SizeDecides ==
  /\ pc = "reading" => totalBytes <= LimitOf(response)
  /\ outcome # None =>
       /\ outcome.result = "value" => totalBytes <= ByteLimit
       /\ outcome.result = "limit" =>
            \/ totalBytes > ByteLimit
            \/ response.declared # None /\ response.declared > ByteLimit
       /\ response # None /\ totalBytes > LimitOf(response) =>
            outcome.result \in {"limit", "invalid", "status"}

\* The callers act on the class of the outcome: a value comes from a whole
\* body; a deadline is never taken for an answer of the peer; a rate limit is
\* one GitHub stated; GitHub's status is reported if its headers came in time.
OutcomeEarned ==
  outcome # None =>
    /\ outcome.result = "value" => body = "consumed" \/ response.status = 204
    /\ aborted => outcome.result \in {"timeout", "transport"}
    /\ outcome.result = "rate_limited" =>
         \/ response.status = 429
         \/ response.status = 403 /\ (response.rateLimitHeaders \/ body = "consumed")
    /\ purpose # "document" =>
         outcome.upstreamStatus = IF response = None THEN None ELSE response.status

\* The deadline ends every request, at whatever point the peer stalls.
EveryRequestSettles == <>(pc = "settled")

=============================================================================
