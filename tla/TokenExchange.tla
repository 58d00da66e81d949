---------------------------- MODULE TokenExchange ----------------------------
(***************************************************************************)
(* Token Exchange requests, from the Worker's fetch handler to the answer: *)
(* the rate limiter, the endpoint, subject-token authentication, policy,   *)
(* mandatory observations, the App's private key, and the requests to      *)
(* GitHub that resolve the installation, mint the token and revoke it.     *)
(*                                                                         *)
(* Requests run concurrently on one event loop and interleave where the    *)
(* handler awaits: each pc below is one await, each action is what runs    *)
(* from that await to the next.  They share cachedPrivateKey.  The client, *)
(* the secret store, the observer and GitHub answer in any order, or never;*)
(* the runtime may drop one request, or the isolate with all of them.      *)
(***************************************************************************)
EXTENDS Integers, Sequences

CONSTANTS
  Request,      \* Token Exchange requests
  App,          \* configured GitHub Apps: the token endpoint paths
  Subject,      \* subject tokens
  Target,       \* Installation Access Token Requests: resource and permissions
  Arrival,      \* the requests that may arrive: [app, form, subject, target]
  Accepts,      \* subject tokens that are genuine and for the App's audiences
  Outcome,      \* the policy evaluation of <<app, subject, target>>
  Pem,          \* private keys
  KeyHistory,   \* the private keys an App's binding holds, one after another
  UsablePem,    \* private keys that can be imported
  SigningPem,   \* those that can also sign: RS256 takes no modulus under 2048 bits
  None          \* undefined

-----------------------------------------------------------------------------
(* Answers.  A request's form is the first thing wrong with it, if any.     *)

\* Refused by the Worker, by the endpoint on the headers, and on the body.
RouteRefusal == [unknown_path |-> 404, not_post |-> 400]

HeaderRefusal == [authorization |-> 401, content_type |-> 400,
                  content_length |-> 400, declared_too_large |-> 413]

BodyRefusal == [too_large |-> 413, malformed |-> 400]

Form == DOMAIN RouteRefusal \cup DOMAIN HeaderRefusal \cup DOMAIN BodyRefusal
          \cup {"well_formed"}

\* oauthFailureByReason
FailureStatus ==
  [internal_failure |-> 500, invalid_token |-> 400, oidc_internal_failure |-> 500,
   oidc_provider_failure |-> 503, requested_permissions_unsupported |-> 400,
   subject_token_unacceptable |-> 400, target_unsupported |-> 400,
   upstream_failure |-> 502, upstream_unavailable |-> 503]

AuthenticationFailure == {"invalid_token", "oidc_internal_failure", "oidc_provider_failure"}

PolicyOutcome == {"permitted", "requested_permissions_unsupported",
                  "subject_token_unacceptable", "target_unsupported"}

ASSUME ArrivalAssumption ==
  /\ Arrival \subseteq [app : App, form : Form, subject : Subject, target : Target]
  /\ Accepts \in [App -> SUBSET Subject]
  /\ Outcome \in [App \X Subject \X Target -> PolicyOutcome]

ASSUME KeyAssumption ==
  /\ KeyHistory \in [App -> Seq(Pem)] /\ UsablePem \subseteq Pem /\ SigningPem \subseteq UsablePem
  /\ \A a \in App : Len(KeyHistory[a]) > 0

ASSUME NoneAssumption ==
  None \notin Pem /\ None \notin Arrival /\ None \notin DOMAIN FailureStatus

\* How a GitHub request fails: no usable response in time, an HTTP status, or
\* a successful response that is not what its schema says (status 502).
GitHubError == [transport : BOOLEAN, rateLimited : BOOLEAN, status : Nat]

Transport == [transport |-> TRUE, rateLimited |-> FALSE, status |-> 0]

HttpError(status, limited) ==
  [transport |-> FALSE, rateLimited |-> limited, status |-> status]

InvalidResponse == HttpError(502, FALSE)

\* 429 is a rate limit, 403 may be one.
Refusals ==
  {HttpError(status, FALSE) : status \in {301, 400, 401, 403, 404, 422}}
    \cup {HttpError(status, TRUE) : status \in {403, 429}}

Outages == {HttpError(status, FALSE) : status \in {500, 503}}

IssuanceFailureReason_BlamesTarget(error) ==
  IF error.transport \/ error.rateLimited \/ error.status = 503 THEN "upstream_unavailable"
  ELSE IF error.status \in {403, 404} \/ error.status >= 500 THEN "target_unsupported"
  ELSE "internal_failure"

IssuanceFailureReason(error) ==
  IF error.transport \/ error.rateLimited \/ error.status = 503 THEN "upstream_unavailable"
  ELSE IF error.status \in {403, 404} \/ error.status >= 500 THEN "upstream_failure"
  ELSE "internal_failure"

-----------------------------------------------------------------------------
VARIABLES
  exchange,          \* the progress of each request
  cachedPrivateKey,  \* the one imported private key kept between requests
  secret,            \* how far each App's private key has been rotated
  acknowledged,      \* observations the observer has acknowledged, by request
  token              \* what became, at GitHub, of the token a request asked for

vars == <<exchange, cachedPrivateKey, secret, acknowledged, token>>

Observing == {"observe_authentication", "observe_denied", "observe_started",
              "observe_failed", "observe_succeeded"}

\* What waits for the platform or the client, with no deadline in the code.
Unbounded == Observing \cup {"rate_limit", "body", "secret"}

Running == Unbounded \cup {"authenticate", "fingerprint", "import", "sign",
                           "lookup", "mint", "revoke"}

Ended == {"answered", "dropped"}

Answers == {200, 400, 401, 404, 413, 429, 500, 502, 503}

Exchange ==
  [pc : Running \cup Ended \cup {"idle"},
   arrival : Arrival \cup {None},
   since : Nat,                            \* secret[app] when it arrived
   key : Pem \cup {None},                  \* private key text, then the JWT's key
   reason : DOMAIN FailureStatus \cup {None},
   holds : BOOLEAN,                        \* it has received the token
   status : Answers \cup {0}]

Event == {"authentication_failed", "issuance_started", "issuance_failed",
          "issuance_succeeded"}

TokenState == {"none", "requested", "live", "revoking", "revoked"}

Init ==
  /\ exchange = [r \in Request |->
       [pc |-> "idle", arrival |-> None, since |-> 0, key |-> None,
        reason |-> None, holds |-> FALSE, status |-> 0]]
  /\ cachedPrivateKey = None
  /\ secret = [a \in App |-> 1]
  /\ acknowledged = [r \in Request |-> {}]
  /\ token = [r \in Request |-> "none"]

-----------------------------------------------------------------------------
Answer(c, status) == [c EXCEPT !.pc = "answered", !.status = status]

Failing(c, pc, reason) == [c EXCEPT !.pc = pc, !.reason = reason]

At(r, pc) == exchange[r].pc = pc

Goto(r, c) == exchange' = [exchange EXCEPT ![r] = c]

\* The Worker's fetch handler, as far as the rate limiter.
Receive(r, arrival) ==
  LET c == [exchange[r] EXCEPT !.arrival = arrival, !.since = secret[arrival.app]]
  IN  /\ At(r, "idle")
      /\ Goto(r, IF arrival.form \in DOMAIN RouteRefusal
                   THEN Answer(c, RouteRefusal[arrival.form])
                   ELSE [c EXCEPT !.pc = "rate_limit"])
      /\ UNCHANGED <<cachedPrivateKey, secret, acknowledged, token>>

\* The endpoint's checks on the headers follow a successful limit(); one that
\* rejects is an unexpected failure.
RateLimitSettles(r) ==
  LET c == exchange[r]
      form == c.arrival.form
  IN  /\ At(r, "rate_limit")
      /\ \/ Goto(r, Answer(c, 429))
         \/ Goto(r, Answer(c, 500))
         \/ Goto(r, IF form \in DOMAIN HeaderRefusal
                      THEN Answer(c, HeaderRefusal[form])
                      ELSE [c EXCEPT !.pc = "body"])
      /\ UNCHANGED <<cachedPrivateKey, secret, acknowledged, token>>

BodySettles(r) ==
  LET c == exchange[r]
      form == c.arrival.form
  IN  /\ At(r, "body")
      /\ \/ Goto(r, Answer(c, 500))
         \/ Goto(r, IF form \in DOMAIN BodyRefusal
                      THEN Answer(c, BodyRefusal[form])
                      ELSE [c EXCEPT !.pc = "authenticate"])
      /\ UNCHANGED <<cachedPrivateKey, secret, acknowledged, token>>

-----------------------------------------------------------------------------
(* Authentication, policy and observations                                  *)

Evaluation(c) == Outcome[<<c.arrival.app, c.arrival.subject, c.arrival.target>>]

AfterAuthentication_WithoutPolicy(c) == [c EXCEPT !.pc = "observe_started"]

AfterAuthentication_Inverted(c) ==
  IF Evaluation(c) # "permitted" THEN [c EXCEPT !.pc = "observe_started"]
  ELSE Failing(c, "observe_denied", Evaluation(c))

AfterAuthentication(c) ==
  IF Evaluation(c) = "permitted" THEN [c EXCEPT !.pc = "observe_started"]
  ELSE Failing(c, "observe_denied", Evaluation(c))

\* authenticateOidcIdToken.  Authentication may fail for any subject token,
\* and succeeds only for one the App accepts.
Authenticate(r) ==
  LET c == exchange[r]
  IN  /\ At(r, "authenticate")
      /\ \/ /\ c.arrival.subject \in Accepts[c.arrival.app]
            /\ Goto(r, AfterAuthentication(c))
         \/ \E reason \in AuthenticationFailure :
              Goto(r, Failing(c, "observe_authentication", reason))
      /\ UNCHANGED <<cachedPrivateKey, secret, acknowledged, token>>

EventOf(pc) ==
  CASE pc = "observe_authentication" -> "authentication_failed"
    [] pc = "observe_started" -> "issuance_started"
    [] pc = "observe_succeeded" -> "issuance_succeeded"
    [] OTHER -> "issuance_failed"

Acknowledge(r) ==
  LET c == exchange[r]
  IN  /\ c.pc \in Observing
      /\ Goto(r, CASE c.pc = "observe_started" -> [c EXCEPT !.pc = "secret"]
                   [] c.pc = "observe_succeeded" -> Answer(c, 200)
                   [] OTHER -> Answer(c, FailureStatus[c.reason]))
      /\ acknowledged' = [acknowledged EXCEPT ![r] = @ \cup {EventOf(c.pc)}]
      /\ UNCHANGED <<cachedPrivateKey, secret, token>>

\* After a rejection the observer is not called again.  The rejected success
\* observation alone has something to undo: the token is revoked first.
AfterRejection_NeverRevokes(c) == Answer(c, 500)

AfterRejection_ReturnsReason(c) ==
  IF c.pc = "observe_succeeded" THEN [c EXCEPT !.pc = "revoke"]
  ELSE IF c.pc = "observe_started" THEN [c EXCEPT !.pc = "secret"]
  ELSE Answer(c, FailureStatus[c.reason])

AfterRejection(c) ==
  IF c.pc = "observe_succeeded" THEN [c EXCEPT !.pc = "revoke"] ELSE Answer(c, 500)

RejectObservation(r) ==
  LET c == AfterRejection(exchange[r])
  IN  /\ exchange[r].pc \in Observing
      /\ Goto(r, c)
      /\ token' = [token EXCEPT ![r] = IF c.pc = "revoke" THEN "revoking" ELSE @]
      /\ UNCHANGED <<cachedPrivateKey, secret, acknowledged>>

-----------------------------------------------------------------------------
(* The App's private key and its JWT                                        *)

FailIssuance(r, reason) == Goto(r, Failing(exchange[r], "observe_failed", reason))

\* The binding yields the private key it now holds, or fails.
SecretSettles(r) ==
  LET c == exchange[r]
      app == c.arrival.app
  IN  /\ At(r, "secret")
      /\ \/ Goto(r, [c EXCEPT !.pc = "fingerprint", !.key = KeyHistory[app][secret[app]]])
         \/ FailIssuance(r, "internal_failure")
      /\ UNCHANGED <<cachedPrivateKey, secret, acknowledged, token>>

Cached_Any(pem) == cachedPrivateKey # None

\* The fingerprint is that of the private key's text.
Cached(pem) == cachedPrivateKey = pem

\* An import begins, unless the one kept is of the same private key: it is
\* kept in its place, before it is known to succeed.
FingerprintSettles(r) ==
  LET c == exchange[r]
  IN  /\ At(r, "fingerprint")
      /\ Goto(r, [c EXCEPT !.pc = "import",
                           !.key = IF Cached(c.key) THEN cachedPrivateKey ELSE c.key])
      /\ cachedPrivateKey' = IF Cached(c.key) THEN cachedPrivateKey ELSE c.key
      /\ UNCHANGED <<secret, acknowledged, token>>

ImportSettles(r) ==
  LET c == exchange[r]
  IN  /\ At(r, "import")
      /\ IF c.key \in UsablePem THEN Goto(r, [c EXCEPT !.pc = "sign"])
         ELSE FailIssuance(r, "internal_failure")
      /\ UNCHANGED <<cachedPrivateKey, secret, acknowledged, token>>

\* The JWT is signed with the import the request waited for.
SignSettles(r) ==
  LET c == exchange[r]
  IN  /\ At(r, "sign")
      /\ IF c.key \in SigningPem THEN Goto(r, [c EXCEPT !.pc = "lookup"])
         ELSE FailIssuance(r, "internal_failure")
      /\ UNCHANGED <<cachedPrivateKey, secret, acknowledged, token>>

-----------------------------------------------------------------------------
(* GitHub.  What GitHub does with a request it has received does not depend *)
(* on whether the broker still waits for the answer.                        *)

\* The installation, if its owner matches; otherwise an invalid response.
LookupReplies(r) ==
  /\ At(r, "lookup")
  /\ \/ /\ Goto(r, [exchange[r] EXCEPT !.pc = "mint"])
        /\ token' = [token EXCEPT ![r] = "requested"]
     \/ /\ \E error \in Refusals \cup Outages \cup {InvalidResponse} :
             FailIssuance(r, IssuanceFailureReason(error))
        /\ UNCHANGED token
  /\ UNCHANGED <<cachedPrivateKey, secret, acknowledged>>

\* The token; a refusal; or an answer that leaves open what became of it.
MintReplies(r) ==
  /\ At(r, "mint")
  /\ \/ /\ token[r] = "live"
        /\ Goto(r, [exchange[r] EXCEPT !.pc = "observe_succeeded", !.holds = TRUE])
        /\ UNCHANGED token
     \/ /\ token[r] = "requested"
        /\ \E error \in Refusals : FailIssuance(r, IssuanceFailureReason(error))
        /\ token' = [token EXCEPT ![r] = "none"]
     \/ /\ \/ \E error \in Outages : FailIssuance(r, IssuanceFailureReason(error))
           \/ token[r] = "live" /\ FailIssuance(r, IssuanceFailureReason(InvalidResponse))
        /\ UNCHANGED token
  /\ UNCHANGED <<cachedPrivateKey, secret, acknowledged>>

\* Best effort: the answer is the same whatever GitHub says.
RevokeReplies(r) ==
  /\ At(r, "revoke")
  /\ Goto(r, Answer(exchange[r], 500))
  /\ UNCHANGED <<cachedPrivateKey, secret, acknowledged, token>>

HasDeadline_ExceptRevoke == {"lookup", "mint"}

\* AbortSignal.timeout bounds every GitHub request.
HasDeadline == {"lookup", "mint", "revoke"}

AfterTransportFailure_Retries(c) ==
  IF c.pc = "revoke" THEN Answer(c, 500) ELSE [c EXCEPT !.pc = "lookup"]

\* No request is tried again: a lost answer may be that of a mint.
AfterTransportFailure(c) ==
  IF c.pc = "revoke" THEN Answer(c, 500)
  ELSE Failing(c, "observe_failed", IssuanceFailureReason(Transport))

\* The network fails, or the deadline passes before an answer does.
TransportFails(r) ==
  /\ exchange[r].pc \in HasDeadline
  /\ Goto(r, AfterTransportFailure(exchange[r]))
  /\ UNCHANGED <<cachedPrivateKey, secret, acknowledged, token>>

GitHubMints(r) ==
  /\ token[r] = "requested"
  /\ token' = [token EXCEPT ![r] = "live"]
  /\ UNCHANGED <<exchange, cachedPrivateKey, secret, acknowledged>>

GitHubRevokes(r) ==
  /\ token[r] = "revoking"
  /\ token' = [token EXCEPT ![r] = "revoked"]
  /\ UNCHANGED <<exchange, cachedPrivateKey, secret, acknowledged>>

-----------------------------------------------------------------------------
(* The runtime and the operator                                             *)

Dropped(r) == IF exchange[r].pc \in Running
                THEN [exchange[r] EXCEPT !.pc = "dropped"] ELSE exchange[r]

\* The client goes away, and the runtime runs the request no further.
Drop(r) ==
  /\ exchange[r].pc \in Running
  /\ Goto(r, Dropped(r))
  /\ UNCHANGED <<cachedPrivateKey, secret, acknowledged, token>>

\* The isolate is replaced.
Restart ==
  /\ \E r \in Request : exchange[r].pc \in Running
  /\ exchange' = [r \in Request |-> Dropped(r)]
  /\ cachedPrivateKey' = None
  /\ UNCHANGED <<secret, acknowledged, token>>

RotateKey(a) ==
  /\ secret[a] < Len(KeyHistory[a])
  /\ secret' = [secret EXCEPT ![a] = @ + 1]
  /\ UNCHANGED <<exchange, cachedPrivateKey, acknowledged, token>>

-----------------------------------------------------------------------------
\* What runs by itself, or by a deadline the code sets.
LocalWork(r) ==
  FingerprintSettles(r) \/ ImportSettles(r) \/ SignSettles(r) \/ TransportFails(r)

Proceed(r) == Authenticate(r) \/ LocalWork(r)

GitHubReplies(r) == LookupReplies(r) \/ MintReplies(r) \/ RevokeReplies(r)

PlatformSettles(r) ==
  RateLimitSettles(r) \/ BodySettles(r) \/ SecretSettles(r)
    \/ Acknowledge(r) \/ RejectObservation(r)

Terminated ==
  /\ \A r \in Request : exchange[r].pc \in Ended /\ token[r] \notin {"requested", "revoking"}
  /\ \A a \in App : secret[a] = Len(KeyHistory[a])
  /\ UNCHANGED vars

Next ==
  \/ \E r \in Request, arrival \in Arrival : Receive(r, arrival)
  \/ \E r \in Request : Proceed(r) \/ PlatformSettles(r) \/ GitHubReplies(r)
  \/ \E r \in Request : GitHubMints(r) \/ GitHubRevokes(r) \/ Drop(r)
  \/ Restart
  \/ \E a \in App : RotateKey(a)
  \/ Terminated

Spec == Init /\ [][Next]_vars

\* Authentication completes, unless it waits for a provider request that was
\* begun by a request since dropped (OidcVerifier, EveryCallCompletes).
AuthenticationUnstranded(r) ==
  Authenticate(r) /\ \A q \in Request : exchange[q].pc # "dropped"

\* Local work goes on, and every GitHub request meets its deadline.  Nothing
\* makes GitHub, the client, the rate limiter, the secret store or the observer
\* answer.
FairSpec ==
  Spec /\ \A r \in Request : WF_vars(LocalWork(r)) /\ WF_vars(AuthenticationUnstranded(r))

-----------------------------------------------------------------------------
(* Properties *)

TypeOK ==
  /\ exchange \in [Request -> Exchange]
  /\ cachedPrivateKey \in Pem \cup {None}
  /\ secret \in [App -> Nat] /\ \A a \in App : secret[a] \in 1..Len(KeyHistory[a])
  /\ acknowledged \in [Request -> SUBSET Event]
  /\ token \in [Request -> TokenState]

\* An App's private key is read, and a token is created or may yet be, only
\* for a subject token the selected App accepts, a request its policy permits,
\* and an issuance whose intent is on record; through drops, restarts and late
\* work of GitHub alike.
IssuanceJustified ==
  \A r \in Request : exchange[r].key # None \/ token[r] # "none" =>
    /\ exchange[r].arrival.subject \in Accepts[exchange[r].arrival.app]
    /\ Evaluation(exchange[r]) = "permitted"
    /\ "issuance_started" \in acknowledged[r]

\* The broker answers with the live token it holds, or parts with it: a held
\* token is never left behind by an answer without an attempt to revoke it.
TokensAccountedFor ==
  \A r \in Request : exchange[r].pc = "answered" =>
    /\ exchange[r].status = 200 => exchange[r].holds /\ token[r] = "live"
    /\ exchange[r].status # 200 /\ exchange[r].holds => token[r] \in {"revoking", "revoked"}

\* Fail closed: an answer that reports what the exchange came to, and is not
\* 500, follows an acknowledged observation of just that.
Reached(r) == exchange[r].reason # None \/ exchange[r].status = 200

AnswersAcknowledged ==
  \A r \in Request :
    LET c == exchange[r] IN
    c.pc = "answered" /\ c.status # 500 /\ Reached(r) =>
      CASE c.status = 200 -> "issuance_succeeded" \in acknowledged[r]
        [] c.reason \in AuthenticationFailure -> "authentication_failed" \in acknowledged[r]
        [] OTHER -> "issuance_failed" \in acknowledged[r]

\* A client that is told the request was wrong has left nothing at GitHub.
ClientErrorsMintNothing ==
  \A r \in Request : exchange[r].status \in 400..499 => token[r] = "none"

\* An App's JWT is signed with a private key its own binding has held since
\* the request arrived: not with another App's, and after a rotation not
\* with the old one the shared cache may still hold.
KeysCurrent ==
  \A r \in Request :
    LET c == exchange[r]
        app == c.arrival.app
    IN  c.key # None => \E i \in c.since..secret[app] : KeyHistory[app][i] = c.key

\* TokenCustody: what the broker is doing, as far as the token is concerned.
Custody(c) ==
  CASE c.pc = "mint" -> "waiting"
    [] c.pc \in {"observe_authentication", "observe_denied", "observe_failed"} -> "failing"
    [] c.pc = "observe_succeeded" -> "holding"
    [] c.pc = "revoke" -> "returning"
    [] c.pc = "answered" -> IF c.status = 200 THEN "delivered" ELSE "closed"
    [] c.pc = "dropped" -> "interrupted"
    [] OTHER -> "working"

Promise == INSTANCE TokenCustody WITH
  broker <- [r \in Request |-> Custody(exchange[r])], journal <- acknowledged

\* The exchange keeps the promise of TokenCustody at every step: one mint for
\* a request, after its intent is acknowledged; success acknowledged in the
\* step that answers with the token; a token that is held handed over or
\* revoked; and where the isolate is lost in between, a journal that tells.
KeepsCustody == Promise!Spec

\* A request left to wait for what a dropped request had begun for both.
Stranded(r) == At(r, "authenticate") /\ \E q \in Request : exchange[q].pc = "dropped"

\* Whatever GitHub and the OpenID Provider do, a request ends, unless it waits
\* forever for the client or the platform, or is stranded in authentication.
EndsUnlessPlatformHangs ==
  \A r \in Request :
    exchange[r].pc # "idle" ~>
      exchange[r].pc \in Ended \/ [](exchange[r].pc \in Unbounded) \/ []Stranded(r)

=============================================================================
