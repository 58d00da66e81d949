# Formal model of the GitHub App token broker

The broker exchanges an OpenID Connect ID Token for a GitHub App installation
access token. This directory holds TLA+ modules translated from its source, the
TLC configurations that check them on small instances, and theorems that the
TLA+ proof system checks for every value of the constants. `PROJECT.json` names
every run, property, mutant, theorem and hazard, and maps each definition to the
source lines it stands for. Paths below are relative to `src/`.

## 1. The system

| Component | State it keeps | Operations | Hard behaviour |
| --- | --- | --- | --- |
| Provider verifier, `packages/oidc/src/registered-provider-verifier.ts` | metadata and JWK Set entries, last failure of each, requests in flight, refresh cooldown | `verifyIdToken` | concurrent calls share caches and requests; provider rotates, moves, fails |
| Outbound requests, `packages/github/src/http.ts`, `packages/http/src/{abort,body}.ts`, the verifier's document fetch | one response and its body | fetch, bounded read, deadline, discard | late answers, stalled bodies, limits at a boundary |
| Worker, `workers/*/src/worker.ts` | none between requests | `fetch` | rate limiter and unexpected failures |
| Endpoint, `packages/token-exchange/src/token-exchange.ts`, `packages/http/src/request-body.ts` | none | form checks, answers | order of checks, repeated and empty fields |
| Orchestration, `authentication.ts`, `installation-access-token-exchange.ts`, `installation-access-token-issuance.ts` | none between requests | authenticate, decide, observe, issue, compensate | failure at each await, after the mint above all |
| GitHub App client, `packages/github/src/app.ts` | `cachedPrivateKey`, one slot per isolate | JWT, lookup, mint, revoke | the slot is shared by all Apps and outlives rotations |
| Policy, `packages/token-issuance-policy/src/token-issuance-policy.ts` | none | compile, evaluate | early return, composition of statements |
| Request parsing, `packages/github/src/installation-access-token-request.ts` | none | scope, resource, canonical form | ambiguity, order |
| App Information RPC, `packages/github/src/app-information.ts` and its entrypoint | shares `cachedPrivateKey` | four reads | the slot is shared with running exchanges; failures are classified by other rules |
| Composition, `packages/token-exchange/src/{index,github-apps}.ts`, `packages/oidc/src/{provider-registration,id-token-authenticator}.ts` | snapshots made once | construct or refuse, dispatch by path | four lists joined by slug and client ID |
| Fastify adapter, `packages/fastify/src/index.ts` | none | select, convert, parse, convert again | order of refusals; hooks change the request in between |
| Provider profiles, response helpers | constants | formatting and claim checks | none |

The Worker (or the Fastify plugin) selects the App by path and calls the
endpoint; the endpoint parses the form and calls the exchange; the exchange asks
the authenticator, which selects the verifier of the token's issuer; policy
decides; observations are awaited before and after issuance; issuance reads the
App's private key and makes three kinds of GitHub request. Verifiers and the key
cache are shared by all requests of an isolate, everything else belongs to one
request. Nothing is persisted. Each GitHub App's endpoint is put together when
the deployment is constructed, from the Apps, the provider registrations, the
Permit Statements and the private keys.

What makes it correct: trust material is used only as long as its headers and
the configured limits allow, and only for the metadata it belongs to; requests
to the provider are shared and spaced, and nobody is left waiting; a token is
minted only for an accepted subject token, a permitting policy and a recorded
intent; a minted token is handed over or revoked; an answer never claims what
was not recorded; a JWT is signed with the selected App's key, whoever else uses
the cache; an App's requests meet that App's audiences, statements and key and
no other's; both hosts read the same form for the same request; every outbound
request ends, keeps nothing open and reports what happened.

## 2. Modules

- `OidcVerifier`: both caches of one verifier and the calls that share them.
  One event runs to completion: `ready` is the microtask queue, in FIFO order,
  and an action is the code between two awaits. A call's `pc` names the await
  (`metadata`, `lookup`, `missing_key`) or the continuation due (`admit`,
  `verify`, `recheck`, `refresh_failed`, `failed`). The variables carry the
  names of `#state`. The provider publishes a `Schedule` of epochs; a request is
  answered with any epoch that was current while it was in flight. The runtime may
  drop up to `MaxDrops` calls at an await, as the Worker's does with the request a
  call serves: `dropped` calls run no further, and a provider request begun by
  one, its timeout included, never settles, though others may have joined it and
  more will. A broken protected header and a profile that throws or answers with no
  Boolean end a call as `internal_failure`. `outage` and `lastRequest` are history
  variables.
- `AuthenticationContract`: what `verifyIdToken` promises without any cache. An
  answer follows from metadata and a JWK Set published within the trust
  lifetime before the call, or from what is wrong with the token or its profile;
  the provider's failure may always be answered.
- `BoundedFetch`: one outbound request of three purposes (provider document,
  GitHub JSON, revocation). Headers, chunks, failures and the deadline are events
  in any order; `body` follows the response body until it is consumed,
  cancelled or failed. `OidcVerifier` and `TokenExchange` use its outcomes as
  the atomic results of their requests.
- `TokenExchange`: concurrent requests from the Worker's `fetch` to the answer.
  Each `pc` is one await; `token` is what became of the token at GitHub, which
  works on whether or not the broker still waits; `acknowledged` are the
  observations the observer confirmed; `secret` counts key rotations. Importing
  the private key and signing the JWT with it are two awaits: `UsablePem` can be
  imported, `SigningPem` can sign too. The client
  or the runtime may drop a request, and the isolate may be replaced, at any
  await.
- `TokenCustody`: what the exchange promises about tokens, seen from GitHub, the
  journal and the client: one token is asked for on record, handed over in the
  step that learns its success is on record, or returned; or the broker is
  interrupted, and the journal tells. `TokenExchange` instantiates it with
  `Custody` (a function of a request's pc and of what it holds) as the broker's
  state; `KeepsCustody` is its specification under that mapping.
- `AppInformation`: calls of the RPC beside `TokenExchange`, which it extends:
  the same `cachedPrivateKey`, rotations and isolate, and a `pc` per await of
  `requestGitHubAppInformation`, signing included. Replacing the isolate ends
  requests and calls alike.
- `TokenIssuancePolicy`: statements, requests, and what a *set* of statements
  decides. `PolicyEvaluation`: the code's pass over the *sequence*, one step an
  iteration. `MCTokenExchange` takes its policy from `TokenIssuancePolicy`.
- `TokenExchangeComposition` extends `PolicyEvaluation`. First construction,
  `compileGitHubAppTokenExchange` and `bindPrivateKeys`: one element of one
  list a step, accepted and copied or refused with the whole configuration (a
  registration for its issuer, its algorithms and its profile); the
  compiled statements are then split into one policy for each App (`policies`,
  one statement a step: the code runs one filter per App over the same list);
  then requests: dispatch by path, the token's issuer and audience, the
  statements of the selected App evaluated by `PolicyEvaluation`'s steps, and
  the private key bound for it. `AuthorityAsWritten` compares each answer with the
  configuration as it was written, uncompiled and unordered.
- `TokenRequestParsing`: the endpoint's form checks in the order of their early
  returns, and the loop over scope tokens, one step a token. Its outcomes are
  the `malformed` and `well_formed` forms of `TokenExchange`.
- `TokenEndpointHosts` extends it with the way of a request to its form, in the
  Worker and in the Fastify plugin. The plugin selects the App and converts
  the request before Fastify parses the body (as `fastify/src/index.ts:52`
  says it must), and converts it again after the application's hooks, any of
  which may have changed the URL, the method, a header or the body, before or after
  Fastify's parser; `dispatch` looks the App up again, and the endpoint's own
  checks follow in both hosts. `sentTo` is what the URL named on arrival.
- `MC*`: constants for TLC. `*Proofs`: theorems. Operators named
  `X_Something` beside `X` are plausible mistakes in the code `X` stands for;
  `PROJECT.json` lists the property each one breaks.

## 3. Runs

| Run | Question | Bounds and why they suffice |
| --- | --- | --- |
| `oidc_rotation` | Age of documents, stale use, rejections for a key | two calls, with a genuine and a refused token, of which one may be dropped, one rotation, five time units; a capped `max-age` and `must-revalidate`; two calls are enough for a join, a suppression, or a fallback on what the other fetched; 1.17 million states |
| `oidc_moves` | Identities, overtaken requests, waiting, spacing of JWK Set requests | three calls that name an unknown key, of which one may be dropped; four epochs that change the algorithms and move the location away and back, so that two requests are in flight while a third starts; two units, so that a call can follow a failure or a refresh within the backoff and at its end; 608 thousand states |
| `oidc_liveness` | Every call is answered, but for what a drop takes with it | two calls of which one may be dropped, cacheable and `no-store` answers, tokens with an unknown key, an algorithm not accepted and a broken header; without symmetry; 327 thousand states |
| `oidc_contract` | The verifier implements `AuthenticationContract` | two calls with tokens that are genuine, weakly signed or fail in their profile while keys are withdrawn (a refused token differs from one that fails in its profile by the name of the outcome only); no drops here, which `KeepsContractHolds` covers: what they do to the requests others share is in the three runs above; 1.9 million states |
| `oidc_no_cache` | A documented rule the code breaks (section 6) | three calls; the provider moves away and back |
| `exchange_faults` | Issuance, custody of tokens, fail-closed answers; `TokenCustody` implemented | two requests of every form, subject and target at two Apps, every failure at every await (signing included), drops and restarts; 354 thousand states |
| `exchange_keys` | The shared key slot, and what the RPC's callers are told | two requests and one call: three users of one slot; two Apps that both rotate, one to a key that cannot be imported, one to a key that can but cannot sign; requests explored up to the mint, behind which no key is used (`BeforeMint`), and as long as nothing has ended, for what has ended affects the others no more than what waits for ever (`EndTogether`); 273 thousand states |
| `rpc_invalid_key` | A documented rule the code breaks (section 6) | one request and one call; the rotations of `exchange_keys` |
| `exchange_liveness` | Requests end | two requests, GitHub silent, drops, private keys rotated meanwhile; 201 thousand states |
| `policy_evaluation` | Construction, the joins between the lists, statement order and composition | two Apps, three issuers of which two are registered, every policy of up to three of eight definitions, and one deployment with each fault a list can have, before and after the sound element, for the Worker and for another host; two private keys bound in the other order than the Apps; 107 thousand states |
| `bounded_fetch` | One request under its deadline | limits of 2 and 1 units, chunks of 1 and 2 that meet or step over them, 168 answers per purpose |
| `token_request_parsing` | Both hosts; forms and scopes | every combination of known App, method, metadata, header and size faults in both hosts, with hooks that change any one of these, or the body, any number of times; every list of values for any two parameters; every scope of up to four tokens; 77 thousand states |

In the OIDC runs one unit of time is 5 s: the request timeout is 1, cooldown and
backoff are 2 units as in the code. Freshness and the stale allowance (five
minutes to an hour in the code) are scaled down to one to three units, so that
every deadline can be crossed within `MaxTime`; the theorems cover all values.
`MaxTime` bounds the clock in
`Tick`; other counters are bounded by the finite sets of calls and requests.
`policy_evaluation` and `token_request_parsing` model functions that return, so
deadlock is not checked there; everywhere else the only terminal states are
those of `Terminated`. Symmetry is used for calls and requests in runs of safety
properties only.

## 4. Fairness

- `OidcVerifier`: the event loop runs what is queued (`Run`), and each request
  settles (`Timeouts`), because `AbortSignal.timeout` spans headers and body:
  `bounded_fetch` shows that from the timer alone. Nothing makes calls begin,
  time pass, the provider change or the runtime drop a call. `Timeouts` asks
  nothing of a request whose first caller was dropped, since settling is not
  enabled for it: on the Worker the fetch and its timer belong to the request
  that began them. (A call that is not dropped outlasts the requests it began: it awaits
  them.) Such a promise stays in `#state`, and the calls that joined it,
  or join it later, may wait for ever (`Stranded`); `EveryCallCompletes` excepts
  them and the dropped call itself. It claims that every call is answered only
  where nothing is dropped, as on a Node host, which keeps serving a request whose
  client has gone.
- `BoundedFetch`: only `DeadlinePasses`, the timer.
- `TokenExchange`: local work (`LocalWork`: import, signing and the deadline of
  GitHub requests) and authentication, the latter, by the verifier's liveness, only
  as long as no request has been dropped (`AuthenticationUnstranded`):
  `EndsUnlessPlatformHangs` excepts a request that stays in authentication beside a
  dropped one. No fairness for GitHub, the client, the rate
  limiter, the secret store or the observer: the code sets no deadline for the
  last four, so it excepts also a request that waits for them
  forever. That is a fact about the code and worth knowing: an observer that
  hangs after the mint leaves a live token with a request that does not end.

## 5. Proofs

All theorems are checked by tlapm with Z3, Zenon and LS4, from the named
assumptions on the constants in each module. Most say what kind of thing a
constant is (`None` and `Malformed` are not among the values they stand beside).
Two compare durations, and hold with room to spare for the constants at
`registered-provider-verifier.ts:42-46`: the failure backoff is positive (10 s),
and a request times out (5 s) before trust in a document could run out (the
maximum freshness and the stale allowance, one hour each). Every safety property
of every passing run is a theorem. The theorems about the verifier hold for any
number of dropped calls, those about hosts for any hooks.

- `OidcVerifierProofs`, for any number of calls and epochs, any headers and all
  limits. Five invariants; each is inductive only together with some of those
  before it, and with all of them in the case of `Provenance`:
  - `Shape` adds to `TypeOK` the bookkeeping: waiters are at their pc, the slot
    holds a pending request, a call past its metadata holds it.
    `IsolationCorrect` needs it: a call about to receive an answer must be known
    to wait with the metadata of that request.
  - `AgeInvariant`: cached entries, and the entry a call remembered at its await,
    carry deadlines within the lifetime of their document, and no captured time
    lies in the future. `AgeCorrect` follows.
  - `Linked`: a call waits for metadata exactly if it is in the list of the one
    refresh, for a JWK Set exactly if it is in the list of one pending request,
    and is queued exactly if its pc names a continuation that is due; the lists
    and the queue repeat nobody. `NobodyForgottenHolds` follows.
  - `Provenance`: when the provider published what a cache, a request or a call
    holds, why a call is where it is, and which fault of its token an
    `internal_failure` comes from. `RejectionHolds` follows: a rejection
    for a key rests on a JWK Set published within the cooldown or one request
    before the call, or on one still fresh while the provider fails.
    `RejectionJustified` alone speaks of finished calls; to be kept by
    the step that finishes one it needs that a recent set stays recent while a
    call waits (no request that settles outlives its timeout), that an entry is
    as old as the cooldown it set, and that each recorded failure has its time in
    `outage`.
  - `SlotHistory`: whichever request is in the slot was the last to start, and
    what it left behind (entry, cooldown, backoff) is still there unless a move of
    the provider made the verifier forget it.
    `OnlyLastRequestPublishesHolds` and `JwksRequestsSpacedHolds` follow.

  `StaleOnlyDuringOutageHolds` is an action property: by cases over what hands a
  document to a call, one past its freshness comes from a failure that
  `Provenance` has on record. `KeepsContractHolds` is the refinement: a call's
  start asks, its last step answers, and every other step leaves the contract's
  view alone. The answer is among those allowed because `Provenance` supplies the two
  epochs the contract asks for, that of the metadata and that of the JWK Set,
  and `IdentityIsolation` that they are about the same location.
  `AnswersReliableHolds` proves what the contract says of an answer and carries
  it over: trusted epochs only become more, so an answer stays justified.
- `TokenExchangeProofs`: the invariant `Progress` says, per request and by pc,
  what it has recorded (`IntentSound`), what exists at GitHub (`TokenSound`),
  what its failure reason can be (`ReasonSound`) and what its answer rests on
  (`AnswerSound`); five properties follow. `KeysCurrentHolds` uses an invariant
  over the rotation history and any number of Apps.
- `TokenCustodyProofs`: `KeepsCustodyHolds`, the refinement: under `Progress`
  each action of the exchange is a step of `TokenCustody` or a stutter, with one
  lemma per action and one for the function update they share
  (a request's custody follows from that request alone). `JournalReconciles`
  proves what `TokenCustody` says of the journal and carries it over.
- `AppInformationProofs`: `KeysCurrent`, `RpcKeysCurrent` and
  `RpcFailuresExplained` for any number of requests, calls and Apps. The last says
  of a key that was read that it is blamed as configuration only if it cannot be
  imported, and behind an internal failure only if it was imported and cannot
  sign; its invariant says what a call has done with its key at each await. And that
  the RPC takes nothing from what the exchange promises: every RPC step leaves
  the exchange's variables alone or only replaces the cached key by one that some
  binding has held, which is all the exchange's invariant asks of it.
- `TokenEndpointHostsProofs`: `HostInvariant` says what each stage has found out
  about the request; `AdmissionExact`, `SelectionFirst` and `AnswerJustified`
  behind both hosts follow, for all requests and any number of hook steps. Of
  the form: the chain of early returns refuses only for a fault the form has, and
  the map read so far is that of the scope tokens read (`PermissionsExact`, for
  scopes of any length).
- `BoundedFetchProofs`: all four safety properties for any limits, chunk sizes
  and answers; `Progress` relates phase, body and response.
- `PolicyEvaluationProofs`: the loop invariant says each local variable sums up
  the statements seen; the outcome is that of the set, for policies of any length.
- `TokenExchangeCompositionProofs`, for configurations of any size in any order:
  `CompositionInvariant` says, list by list, that what is built is what the
  elements before `position` say and that each of those was accepted, and, while
  a request is evaluated, that the pass runs over its App's own statements under
  the loop invariant of `PolicyEvaluationProofs`. Neither property is
  inductive: a refusal is known to be just only at the element that causes it,
  when the earlier ones are known to be sound, and an answer is compared with the
  configuration as written, which only `Built` connects with what is evaluated.
  `RefusesTheUnsound`, `AuthorityAsWritten` and `EvaluationCorrect` follow.

Only model-checked: liveness (`EveryCallCompletes`, `EndsUnlessPlatformHangs`,
`EveryRequestSettles`), since fairness and ENABLED are out of the prover's reach.
`NobodyForgotten`, which is proved, is the safety half of the first. The findings
below are counterexamples, which TLC shows.

## 6. Findings

`docs/service-contract.md:303` says no-cache responses "require successful
revalidation before reuse". The code gives such a JWK Set a `freshUntil` equal to
the captured time of the call that fetched it, and a reader compares that with
its *own* captured time. `oidc_no_cache` shows a reader with an older time, which
comes to the cache after waiting for something else, use the set without
revalidation. What is used was fetched after that reader began, so
`DocumentAgeBounded` holds all the same.

`docs/service-contract.md:82-85` counts an invalid resolved private key among the
RPC's configuration errors. The code turns only a failed import into one
(`app.ts:257`). A key that can be imported and not used, for instance an RSA key
with a modulus under 2048 bits, fails in `SignJWT.sign` (`app.ts:246`), which
`app-information.ts:282` makes a `GitHubAppInternalError`: `rpc_invalid_key` shows
it. `RpcFailuresExplained` states what the code does instead.

## 7. Not modelled, and why

- Diagnostics, log wording, response headers, `expires_in`, the order of the
  echoed scope: nothing depends on them.
- Cryptography and JSON: a token is genuine or not, a key matches or not, a body
  is as expected or not; validation of metadata and GitHub schemas is an outcome.
- The text of identities: a slug, client ID, issuer, audience, algorithm or
  binding name is one of a set or `Malformed`; objects and arrays that are not
  of the shape the types say are malformed elements too.
- A private key given as a plain string in place of a secret binding is a key
  history of length one: it cannot be rotated without replacing the isolate.
- In the Fastify plugin, copying of headers, log levels, and which methods
  Fastify routes without a body (`GET` stands for them).
- Construction throws from whichever list is looked at first, and always a
  `TypeError`: the order in which the lists are examined is not modelled.
- A clock that steps back: the code promises nothing then.
- Spacing of JWK Set requests by the wall clock, or between requests that another
  identity's request separates: the deadlines start from captured times
  (`docs/service-contract.md:320-321`) and `jwksFailure` is one slot.
  `JwksRequestsSpaced` speaks, in captured times, of a request that follows directly
  on one for the same identity.
- Provider profiles and response helpers: claim checks and formatting without
  state. Build, test and release scripts: not part of the running system.
- The registry in `PROJECT.json` (`hazards`) says, for each hazard no property
  covers, why.

## 8. Plan

Done, in this order: verifier and contract; exchange; policy; outbound
requests; request parsing; token custody and its refinement; the RPC beside the
exchange; composition and policy compilation; both hosts; spacing of requests;
dropped calls in the verifier, signing apart from import, and hooks that rewrite
anything; the theorems of section 5, which state every safety property the runs
check and both refinements.

Next, the most important first:

1. The answer's scope as the permission map that policy allowed, from the form
   to GitHub's request, in one composition of hosts, parsing, policy and exchange.
2. The provider profiles' claim checks against a reference definition.
