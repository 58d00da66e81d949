---------------------------- MODULE OidcVerifier ----------------------------
(***************************************************************************)
(* The Provider Configuration and JWK Set caches of one                    *)
(* RegisteredOidcProviderVerifier                                          *)
(* (packages/oidc/src/registered-provider-verifier.ts), and the calls to   *)
(* verifyIdToken that read, refresh and share them.                        *)
(*                                                                         *)
(* The verifier runs on one JavaScript event loop.  What one event sets    *)
(* off (a new call, the end of a provider request) runs to completion, as  *)
(* microtasks in FIFO order, before the next event: `ready' is that queue, *)
(* and the events are enabled only when it is empty.  The reactions of one *)
(* promise are consecutive microtasks, so the end of a provider request    *)
(* publishes its result and resumes every call that awaits it in one step. *)
(*                                                                         *)
(* On the Worker a call ends with the request it serves: when the runtime  *)
(* drops that request, no continuation of the call runs again, and the     *)
(* provider requests it began, with their timeouts, go with it.            *)
(***************************************************************************)
EXTENDS Integers, Sequences, FiniteSets

CONSTANTS
  Op,                 \* calls to verifyIdToken
  Token,              \* ID Tokens: [kid, alg, verdict]; no alg in a broken header
  Uri,                \* JWK Set locations
  Alg,                \* signing algorithms the registration accepts
  Kid,                \* the provider's signing keys
  KeyAlg,             \* the algorithm of each key
  WeakKid,            \* keys JOSE selects but cannot import or use
  Schedule,           \* what the provider publishes, epoch by epoch
  CacheControl,       \* the Cache-Control headers it may answer with
  DefaultFreshness,   \* defaultFreshnessSeconds
  MaximumFreshness,   \* maximumFreshnessSeconds
  StaleAllowance,     \* staleIfProviderUnavailableSeconds
  RequestTimeout,     \* providerRequestTimeoutMilliseconds
  RefreshCooldown,    \* jwksRefreshCooldownMilliseconds
  FailureBackoff,     \* providerFailureBackoffMilliseconds
  MaxTime,            \* bound on the clock
  MaxDrops,           \* bound on the calls the runtime drops: 0 for the other host
  None                \* undefined

Identity == [uri : Uri, algs : SUBSET Alg]

\* What a token that reaches its key comes to: a signature, claim or profile
\* may refuse it, and a profile may fail or answer with something else.
Verdicts == {"verified", "token_rejected", "internal_failure"}

ASSUME TokenAssumption ==
  /\ None \notin Alg
  /\ Token \subseteq [kid : Kid, alg : Alg \cup {None}, verdict : Verdicts]

ASSUME KeyAssumption == KeyAlg \in [Kid -> Alg] /\ WeakKid \subseteq Kid

ASSUME ScheduleAssumption ==
  /\ Len(Schedule) > 0
  /\ Schedule \in Seq([metadata : Identity, keys : [Uri -> SUBSET Kid]])

ASSUME CacheControlAssumption ==
  CacheControl \subseteq [noStore : BOOLEAN, noCache : BOOLEAN,
                          mustRevalidate : BOOLEAN, maxAge : Nat \cup {None}]

ASSUME TimeAssumption ==
  /\ DefaultFreshness \in Nat /\ MaximumFreshness \in Nat
  /\ StaleAllowance \in Nat /\ RequestTimeout \in Nat
  /\ RefreshCooldown \in Nat /\ FailureBackoff \in Nat \ {0} /\ MaxTime \in Nat
  /\ MaxDrops \in Nat

\* A request takes no longer than trust lasts: 5 seconds, and 2 hours.
ASSUME TrustAssumption == RequestTimeout <= MaximumFreshness + StaleAllowance

VARIABLES
  clock,                    \* dependencies.now()
  epochStart,               \* when each epoch of the provider began, so far
  metadata,                 \* #state.metadata
  metadataFailure,          \* #state.metadataFailure
  metadataRefresh,          \* #state.metadataRefresh: its start and its waiters
  jwks,                     \* #state.jwks
  jwksFailure,              \* #state.jwksFailure
  jwksRefreshAllowedAfter,  \* #state.jwksRefreshAllowedAfter; 0 for undefined
  jwksRefresh,              \* #state.jwksRefresh: the request in the slot
  fetches,                  \* the JWK Set requests in flight
  call,                     \* the progress of each verifyIdToken call
  ready,                    \* calls with a continuation in the microtask queue
  dropped,                  \* calls whose request the runtime has dropped
  outage,                   \* history: last request of a kind failed, and when
  lastRequest               \* history: the last JWK Set request to start

providerVars == <<clock, epochStart>>
metadataVars == <<metadata, metadataFailure, metadataRefresh>>
jwksVars == <<jwks, jwksFailure, jwksRefreshAllowedAfter, jwksRefresh, fetches>>
historyVars == <<outage, lastRequest>>
vars == <<providerVars, metadataVars, jwksVars, call, ready, dropped, historyVars>>

-----------------------------------------------------------------------------
(* The provider *)

Epoch == DOMAIN Schedule

CurrentEpoch == Len(epochStart)

\* The last moment epoch e was what the provider published.
EndOf(e) == IF e = CurrentEpoch THEN clock ELSE epochStart[e + 1]

\* What a request sent at time t may be answered with by now.
Published(t) == {e \in DOMAIN epochStart : EndOf(e) >= t}

KeysOf(e, uri) == Schedule[e].keys[uri]

-----------------------------------------------------------------------------
(* Cached documents.  A document names the epoch it shows, the identity it  *)
(* was requested for, the request, and the answer's Cache-Control, time     *)
(* base and arrival; an entry adds the deadlines the verifier computes.     *)

\* A JWK Set request is named by the call that starts it and by the reason.
Ref == Op \X {"lookup", "missing_key"}

Document == [epoch : Epoch, identity : Identity, ref : Ref \cup {None},
             control : CacheControl, base : Nat, arrived : Nat]

Entry == [value : Document, freshUntil : Nat, staleUntil : Nat]

\* Requests in flight, with the calls that await them, the first one first.
MetadataRequest == [startedAt : Nat, waiters : Seq(Op)]

JwksRequest == [identity : Identity, startedAt : Nat, waiters : Seq(Op)]

ASSUME NoneAssumption ==
  /\ None \notin Nat /\ None \notin Ref /\ None \notin Document /\ None \notin Entry
  /\ None \notin MetadataRequest /\ None \notin JwksRequest
  /\ None \notin [identity : Identity, retryAfter : Nat]
  /\ None \notin [ref : Ref, now : Nat, identity : Identity, remembered : BOOLEAN]

Smaller(a, b) == IF a < b THEN a ELSE b

BoundedFreshness(control) ==
  IF control.noCache THEN 0
  ELSE Smaller(IF control.maxAge = None THEN DefaultFreshness ELSE control.maxAge,
               MaximumFreshness)

StalePermitted_IgnoresMustRevalidate(control) == ~control.noStore /\ ~control.noCache

StalePermitted(control) ==
  ~control.noStore /\ ~control.mustRevalidate /\ ~control.noCache

CacheEntry(document) ==
  LET freshUntil == document.base + BoundedFreshness(document.control)
  IN  [value |-> document,
       freshUntil |-> freshUntil,
       staleUntil |-> IF StalePermitted(document.control)
                        THEN freshUntil + StaleAllowance ELSE document.base]

\* What stays cached of an answer: nothing of a no-store answer.
Retained(document) ==
  IF document.control.noStore THEN None ELSE CacheEntry(document)

Fresh(entry, now) == entry # None /\ now < entry.freshUntil

UsableWhenStale_Forever(entry, now) == entry # None

UsableWhenStale(entry, now) == entry # None /\ now < entry.staleUntil

-----------------------------------------------------------------------------
(* Calls.  `resolved' is the #state.jwks a call held when it began to wait. *)

\* Suspended at an await, or queued with a step to take.
Awaits == {"metadata", "lookup", "missing_key"}

Resumed == {"admit", "failed", "verify", "refresh_failed", "recheck"}

Running == Awaits \cup Resumed

Rejection == {"alg_rejected", "token_rejected", "unknown_key", "metadata_rejected"}

Outcome == Rejection \cup {"verified", "provider_unavailable", "internal_failure"}

ASSUME OutcomeAssumption == None \notin Outcome

Call == [pc : Running \cup {"idle", "done", "dropped"}, now : Nat, token : Token \cup {None},
         meta : Document \cup {None}, doc : Document \cup {None},
         resolved : Entry \cup {None},
         outcome : Outcome \cup {None}]

\* The call ends, or has an error to handle when it next runs.
Done(c, outcome) == [c EXCEPT !.pc = "done", !.outcome = outcome]

Failing(c, pc, error) ==
  [c EXCEPT !.pc = pc, !.outcome = error, !.resolved = None]

\* The refresh the call asks for, or awaits, is the one for a missing key.
ForMissingKey(c) == c.pc \in {"verify", "missing_key"}

\* A call continues with Provider Metadata, and with a resolved JWK Set.
WithMetadata(c, document) == [c EXCEPT !.pc = "admit", !.meta = document]

WithJwks(c, document) ==
  [c EXCEPT !.doc = document, !.resolved = None,
            !.pc = IF ForMissingKey(c) THEN "recheck" ELSE "verify"]

Waiting(q) == {q[i] : i \in DOMAIN q}

\* JOSE's selection in a JWK Set: the key the token names, if it fits.
HasMatchingKey(token, document) ==
  /\ token.kid \in KeysOf(document.epoch, document.identity.uri)
  /\ KeyAlg[token.kid] = token.alg

\* jwtVerify, claims and profile, once a key matches.
Verdict(token) ==
  IF token.kid \in WeakKid THEN "provider_unavailable" ELSE token.verdict

HasUsableVerificationKey(keys, algs) ==
  \E k \in keys \ WeakKid : KeyAlg[k] \in algs

-----------------------------------------------------------------------------
Init ==
  /\ clock = 0 /\ epochStart = <<0>>
  /\ metadata = None /\ metadataFailure = None /\ metadataRefresh = None
  /\ jwks = None /\ jwksFailure = None /\ jwksRefresh = None
  /\ jwksRefreshAllowedAfter = 0
  /\ fetches = [r \in Ref |-> None]
  /\ call = [o \in Op |-> [pc |-> "idle", now |-> 0, token |-> None, meta |-> None,
                           doc |-> None, resolved |-> None, outcome |-> None]]
  /\ ready = <<>> /\ dropped = {}
  /\ outage = [metadata |-> None, jwks |-> None]
  /\ lastRequest = None

-----------------------------------------------------------------------------
(* The environment: time passes, the provider changes what it publishes and *)
(* the runtime drops calls.  A request that has reached its timeout settles  *)
(* before time goes on, unless it was dropped with the call that began it:   *)
(* then nothing settles it, and it stays where other calls join it.          *)

Overdue(startedAt) == clock >= startedAt + RequestTimeout

\* The first waiter of a Provider Configuration request began it.
MetadataPending ==
  metadataRefresh # None /\ Head(metadataRefresh.waiters) \notin dropped

JwksPending(r) == fetches[r] # None /\ r[1] \notin dropped

Tick ==
  /\ ready = <<>> /\ clock < MaxTime
  /\ MetadataPending => ~Overdue(metadataRefresh.startedAt)
  /\ \A r \in Ref : JwksPending(r) => ~Overdue(fetches[r].startedAt)
  /\ clock' = clock + 1
  /\ UNCHANGED <<epochStart, metadataVars, jwksVars, call, ready, dropped, historyVars>>

NextEpoch ==
  /\ ready = <<>> /\ CurrentEpoch < Len(Schedule)
  /\ epochStart' = Append(epochStart, clock)
  /\ UNCHANGED <<clock, metadataVars, jwksVars, call, ready, dropped, historyVars>>

Drop(o) ==
  /\ ready = <<>> /\ Cardinality(dropped) < MaxDrops
  /\ call[o].pc \in Awaits /\ o \notin dropped
  /\ dropped' = dropped \cup {o}
  /\ UNCHANGED <<providerVars, metadataVars, jwksVars, call, ready, historyVars>>

-----------------------------------------------------------------------------
(* #providerMetadata: the first thing a call does with its captured time.   *)

AfterMetadataFailure_AnyError(c, error) ==
  IF UsableWhenStale(metadata, c.now) THEN WithMetadata(c, metadata.value)
  ELSE Failing(c, "failed", error)

AfterMetadataFailure(c, error) ==
  IF error = "provider_unavailable" /\ UsableWhenStale(metadata, c.now)
    THEN WithMetadata(c, metadata.value)
    ELSE Failing(c, "failed", error)

BackingOff(now) == metadataFailure # None /\ now < metadataFailure.retryAfter

Continue(o, c) ==
  /\ call' = [call EXCEPT ![o] = c]
  /\ ready' = Append(ready, o)
  /\ UNCHANGED metadataRefresh

\* The call joins the refresh in flight, or starts one.
AwaitMetadata(o, c) ==
  /\ metadataRefresh' =
       IF metadataRefresh = None THEN [startedAt |-> clock, waiters |-> <<o>>]
       ELSE [metadataRefresh EXCEPT !.waiters = Append(@, o)]
  /\ call' = [call EXCEPT ![o] = [c EXCEPT !.pc = "metadata"]]
  /\ UNCHANGED ready

Start(o, token) ==
  LET c == [call[o] EXCEPT !.now = clock, !.token = token]
  IN  /\ ready = <<>> /\ call[o].pc = "idle"
      /\ \/ /\ Fresh(metadata, c.now)
            /\ Continue(o, WithMetadata(c, metadata.value))
         \/ /\ ~Fresh(metadata, c.now) /\ BackingOff(c.now)
            /\ Continue(o, AfterMetadataFailure(c, metadataFailure.error))
         \/ /\ ~Fresh(metadata, c.now) /\ ~BackingOff(c.now)
            /\ AwaitMetadata(o, c)
      /\ UNCHANGED <<providerVars, metadata, metadataFailure, jwksVars, dropped, historyVars>>

\* The answer shows an epoch published while the request was in flight.
MetadataAnswer(e, control) ==
  [epoch |-> e, identity |-> Schedule[e].metadata, ref |-> None,
   control |-> control, base |-> metadataRefresh.startedAt, arrived |-> clock]

\* A new location forgets the JWK Set of the old one, but not its request.
ForgetJwksUnless(sameLocation) ==
  IF sameLocation THEN UNCHANGED <<jwks, jwksFailure, jwksRefreshAllowedAfter, lastRequest>>
  ELSE /\ jwks' = None /\ jwksFailure' = None /\ jwksRefreshAllowedAfter' = 0
       /\ lastRequest' = IF lastRequest = None THEN None
                         ELSE [lastRequest EXCEPT !.remembered = FALSE]

MetadataRefreshed(e, control) ==
  LET answer == MetadataAnswer(e, control)
  IN  /\ ready = <<>> /\ MetadataPending
      /\ metadata' = Retained(answer)
      /\ metadataFailure' = None /\ metadataRefresh' = None
      /\ ForgetJwksUnless(metadata # None =>
                            metadata.value.identity.uri = answer.identity.uri)
      /\ call' = [o \in Op |-> IF o \in Waiting(metadataRefresh.waiters)
                                 THEN WithMetadata(call[o], answer) ELSE call[o]]
      /\ ready' = metadataRefresh.waiters
      /\ outage' = [outage EXCEPT !.metadata = None]
      /\ UNCHANGED <<providerVars, jwksRefresh, fetches, dropped>>

\* No usable answer (provider_unavailable), or one that is not valid
\* Provider Metadata (metadata_rejected).
MetadataRefreshFailed(error) ==
  /\ ready = <<>> /\ MetadataPending
  /\ metadataFailure' =
       [error |-> error, retryAfter |-> metadataRefresh.startedAt + FailureBackoff]
  /\ metadataRefresh' = None
  /\ call' = [o \in Op |-> IF o \in Waiting(metadataRefresh.waiters)
                             THEN AfterMetadataFailure(call[o], error) ELSE call[o]]
  /\ ready' = metadataRefresh.waiters
  /\ outage' = [outage EXCEPT !.metadata =
                  IF error = "provider_unavailable" THEN clock ELSE None]
  /\ UNCHANGED <<providerVars, metadata, jwksVars, dropped, lastRequest>>

-----------------------------------------------------------------------------
(* #remoteJwks: called once for the JWK Set, once more for a missing key.   *)

SameIdentity(entry, identity) == entry # None /\ entry.value.identity = identity

AfterJwksFailure(c) ==
  IF /\ ~ForMissingKey(c)
     /\ SameIdentity(c.resolved, c.meta.identity)
     /\ UsableWhenStale(c.resolved, c.now)
    THEN WithJwks(c, c.resolved.value)
    ELSE Failing(c, IF ForMissingKey(c) THEN "refresh_failed" ELSE "failed",
                 "provider_unavailable")

CacheAnswers_NoCooldown(c) ==
  SameIdentity(jwks, c.meta.identity) /\ Fresh(jwks, c.now)

\* A fresh entry answers the first lookup; it answers the lookup for a
\* missing key only within the cooldown of the request that brought it.
CacheAnswers(c) ==
  /\ SameIdentity(jwks, c.meta.identity) /\ Fresh(jwks, c.now)
  /\ ForMissingKey(c) => c.now < jwksRefreshAllowedAfter

JwksBackingOff(c) ==
  /\ jwksFailure # None /\ jwksFailure.identity = c.meta.identity
  /\ c.now < jwksFailure.retryAfter

Joinable_AnyIdentity(identity) == jwksRefresh # None

Joinable(identity) ==
  jwksRefresh # None /\ fetches[jwksRefresh].identity = identity

Resume(o, c) ==
  /\ call' = [call EXCEPT ![o] = c]
  /\ ready' = Append(Tail(ready), o)
  /\ UNCHANGED <<jwksVars, historyVars>>

\* The call joins the request in the slot if it is for the same identity;
\* otherwise its own request takes the slot.
AwaitJwks(o, c) ==
  LET reason == IF ForMissingKey(c) THEN "missing_key" ELSE "lookup"
      identity == c.meta.identity
      r == IF Joinable(identity) THEN jwksRefresh ELSE <<o, reason>>
  IN  /\ fetches' =
           IF Joinable(identity) THEN [fetches EXCEPT ![r].waiters = Append(@, o)]
           ELSE [fetches EXCEPT ![r] =
                   [identity |-> identity, startedAt |-> clock, waiters |-> <<o>>]]
      /\ jwksRefresh' = r
      /\ call' = [call EXCEPT ![o] = [c EXCEPT !.pc = reason, !.resolved = jwks]]
      /\ ready' = Tail(ready)
      /\ lastRequest' = IF Joinable(identity) THEN lastRequest
                         ELSE [ref |-> r, now |-> c.now, identity |-> identity,
                               remembered |-> TRUE]
      /\ UNCHANGED <<jwks, jwksFailure, jwksRefreshAllowedAfter, outage>>

RemoteJwks(o, c) ==
  \/ CacheAnswers(c) /\ Resume(o, WithJwks(c, jwks.value))
  \/ /\ ~CacheAnswers(c) /\ JwksBackingOff(c)
     /\ Resume(o, AfterJwksFailure([c EXCEPT !.resolved = jwks]))
  \/ ~CacheAnswers(c) /\ ~JwksBackingOff(c) /\ AwaitJwks(o, c)

JwksAnswer(r, e, control) ==
  [epoch |-> e, identity |-> fetches[r].identity, ref |-> r,
   control |-> control, base |-> call[r[1]].now, arrived |-> clock]

RefreshAllowedAfter_WrongSign(document) ==
  IF document.control.noStore THEN 0 ELSE document.base - RefreshCooldown

RefreshAllowedAfter_AtOnce(document) ==
  IF document.control.noStore THEN 0 ELSE document.base

RefreshAllowedAfter(document) ==
  IF document.control.noStore THEN 0 ELSE document.base + RefreshCooldown

\* Only the request in the slot publishes its result or records its failure.
InSlot_Unchecked(r) == TRUE

InSlot(r) == jwksRefresh = r

\* A request that ends leaves the slot, if it is still there.
SlotAfter_Kept(r) == jwksRefresh

SlotAfter(r) == IF InSlot(r) THEN None ELSE jwksRefresh

\* The first waiter is the call that started the request: its captured time
\* is the one every deadline starts from.
JwksRefreshed(r, e, control) ==
  LET answer == JwksAnswer(r, e, control)
  IN  /\ ready = <<>> /\ JwksPending(r)
      /\ HasUsableVerificationKey(KeysOf(e, fetches[r].identity.uri),
                                  fetches[r].identity.algs)
      /\ IF InSlot(r)
           THEN /\ jwks' = Retained(answer)
                /\ jwksFailure' = None
                /\ jwksRefreshAllowedAfter' = RefreshAllowedAfter(answer)
           ELSE UNCHANGED <<jwks, jwksFailure, jwksRefreshAllowedAfter>>
      /\ jwksRefresh' = SlotAfter(r)
      /\ fetches' = [fetches EXCEPT ![r] = None]
      /\ call' = [o \in Op |-> IF o \in Waiting(fetches[r].waiters)
                                 THEN WithJwks(call[o], answer) ELSE call[o]]
      /\ ready' = fetches[r].waiters
      /\ UNCHANGED <<providerVars, metadataVars, dropped, historyVars>>

JwksRefreshFailed(r) ==
  /\ ready = <<>> /\ JwksPending(r)
  /\ IF InSlot(r)
       THEN jwksFailure' = [identity |-> fetches[r].identity,
                            retryAfter |-> call[r[1]].now + FailureBackoff]
       ELSE UNCHANGED jwksFailure
  /\ jwksRefresh' = SlotAfter(r)
  /\ fetches' = [fetches EXCEPT ![r] = None]
  /\ call' = [o \in Op |-> IF o \in Waiting(fetches[r].waiters)
                             THEN AfterJwksFailure(call[o]) ELSE call[o]]
  /\ ready' = fetches[r].waiters
  /\ outage' = [outage EXCEPT !.jwks = clock]
  /\ UNCHANGED <<providerVars, metadataVars, jwks, jwksRefreshAllowedAfter, dropped,
                 lastRequest>>

-----------------------------------------------------------------------------
(* verifyIdToken, between its awaits; nothing more of a dropped call runs.  *)

Runs(o, pc) ==
  ready # <<>> /\ o = Head(ready) /\ o \notin dropped /\ call[o].pc = pc

Finish(o, outcome) ==
  /\ call' = [call EXCEPT ![o] = Done(@, outcome)]
  /\ ready' = Tail(ready)
  /\ UNCHANGED <<jwksVars, historyVars>>

\* Provider Metadata arrived: the token's header, its algorithm, the JWK Set.
Admit(o) ==
  /\ Runs(o, "admit")
  /\ \/ /\ call[o].token.alg = None
        /\ Finish(o, "internal_failure")
     \/ /\ call[o].token.alg # None
        /\ call[o].token.alg \notin call[o].meta.identity.algs
        /\ Finish(o, "alg_rejected")
     \/ /\ call[o].token.alg \in call[o].meta.identity.algs
        /\ RemoteJwks(o, call[o])
  /\ UNCHANGED <<providerVars, metadataVars, dropped>>

\* A JWK Set arrived; without a matching key, one more lookup.
Verify(o) ==
  /\ Runs(o, "verify")
  /\ \/ /\ HasMatchingKey(call[o].token, call[o].doc)
        /\ Finish(o, Verdict(call[o].token))
     \/ /\ ~HasMatchingKey(call[o].token, call[o].doc)
        /\ RemoteJwks(o, call[o])
  /\ UNCHANGED <<providerVars, metadataVars, dropped>>

Recheck(o) ==
  /\ Runs(o, "recheck")
  /\ Finish(o, IF HasMatchingKey(call[o].token, call[o].doc)
                 THEN Verdict(call[o].token) ELSE "unknown_key")
  /\ UNCHANGED <<providerVars, metadataVars, dropped>>

IsFreshCachedJwks(c) ==
  /\ jwks # None /\ jwks.value = c.doc
  /\ SameIdentity(jwks, c.meta.identity) /\ Fresh(jwks, c.now)

\* The lookup for a missing key failed: the token is to blame only while the
\* JWK Set it was checked against is still the fresh, cached one.
RefreshForMissingKeyFailed(o) ==
  /\ Runs(o, "refresh_failed")
  /\ Finish(o, IF IsFreshCachedJwks(call[o]) THEN "unknown_key" ELSE call[o].outcome)
  /\ UNCHANGED <<providerVars, metadataVars, dropped>>

\* classifyAuthenticationError
Classify(o) ==
  /\ Runs(o, "failed")
  /\ Finish(o, call[o].outcome)
  /\ UNCHANGED <<providerVars, metadataVars, dropped>>

\* The promise a dropped call awaited has settled for others.
Discard(o) ==
  /\ ready # <<>> /\ o = Head(ready) /\ o \in dropped /\ call[o].pc \in Resumed
  /\ call' = [call EXCEPT ![o].pc = "dropped"]
  /\ ready' = Tail(ready)
  /\ UNCHANGED <<providerVars, metadataVars, jwksVars, dropped, historyVars>>

Run(o) ==
  \/ Admit(o) \/ Verify(o) \/ Recheck(o) \/ RefreshForMissingKeyFailed(o)
  \/ Classify(o) \/ Discard(o)

-----------------------------------------------------------------------------
MetadataSettles ==
  \/ /\ metadataRefresh # None
     /\ \E e \in Published(metadataRefresh.startedAt), control \in CacheControl :
          MetadataRefreshed(e, control)
  \/ \E error \in {"provider_unavailable", "metadata_rejected"} :
       MetadataRefreshFailed(error)

JwksSettles(r) ==
  \/ /\ fetches[r] # None
     /\ \E e \in Published(fetches[r].startedAt), control \in CacheControl :
          JwksRefreshed(r, e, control)
  \/ JwksRefreshFailed(r)

\* The call awaits a request that was dropped with the call that began it.
Stranded(o) ==
  \/ /\ call[o].pc = "metadata"
     /\ Head(metadataRefresh.waiters) \in dropped
  \/ /\ call[o].pc \in {"lookup", "missing_key"}
     /\ \E r \in Ref : /\ fetches[r] # None /\ o \in Waiting(fetches[r].waiters)
                      /\ r[1] \in dropped

\* Nothing is left to run, and the bounded clock and schedule are used up.
Terminated ==
  /\ \A o \in Op : call[o].pc \in {"done", "dropped"} \/ Stranded(o)
  /\ clock = MaxTime /\ CurrentEpoch = Len(Schedule)
  /\ UNCHANGED vars

Next ==
  \/ \E o \in Op, token \in Token : Start(o, token)
  \/ \E o \in Op : Run(o)
  \/ MetadataSettles
  \/ \E r \in Ref : JwksSettles(r)
  \/ Tick
  \/ NextEpoch
  \/ \E o \in Op : Drop(o)
  \/ Terminated

Spec == Init /\ [][Next]_vars

Timeouts_MetadataOnly == WF_vars(MetadataSettles)

\* AbortSignal.timeout ends every request, as long as the request of the call
\* that began it lasts: a dropped one is never enabled to settle.
Timeouts == WF_vars(MetadataSettles) /\ \A r \in Ref : WF_vars(JwksSettles(r))

\* The event loop runs what is queued; nothing makes calls begin, time pass, the
\* provider change or the runtime drop a call.
Fairness == Timeouts /\ \A o \in Op : WF_vars(Run(o))

FairSpec == Spec /\ Fairness

-----------------------------------------------------------------------------
(* Properties *)

Completed == {o \in Op : call[o].pc = "done"}

TypeOK ==
  /\ clock \in Nat
  /\ epochStart \in Seq(Nat) /\ Len(epochStart) \in 1..Len(Schedule)
  /\ metadata \in Entry \cup {None} /\ jwks \in Entry \cup {None}
  /\ metadataFailure \in
       [error : {"provider_unavailable", "metadata_rejected"}, retryAfter : Nat] \cup {None}
  /\ metadataRefresh \in MetadataRequest \cup {None}
  /\ jwksFailure \in [identity : Identity, retryAfter : Nat] \cup {None}
  /\ jwksRefreshAllowedAfter \in Nat
  /\ jwksRefresh \in Ref \cup {None}
  /\ fetches \in [Ref -> JwksRequest \cup {None}]
  /\ call \in [Op -> Call]
  /\ ready \in Seq(Op) /\ dropped \in SUBSET Op
  /\ outage \in [metadata : Nat \cup {None}, jwks : Nat \cup {None}]
  /\ lastRequest \in
       [ref : Ref, now : Nat, identity : Identity, remembered : BOOLEAN] \cup {None}

-----------------------------------------------------------------------------
(* What a call may base its answer on *)

\* A JWK Set is only ever used, awaited or fallen back on for the exact
\* metadata the call holds: location and accepted algorithms both.
IdentityIsolation ==
  /\ \A o \in Op : call[o].doc # None => call[o].doc.identity = call[o].meta.identity
  /\ \A r \in Ref : fetches[r] # None =>
       \A o \in Waiting(fetches[r].waiters) : call[o].meta.identity = fetches[r].identity

\* How old an answer may be for a call that did not itself wait for it: by
\* the service contract, its freshness and, where its headers allow stale
\* use, the stale allowance, counted from the fetching call's captured time.
WithinLifetime(document, now) ==
  LET control == document.control
      extra == IF control.mustRevalidate THEN 0 ELSE StaleAllowance
  IN  /\ ~control.noStore /\ ~control.noCache
      /\ now < document.base + MaximumFreshness + extra
      /\ control.maxAge # None => now < document.base + control.maxAge + extra
      /\ control.maxAge = None => now < document.base + DefaultFreshness + extra

\* Every document a call holds arrived after the call began or is within the
\* lifetime its headers give it: no chain of joins, suppressions, failures
\* and fallbacks keeps trust material in use for longer.
DocumentAgeBounded ==
  \A o \in Op : \A d \in {call[o].meta, call[o].doc} \ {None} :
    d.arrived >= call[o].now \/ WithinLifetime(d, call[o].now)

\* A call is handed a document past its freshness only while the provider is
\* failing: the last Provider Configuration request, or a JWK Set request,
\* failed for want of a usable answer within the backoff.  Metadata that
\* turned out invalid is never answered with the stale copy.
Lapsed(document, now) == now >= document.base + BoundedFreshness(document.control)

FailedRecently(failedAt, now) == failedAt # None /\ now < failedAt + FailureBackoff

HandedStaleInOutage ==
  \A o \in Op :
    /\ /\ call'[o].meta # call[o].meta /\ call'[o].meta.arrived < call'[o].now
       /\ Lapsed(call'[o].meta, call'[o].now)
       => FailedRecently(outage'.metadata, call'[o].now)
    /\ /\ call'[o].doc # call[o].doc /\ call'[o].doc.arrived < call'[o].now
       /\ Lapsed(call'[o].doc, call'[o].now)
       => FailedRecently(outage'.jwks, call'[o].now)

StaleOnlyDuringOutage == [][HandedStaleInOutage]_vars

\* Key rotation: a token is turned away for its key only on what the provider
\* published within the cooldown (or one request) before the call began, or,
\* while the provider fails, on a JWK Set that is still fresh.
RejectionJustified ==
  \A o \in Completed : call[o].outcome = "unknown_key" =>
    LET c == call[o] IN
    \/ EndOf(c.doc.epoch) + RefreshCooldown > c.now
    \/ EndOf(c.doc.epoch) + RequestTimeout >= c.now
    \/ FailedRecently(outage.jwks, c.now) /\ ~Lapsed(c.doc, c.now)

-----------------------------------------------------------------------------
(* Requests to the provider *)

\* Nobody waits for something that will not come: each suspended call is in
\* the list of exactly one pending request, each queued call has a step to
\* take, and the slot holds a pending request that its own call awaits.
NobodyForgotten ==
  /\ \A o \in Op : call[o].pc = "metadata" =>
       metadataRefresh # None /\ o \in Waiting(metadataRefresh.waiters)
  /\ \A o \in Op : call[o].pc \in {"lookup", "missing_key"} =>
       \E r \in Ref : fetches[r] # None /\ o \in Waiting(fetches[r].waiters)
  /\ \A o \in Op : o \in Waiting(ready) <=> call[o].pc \in Resumed
  /\ jwksRefresh # None => fetches[jwksRefresh] # None
  /\ \A r \in Ref : fetches[r] # None => call[r[1]].pc = r[2]

\* Only the end of the JWK Set request that started last leaves a result: one
\* that was overtaken by a request for other metadata neither fills the cache
\* nor, if it fails, makes later calls back off.
PublishedByLastRequest ==
  /\ jwks' # jwks /\ jwks' # None => jwks'.value.ref = lastRequest.ref
  /\ \/ jwks' # jwks /\ jwks' # None
     \/ jwksFailure' # jwksFailure /\ jwksFailure' # None
     => fetches[lastRequest.ref] # None /\ fetches'[lastRequest.ref] = None

OnlyLastRequestPublishes == [][PublishedByLastRequest]_vars

\* Unknown keys, failures and calls that hold other metadata meet in one slot,
\* one cache entry and one backoff: still, a JWK Set request that follows one
\* for the same location and algorithms, with no change of location between
\* them, never overlaps it, and is for a call that began later than the one
\* before by the cooldown or the backoff, as long as the answers are fresh
\* for that time.
ReusableFor(control, n) == ~control.noStore /\ BoundedFreshness(control) >= n

SentAfterCooldown ==
  \A r \in Ref :
    /\ fetches[r] = None /\ fetches'[r] # None
    /\ lastRequest # None
    /\ lastRequest.identity = fetches'[r].identity /\ lastRequest.remembered
    /\ \A control \in CacheControl : ReusableFor(control, RefreshCooldown)
    => /\ fetches[lastRequest.ref] = None
       /\ call[r[1]].now >= lastRequest.now + Smaller(RefreshCooldown, FailureBackoff)

JwksRequestsSpaced == [][SentAfterCooldown]_vars

\* Every call that begins is answered: no request, join or retry hangs it, but
\* for one thing.  A call the runtime dropped is not, nor one that awaits a
\* request begun by such a call; where nothing is dropped, all are.
EveryCallCompletes ==
  \A o \in Op : call[o].pc # "idle" ~>
    call[o].pc = "done" \/ o \in dropped \/ Stranded(o)

\* service-contract.md: "Responses marked no-cache require successful
\* revalidation before reuse": a call is handed a no-cache JWK Set only by
\* the end of the request that brought it.
NoCacheRevalidated ==
  [][\A o \in Op :
       call'[o].doc # call[o].doc /\ call'[o].doc.control.noCache =>
         \E r \in Ref : /\ fetches[r] # None /\ fetches'[r] = None
                        /\ call'[o].doc.ref = r]_vars

\* The caches, the event loop and the retries together keep the promises of
\* AuthenticationContract: every answer follows from metadata and a JWK Set
\* the provider published within the trust lifetime.
Contract == INSTANCE AuthenticationContract WITH
  TrustLifetime <- MaximumFreshness + StaleAllowance,
  answer <- [o \in Op |->
    [asked |-> call[o].pc # "idle", now |-> call[o].now, token |-> call[o].token,
     outcome |-> IF call[o].pc = "done" THEN call[o].outcome ELSE None]]

KeepsContract == Contract!Spec

=============================================================================
