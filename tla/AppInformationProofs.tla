------------------------- MODULE AppInformationProofs -------------------------
(***************************************************************************)
(* Theorems about AppInformation: Token Exchange keeps what it promises    *)
(* beside the RPC, and the RPC's own use of the shared key is sound.       *)
(***************************************************************************)
EXTENDS AppInformation, TokenExchangeProofs

\* What a call holds at each of its awaits.
CallSound(call, s) ==
  /\ call \in RpcCall
  /\ call.pc \in CallRunning =>
       call.invocation # None /\ call.invocation.selector \in App
         /\ call.since <= s[call.invocation.selector]
  /\ call.pc \in {"idle", "secret"} => call.key = None
  /\ call.pc = "sign" => call.key \in UsablePem
  /\ call.pc # "failed" => call.failure = None /\ call.heard = None
  /\ call.key # None =>
       /\ call.invocation # None /\ call.invocation.selector \in App
       /\ \E i \in call.since..s[call.invocation.selector] :
            KeyHistory[call.invocation.selector][i] = call.key
  /\ call.failure # None => Explained(call)

CallsSound ==
  rpc \in [Call -> RpcCall] /\ \A c \in Call : CallSound(rpc[c], secret)

Combined == Progress /\ KeysSound /\ CallsSound

-----------------------------------------------------------------------------
(* Token Exchange beside the RPC                                            *)

\* The only variable of Token Exchange the RPC writes is the cached key, and
\* no request relies on which key that is.
LEMMA CacheOnly ==
  ASSUME Progress, KeysSound, UNCHANGED <<exchange, secret, acknowledged, token>>,
         cachedPrivateKey' \in Pem \cup {None}
  PROVE  Progress' /\ KeysSound'
<1>1. TypeOK'
  BY DEF Progress, TypeOK
<1>2. \A r \in Request : Sound(exchange'[r], token'[r], acknowledged'[r])
  BY DEF Progress
<1>3. KeysSound'
  BY DEF KeysSound
<1> QED
  BY <1>1, <1>2, <1>3 DEF Progress

LEMMA ExchangeGoesOn ==
  ASSUME Progress, KeysSound, [Next]_vars
  PROVE  Progress' /\ KeysSound'
  BY ProgressStep, KeyStep

LEMMA IsolateReplaced ==
  ASSUME Progress, KeysSound, ReplaceIsolate
  PROVE  Progress' /\ KeysSound'
<1>1. CASE \E r \in Request : exchange[r].pc \in Running
  <2>1. Restart
    BY <1>1 DEF ReplaceIsolate, Restart
  <2> QED
    BY <2>1, ExchangeGoesOn DEF Next
<1>2. CASE ~\E r \in Request : exchange[r].pc \in Running
  <2>1. \A r \in Request : Dropped(r) = exchange[r]
    BY <1>2 DEF Dropped
  <2>2. exchange' = exchange
    BY <2>1 DEF ReplaceIsolate, Progress, TypeOK
  <2> QED
    BY <2>2, CacheOnly DEF ReplaceIsolate
<1> QED
  BY <1>1, <1>2

-----------------------------------------------------------------------------
(* The calls                                                                *)

LEMMA CallUpdates ==
  ASSUME NEW call \in RpcCall
  PROVE  /\ \A failure \in Failure : Fails(call, failure) \in RpcCall
         /\ \A pc \in CallRunning \cup {"returned", "dropped"} :
              [call EXCEPT !.pc = pc] \in RpcCall
<1>1. ASSUME NEW failure \in Failure PROVE Fails(call, failure) \in RpcCall
  BY <1>1 DEF RpcCall, Fails
<1>2. ASSUME NEW pc \in CallRunning \cup {"returned", "dropped"}
      PROVE  [call EXCEPT !.pc = pc] \in RpcCall
  BY <1>2 DEF RpcCall
<1> QED
  BY <1>1, <1>2

\* A step of one call keeps the others as they are.
LEMMA OwnCall ==
  ASSUME CallsSound, NEW c \in Call, NEW call, Continues(c, call), UNCHANGED secret,
         CallSound(call, secret)
  PROVE  CallsSound'
<1>1. call \in RpcCall
  BY DEF CallSound
<1>2. ASSUME NEW d \in Call PROVE CallSound(rpc'[d], secret)
  <2>1. rpc'[d] = call \/ rpc'[d] = rpc[d]
    BY DEF Continues, CallsSound
  <2> QED
    BY <2>1 DEF CallsSound
<1>3. rpc' \in [Call -> RpcCall]
  BY <1>1 DEF Continues, CallsSound
<1> QED
  BY <1>2, <1>3 DEF CallsSound

\* A failure without an answer of GitHub, and the keys it may be due to.
Blames(failure, key) ==
  CASE failure = "configuration" -> key \notin UsablePem
    [] failure = "input" -> key = None
    [] failure = "internal" -> key \in {None} \cup (UsablePem \ SigningPem)

LEMMA NoKeyBlamed ==
  ASSUME NEW failure \in {"configuration", "input", "internal"}
  PROVE  Blames(failure, None)
  BY KeyAssumption, NoneAssumption DEF Blames

LEMMA LocalFailure ==
  ASSUME NEW s, NEW call, CallSound(call, s), call.pc # "failed",
         NEW failure \in {"configuration", "input", "internal"}, Blames(failure, call.key)
  PROVE  CallSound(Fails(call, failure), s)
<1> DEFINE d == Fails(call, failure)
<1>1. call \in RpcCall /\ call.heard = None
  BY DEF CallSound
<1>2. d \in RpcCall
  BY <1>1, CallUpdates DEF Failure
<1>3. /\ d.pc = "failed" /\ d.failure = failure /\ d.heard = None /\ d.key = call.key
      /\ d.invocation = call.invocation /\ d.since = call.since
  BY <1>1 DEF Fails, RpcCall
<1> HIDE DEF d
<1>4. Explained(d)
  BY <1>3 DEF Explained, Blames
<1>5. CallSound(d, s)
  BY <1>1, <1>2, <1>3, <1>4 DEF CallSound, CallRunning
<1> QED
  BY <1>5 DEF d

LEMMA Proceeds ==
  ASSUME NEW s, NEW call, CallSound(call, s), call.pc \in CallRunning, call.pc # "secret",
         NEW pc \in {"import", "sign", "github", "returned", "dropped"},
         pc = "sign" => call.key \in UsablePem
  PROVE  CallSound([call EXCEPT !.pc = pc], s)
<1> DEFINE d == [call EXCEPT !.pc = pc]
<1>1. call \in RpcCall
  BY DEF CallSound
<1>2. d \in RpcCall
  BY <1>1, CallUpdates DEF CallRunning
<1>3. /\ d.pc = pc /\ d.failure = call.failure /\ d.heard = call.heard /\ d.key = call.key
      /\ d.invocation = call.invocation /\ d.since = call.since
  BY <1>1 DEF RpcCall
<1>4. call.failure = None /\ call.heard = None
  BY DEF CallSound, CallRunning
<1> HIDE DEF d
<1>5. CallSound(d, s)
  BY <1>2, <1>3, <1>4 DEF CallSound
<1> QED
  BY <1>5 DEF d

LEMMA DropsSound ==
  ASSUME NEW s, NEW c \in Call, CallSound(rpc[c], s)
  PROVE  CallSound(CallDropped(c), s)
<1> DEFINE call == rpc[c]
           d == [call EXCEPT !.pc = "dropped"]
<1>1. CASE call.pc \in CallRunning
  <2>1. call \in RpcCall /\ call.failure = None
    BY <1>1 DEF CallSound, CallRunning
  <2>2. d \in RpcCall
    BY <2>1, CallUpdates
  <2>3. /\ d.pc = "dropped" /\ d.failure = call.failure /\ d.heard = call.heard
        /\ d.key = call.key /\ d.invocation = call.invocation /\ d.since = call.since
    BY <2>1 DEF RpcCall
  <2>4. CallDropped(c) = d
    BY <1>1 DEF CallDropped
  <2> HIDE DEF d
  <2>5. CallSound(d, s)
    BY <1>1, <2>1, <2>2, <2>3 DEF CallSound, CallRunning
  <2> QED
    BY <2>4, <2>5
<1>2. CASE call.pc \notin CallRunning
  BY <1>2 DEF CallDropped
<1> QED
  BY <1>1, <1>2

LEMMA InvokeStep ==
  ASSUME Combined, NEW c \in Call, NEW invocation \in Invocation, Invoke(c, invocation)
  PROVE  CallsSound'
<1> DEFINE idle == rpc[c]
           call == [idle EXCEPT !.invocation = invocation]
           called == [call EXCEPT !.pc = "secret", !.since = secret[invocation.selector]]
<1>1. /\ idle.pc = "idle" /\ idle \in RpcCall /\ idle.key = None /\ idle.failure = None
      /\ idle.heard = None
  BY DEF Invoke, Combined, CallsSound, CallSound
<1>2. invocation.selector \in App \cup {None} /\ invocation # None
  BY InvocationAssumption
<1>3. /\ call \in RpcCall /\ call.pc = "idle" /\ call.key = None /\ call.failure = None
      /\ call.heard = None /\ call.invocation = invocation /\ call.since = idle.since
  BY <1>1 DEF RpcCall
<1>4. UNCHANGED secret
  BY DEF Invoke, vars
<1> HIDE DEF call
<1>5. CallSound(call, secret)
  BY <1>3 DEF CallSound, CallRunning
<1>6. CASE Continues(c, Fails(call, "configuration")) \/ Continues(c, Fails(call, "input"))
  BY <1>3, <1>4, <1>5, <1>6, NoKeyBlamed, LocalFailure, OwnCall DEF Combined
<1>7. CASE invocation.selector # None /\ Continues(c, called)
  <2>1. secret[invocation.selector] \in Nat
    BY <1>2, <1>7 DEF Combined, Progress, TypeOK
  <2>2. /\ called \in RpcCall /\ called.pc = "secret" /\ called.since = secret[invocation.selector]
        /\ called.key = None /\ called.failure = None /\ called.heard = None
        /\ called.invocation = invocation
    BY <1>3, <2>1 DEF RpcCall, CallRunning
  <2> HIDE DEF called
  <2>3. CallSound(called, secret)
    BY <1>2, <1>7, <2>1, <2>2 DEF CallSound
  <2> QED
    BY <1>4, <1>7, <2>3, OwnCall DEF Combined
<1>8. \/ Continues(c, Fails(call, "configuration")) \/ Continues(c, Fails(call, "input"))
      \/ invocation.selector # None /\ Continues(c, called)
  BY DEF Invoke, call
<1> QED
  BY <1>6, <1>7, <1>8

LEMMA RpcSecretStep ==
  ASSUME Combined, NEW c \in Call, RpcSecretSettles(c)
  PROVE  CallsSound'
<1> DEFINE call == rpc[c]
           app == call.invocation.selector
           key == KeyHistory[app][secret[app]]
           d == [call EXCEPT !.pc = "fingerprint", !.key = key]
<1>1. /\ call.pc = "secret" /\ call \in RpcCall /\ CallSound(call, secret) /\ UNCHANGED secret
      /\ call.key = None /\ call.failure = None /\ call.heard = None
      /\ call.invocation # None /\ app \in App /\ call.since <= secret[app]
  BY DEF RpcSecretSettles, Combined, CallsSound, CallSound, CallRunning, vars
<1>2. CASE Continues(c, d)
  <2>1. KeyHistory[app] \in Seq(Pem) /\ secret[app] \in 1..Len(KeyHistory[app])
    BY <1>1, KeyAssumption DEF Combined, Progress, TypeOK
  <2>2. key \in Pem
    BY <2>1
  <2>3. /\ d \in RpcCall /\ d.pc = "fingerprint" /\ d.key = key /\ d.failure = None
        /\ d.heard = None /\ d.invocation = call.invocation /\ d.since = call.since
    BY <1>1, <2>2 DEF RpcCall, CallRunning
  <2>4. secret[app] \in call.since..secret[app]
    BY <1>1, <2>1 DEF RpcCall
  <2> HIDE DEF d
  <2>5. CallSound(d, secret)
    BY <1>1, <2>3, <2>4 DEF CallSound
  <2> QED
    BY <1>1, <1>2, <2>5, OwnCall DEF Combined
<1>3. CASE Continues(c, Fails(call, "configuration")) \/ Continues(c, Fails(call, "internal"))
  BY <1>1, <1>3, NoKeyBlamed, LocalFailure, OwnCall DEF Combined
<1> QED
  BY <1>2, <1>3 DEF RpcSecretSettles

\* The key the cache is found to hold is the one the call has read.
LEMMA RpcFingerprintStep ==
  ASSUME Combined, NEW c \in Call, RpcFingerprintSettles(c)
  PROVE  CallsSound' /\ cachedPrivateKey' \in Pem \cup {None}
<1> DEFINE call == rpc[c]
<1>1. /\ call.pc = "fingerprint" /\ call \in RpcCall /\ CallSound(call, secret)
      /\ UNCHANGED secret
  BY DEF RpcFingerprintSettles, Combined, CallsSound
<1>2. RpcKey(call.key) = call.key
  BY DEF RpcKey, Cached
<1>3. [call EXCEPT !.pc = "import", !.key = call.key] = [call EXCEPT !.pc = "import"]
  BY <1>1 DEF RpcCall
<1>4. CallSound([call EXCEPT !.pc = "import"], secret)
  BY <1>1, Proceeds DEF CallRunning
<1>5. CallsSound'
  BY <1>1, <1>2, <1>3, <1>4, OwnCall DEF RpcFingerprintSettles, Combined
<1>6. call.key \in Pem \cup {None}
  BY <1>1 DEF RpcCall
<1> QED
  BY <1>2, <1>5, <1>6 DEF RpcFingerprintSettles

LEMMA RpcImportStep ==
  ASSUME Combined, NEW c \in Call, RpcImportSettles(c)
  PROVE  CallsSound'
<1> DEFINE call == rpc[c]
<1>1. call.pc = "import" /\ CallSound(call, secret) /\ UNCHANGED secret
  BY DEF RpcImportSettles, Combined, CallsSound, vars
<1>2. CASE call.key \in UsablePem
  <2>1. CallSound([call EXCEPT !.pc = "sign"], secret)
    BY <1>1, <1>2, Proceeds DEF CallRunning
  <2> QED
    BY <1>1, <1>2, <2>1, OwnCall DEF RpcImportSettles, Combined
<1>3. CASE call.key \notin UsablePem
  <2>1. CallSound(Fails(call, "configuration"), secret)
    BY <1>1, <1>3, LocalFailure DEF Blames
  <2> QED
    BY <1>1, <1>3, <2>1, OwnCall DEF RpcImportSettles, Combined
<1> QED
  BY <1>2, <1>3

\* The one way a private key that was imported ends a call.
LEMMA RpcSignStep ==
  ASSUME Combined, NEW c \in Call, RpcSignSettles(c)
  PROVE  CallsSound'
<1> DEFINE call == rpc[c]
<1>1. /\ call.pc = "sign" /\ CallSound(call, secret) /\ UNCHANGED secret
      /\ call.key \in UsablePem
  BY DEF RpcSignSettles, Combined, CallsSound, CallSound, vars
<1>2. CallSound([call EXCEPT !.pc = "github"], secret)
  BY <1>1, Proceeds DEF CallRunning
<1>3. CASE call.key \notin SigningPem
  <2>1. CallSound(Fails(call, "internal"), secret)
    BY <1>1, <1>3, LocalFailure DEF Blames
  <2> QED
    BY <1>1, <1>3, <2>1, OwnCall DEF RpcSignSettles, Combined
<1> QED
  BY <1>1, <1>2, <1>3, OwnCall DEF RpcSignSettles, Combined

GitHubFailures == Refusals \cup Outages \cup {HttpError(200, FALSE), Transport}

FailureAgrees(error, method) ==
  /\ error \in GitHubError /\ error # None /\ FailureOf(method, error) \in Failure
  /\ FailureOf(method, error) = "unavailable" <=>
       IssuanceFailureReason(error) = "upstream_unavailable"
  /\ FailureOf(method, error) = "not_found" => error.status = 404 /\ method \in OneInstallation
  /\ FailureOf(method, error) = "configuration" => error.status = 401
  /\ FailureOf(method, error) \notin {"input", "internal"}

\* 429 is always a rate limit, and 401, 404 and 503 never are.
LEMMA AnsweredAgrees ==
  ASSUME NEW error \in GitHubError, ~error.transport,
         error.rateLimited => error.status \in {403, 429}, error.status = 429 => error.rateLimited,
         NEW method
  PROVE  FailureAgrees(error, method)
<1>1. error # None
  BY InvocationAssumption
<1>2. error.status \in Nat /\ error.rateLimited \in BOOLEAN
  BY DEF GitHubError
<1>3. CASE error.status = 401
  BY <1>1, <1>2, <1>3 DEF FailureAgrees, FailureOf, IssuanceFailureReason, Failure
<1>4. CASE error.status = 404
  BY <1>1, <1>2, <1>4 DEF FailureAgrees, FailureOf, IssuanceFailureReason, Failure
<1>5. CASE error.status \notin {401, 404}
  BY <1>1, <1>2, <1>5 DEF FailureAgrees, FailureOf, IssuanceFailureReason, Failure
<1> QED
  BY <1>3, <1>4, <1>5

LEMMA TransportAgrees ==
  ASSUME NEW method
  PROVE  FailureAgrees(Transport, method)
<1>1. Transport \in GitHubError
  BY DEF Transport, GitHubError
<1>2. Transport # None
  BY <1>1, InvocationAssumption
<1> QED
  BY <1>1, <1>2 DEF FailureAgrees, Transport, FailureOf, IssuanceFailureReason, Failure

\* The RPC and Token Exchange agree on what is temporary.
LEMMA FailuresAgree ==
  ASSUME NEW error \in GitHubFailures, NEW method
  PROVE  FailureAgrees(error, method)
<1>1. CASE error \in Refusals \cup Outages \cup {HttpError(200, FALSE)}
  <2>1. error \in GitHubError
    <3> DEFINE Plain == {HttpError(status, FALSE) : status \in {301, 400, 401, 403, 404, 422}}
               Limited == {HttpError(status, TRUE) : status \in {403, 429}}
               Down == {HttpError(status, FALSE) : status \in {500, 503}}
    <3>1. CASE error \in Plain
      <4>1. PICK status \in {301, 400, 401, 403, 404, 422} : error = HttpError(status, FALSE)
        BY <3>1, ZenonT(60)
      <4>2. HttpError(status, FALSE) \in GitHubError
        BY <4>1 DEF HttpError, GitHubError
      <4> QED
        BY <4>1, <4>2
    <3>2. CASE error \in Limited
      <4>1. PICK status \in {403, 429} : error = HttpError(status, TRUE)
        BY <3>2
      <4>2. HttpError(status, TRUE) \in GitHubError
        BY <4>1 DEF HttpError, GitHubError
      <4> QED
        BY <4>1, <4>2
    <3>3. CASE error \in Down
      <4>1. PICK status \in {500, 503} : error = HttpError(status, FALSE)
        BY <3>3
      <4>2. HttpError(status, FALSE) \in GitHubError
        BY <4>1 DEF HttpError, GitHubError
      <4> QED
        BY <4>1, <4>2
    <3>4. CASE error = HttpError(200, FALSE)
      <4>1. HttpError(200, FALSE) \in GitHubError
        BY DEF HttpError, GitHubError
      <4> QED
        BY <3>4, <4>1
    <3>5. Refusals = Plain \cup Limited /\ Outages = Down
      BY DEF Refusals, Outages
    <3> HIDE DEF Plain, Limited, Down
    <3> QED
      BY <1>1, <3>1, <3>2, <3>3, <3>4, <3>5
  <2>2. ~error.transport
    BY <1>1 DEF Refusals, Outages, HttpError
  <2>3. error.rateLimited => error.status \in {403, 429}
    BY <1>1 DEF Refusals, Outages, HttpError
  <2>4. error.status = 429 => error.rateLimited
    BY <1>1 DEF Refusals, Outages, HttpError
  <2> QED
    BY <2>1, <2>2, <2>3, <2>4, AnsweredAgrees
<1>2. CASE error = Transport
  BY <1>2, TransportAgrees
<1> QED
  BY <1>1, <1>2 DEF GitHubFailures

LEMMA GitHubFailure ==
  ASSUME Combined, NEW c \in Call, rpc[c].pc = "github", NEW error \in GitHubFailures,
         FailsAtGitHub(c, error), UNCHANGED secret
  PROVE  CallsSound'
<1> DEFINE call == rpc[c]
           failure == FailureOf(call.invocation.method, error)
           d == [Fails(call, failure) EXCEPT !.heard = error]
<1>1. call \in RpcCall /\ CallSound(call, secret)
  BY DEF Combined, CallsSound
<1>2. error \in GitHubError /\ error # None /\ failure \in Failure
  BY FailuresAgree DEF FailureAgrees
<1>3. Fails(call, failure) \in RpcCall
  BY <1>1, <1>2, CallUpdates
<1>4. /\ d \in RpcCall /\ d.pc = "failed" /\ d.failure = failure /\ d.heard = error
      /\ d.key = call.key /\ d.invocation = call.invocation /\ d.since = call.since
  BY <1>1, <1>2, <1>3 DEF RpcCall, Fails
<1>5. Continues(c, d)
  BY DEF FailsAtGitHub
<1> HIDE DEF d
<1>6. Explained(d)
  BY <1>2, <1>4, FailuresAgree DEF FailureAgrees, Explained
<1>7. CallSound(d, secret)
  BY <1>1, <1>4, <1>6 DEF CallSound, CallRunning
<1> QED
  BY <1>5, <1>7, OwnCall DEF Combined

LEMMA InformationStep ==
  ASSUME Combined, NEW c \in Call, InformationReplies(c) \/ RpcTransportFails(c)
  PROVE  CallsSound'
<1>1. rpc[c].pc = "github" /\ CallSound(rpc[c], secret) /\ UNCHANGED secret
  BY DEF InformationReplies, RpcTransportFails, Combined, CallsSound, vars
<1>2. CASE Continues(c, [rpc[c] EXCEPT !.pc = "returned"])
  BY <1>1, <1>2, Proceeds, OwnCall DEF CallRunning, Combined
<1>3. ASSUME NEW error \in GitHubFailures, FailsAtGitHub(c, error) PROVE CallsSound'
  BY <1>1, <1>3, GitHubFailure
<1> QED
  BY <1>2, <1>3 DEF InformationReplies, RpcTransportFails, GitHubFailures

LEMMA DropCallStep ==
  ASSUME Combined, NEW c \in Call, DropCall(c)
  PROVE  CallsSound'
  BY DropsSound, OwnCall DEF DropCall, Combined, CallsSound, vars

LEMMA ReplacedCalls ==
  ASSUME Combined, ReplaceIsolate
  PROVE  CallsSound'
<1>1. \A c \in Call : CallSound(CallDropped(c), secret)
  BY DropsSound DEF Combined, CallsSound
<1>2. \A c \in Call : CallDropped(c) \in RpcCall
  BY <1>1 DEF CallSound
<1> QED
  BY <1>1, <1>2 DEF ReplaceIsolate, CallsSound

\* A rotation only adds to the private keys a call may have read.
LEMMA CallsKeep ==
  ASSUME Combined, UNCHANGED rpc, secret' \in [App -> Nat],
         \A a \in App : secret[a] <= secret'[a]
  PROVE  CallsSound'
<1>1. ASSUME NEW c \in Call PROVE CallSound(rpc[c], secret')
  <2> DEFINE call == rpc[c]
             app == call.invocation.selector
  <2>1. CallSound(call, secret) /\ call \in RpcCall
    BY DEF Combined, CallsSound
  <2>2. ASSUME app \in App
        PROVE  secret[app] \in Nat /\ secret'[app] \in Nat /\ secret[app] <= secret'[app]
                 /\ call.since \in Nat
    BY <2>1, <2>2 DEF Combined, Progress, TypeOK, RpcCall
  <2> QED
    BY <2>1, <2>2 DEF CallSound
<1> QED
  BY <1>1 DEF Combined, CallsSound

-----------------------------------------------------------------------------
LEMMA SecretGrows ==
  ASSUME Progress, Exchanges
  PROVE  secret' \in [App -> Nat] /\ \A a \in App : secret[a] <= secret'[a]
<1>1. secret \in [App -> Nat]
  BY DEF Progress, TypeOK
<1>2. CASE UNCHANGED secret
  BY <1>1, <1>2
<1>3. ASSUME NEW a \in App, RotateKey(a)
      PROVE  secret' \in [App -> Nat] /\ \A b \in App : secret[b] <= secret'[b]
  BY <1>1, <1>3 DEF RotateKey
<1>4. UNCHANGED secret \/ \E a \in App : RotateKey(a)
  BY DEF Exchanges, Receive, Proceed, PlatformSettles, GitHubReplies, GitHubMints, GitHubRevokes,
         Drop, LocalWork, Authenticate, FingerprintSettles, ImportSettles, SignSettles,
         TransportFails, RateLimitSettles, BodySettles, SecretSettles, Acknowledge,
         RejectObservation, LookupReplies, MintReplies, RevokeReplies
<1> QED
  BY <1>2, <1>3, <1>4

LEMMA CombinedStep ==
  ASSUME Combined, [CombinedNext]_combinedVars
  PROVE  Combined'
<1>1. CASE Exchanges /\ UNCHANGED rpc
  <2>1. Next
    BY <1>1 DEF Exchanges, Next
  <2> QED
    BY <1>1, <2>1, ExchangeGoesOn, SecretGrows, CallsKeep DEF Combined
<1>2. ASSUME NEW c \in Call, RpcStep(c) PROVE Combined'
  <2>1. CASE RpcFingerprintSettles(c)
    BY <2>1, RpcFingerprintStep, CacheOnly DEF RpcFingerprintSettles, Combined
  <2>2. CASE ~RpcFingerprintSettles(c)
    <3>1. UNCHANGED vars
      BY <1>2, <2>2 DEF RpcStep, Invoke, RpcSecretSettles, RpcImportSettles, RpcSignSettles,
                        InformationReplies, RpcTransportFails, DropCall
    <3>2. CallsSound'
      BY <1>2, <2>2, InvokeStep, RpcSecretStep, RpcImportStep, RpcSignStep, InformationStep,
         DropCallStep
      DEF RpcStep
    <3> QED
      BY <3>1, <3>2, ExchangeGoesOn DEF Combined
  <2> QED
    BY <2>1, <2>2
<1>3. CASE ReplaceIsolate
  BY <1>3, IsolateReplaced, ReplacedCalls DEF Combined
<1>4. CASE CombinedTerminated \/ UNCHANGED combinedVars
  <2>1. UNCHANGED vars /\ UNCHANGED rpc
    BY <1>4 DEF CombinedTerminated, Terminated, combinedVars
  <2>2. Progress' /\ KeysSound'
    BY <2>1, ExchangeGoesOn DEF Combined
  <2>3. CallsSound'
    BY <2>1 DEF Combined, CallsSound, vars
  <2> QED
    BY <2>2, <2>3 DEF Combined
<1> QED
  BY <1>1, <1>2, <1>3, <1>4 DEF CombinedNext

LEMMA CombinedInitially == CombinedInit => Combined
<1> SUFFICES ASSUME CombinedInit PROVE Combined
  OBVIOUS
<1>1. Progress
  BY InitSound DEF CombinedInit
<1>2. ASSUME NEW r \in Request PROVE KeySound(exchange[r], secret)
  <2>1. exchange[r].pc = "idle" /\ exchange[r].key = None
    BY DEF CombinedInit, Init
  <2> QED
    BY <2>1 DEF KeySound
<1>3. CallsSound
  BY DEF CombinedInit, CallsSound, CallSound, RpcCall, CallRunning
<1> QED
  BY <1>1, <1>2, <1>3 DEF Combined, KeysSound

LEMMA CombinedInvariant == CombinedSpec => []Combined
<1>1. Combined /\ [CombinedNext]_combinedVars => Combined'
  BY CombinedStep
<1> QED
  BY <1>1, CombinedInitially, PTL DEF CombinedSpec

\* Calls of the RPC and requests share one cached key: whatever they do to it,
\* and however keys rotate, each signs with a key its own App's binding has
\* held since it arrived.
THEOREM KeysCurrentBesideRpc == CombinedSpec => [](KeysCurrent /\ RpcKeysCurrent)
<1>1. Combined => KeysCurrent
  BY DEF Combined, KeysSound, KeySound, KeysCurrent
<1>2. Combined => RpcKeysCurrent
  BY DEF Combined, CallsSound, CallSound, RpcKeysCurrent
<1> QED
  BY <1>1, <1>2, CombinedInvariant, PTL

\* The RPC takes nothing from what Token Exchange promises about permission,
\* tokens and answers.
THEOREM ExchangeUndisturbed ==
  CombinedSpec => [](IssuanceJustified /\ TokensAccountedFor /\ ClientErrorsMintNothing)
<1>1. Progress => IssuanceJustified
  BY DEF Progress, Sound, IntentSound, Permitted, IssuanceJustified
<1>2. Progress => TokensAccountedFor
  BY DEF Progress, Sound, AnswerSound, TokensAccountedFor
<1>3. Progress => ClientErrorsMintNothing
  <2> SUFFICES ASSUME Progress, NEW r \in Request, exchange[r].status \in 400..499
               PROVE  token[r] = "none"
    BY DEF ClientErrorsMintNothing
  <2> QED
    BY DEF Progress, Sound, AnswerSound
<1>4. Combined => IssuanceJustified /\ TokensAccountedFor /\ ClientErrorsMintNothing
  BY <1>1, <1>2, <1>3 DEF Combined
<1> QED
  BY <1>4, CombinedInvariant, PTL

\* The failure a caller of the RPC is told of is the one there was: temporary
\* exactly where a token client would be told so, and of a key that was read
\* only if that key cannot be imported (configuration) or cannot sign (internal).
THEOREM RpcFailuresExplainedHolds == CombinedSpec => []RpcFailuresExplained
<1>1. Combined => RpcFailuresExplained
  BY DEF Combined, CallsSound, CallSound, RpcFailuresExplained
<1> QED
  BY <1>1, CombinedInvariant, PTL

=============================================================================
