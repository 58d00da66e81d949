---------------------------- MODULE AppInformation ----------------------------
(***************************************************************************)
(* The GitHub App Information RPC beside Token Exchange, in one isolate:   *)
(* trusted Workers ask for what GitHub says about one App, selected by     *)
(* their binding.  A call reads the App's private key, imports it through  *)
(* the same cachedPrivateKey, and sends GitHub one request.                *)
(*                                                                         *)
(* Each pc of a call is one await, as for the requests.                    *)
(***************************************************************************)
EXTENDS TokenExchange

CONSTANTS
  Call,        \* calls of the RPC
  Invocation   \* the calls that may be made: [selector, method, validInput]

Method == {"getApp", "listInstallations", "getInstallation", "getRepositoryInstallation"}

\* A selector that is missing, malformed or of no configured App is None.
ASSUME InvocationAssumption ==
  /\ Invocation \subseteq [selector : App \cup {None}, method : Method, validInput : BOOLEAN]
  /\ None \notin App /\ None \notin Invocation /\ None \notin GitHubError

VARIABLE rpc  \* the progress of each call

combinedVars == <<vars, rpc>>

CallRunning == {"secret", "fingerprint", "import", "sign", "github"}

Failure == {"configuration", "input", "internal", "not_found", "unavailable", "upstream"}

RpcCall ==
  [pc : CallRunning \cup {"idle", "returned", "failed", "dropped"},
   invocation : Invocation \cup {None},
   since : Nat,                        \* secret[selector] when it was made
   key : Pem \cup {None},              \* private key text, then the JWT's key
   heard : GitHubError \cup {None},    \* how its request to GitHub failed
   failure : Failure \cup {None}]

CombinedInit ==
  /\ Init
  /\ rpc = [c \in Call |-> [pc |-> "idle", invocation |-> None, since |-> 0, key |-> None,
                            heard |-> None, failure |-> None]]

-----------------------------------------------------------------------------
Fails(call, failure) == [call EXCEPT !.pc = "failed", !.failure = failure]

Continues(c, call) == rpc' = [rpc EXCEPT ![c] = call]

\* The selector is looked at before the input, and both before the secret.
Invoke(c, invocation) ==
  LET call == [rpc[c] EXCEPT !.invocation = invocation]
  IN  /\ rpc[c].pc = "idle"
      /\ Continues(c,
           IF invocation.selector = None THEN Fails(call, "configuration")
           ELSE IF ~invocation.validInput THEN Fails(call, "input")
           ELSE [call EXCEPT !.pc = "secret", !.since = secret[invocation.selector]])
      /\ UNCHANGED vars

\* The binding yields the private key it now holds, something that is no
\* text, or rejects.
RpcSecretSettles(c) ==
  LET call == rpc[c]
      app == call.invocation.selector
  IN  /\ call.pc = "secret"
      /\ \/ Continues(c, [call EXCEPT !.pc = "fingerprint", !.key = KeyHistory[app][secret[app]]])
         \/ Continues(c, Fails(call, "configuration"))
         \/ Continues(c, Fails(call, "internal"))
      /\ UNCHANGED vars

RpcKey_Cached(pem) == IF cachedPrivateKey # None THEN cachedPrivateKey ELSE pem

\* The import a call waits for: the one kept, if it is of the same text.
RpcKey(pem) == IF Cached(pem) THEN cachedPrivateKey ELSE pem

RpcFingerprintSettles(c) ==
  LET call == rpc[c]
  IN  /\ call.pc = "fingerprint"
      /\ Continues(c, [call EXCEPT !.pc = "import", !.key = RpcKey(call.key)])
      /\ cachedPrivateKey' = RpcKey(call.key)
      /\ UNCHANGED <<exchange, secret, acknowledged, token>>

RpcImportSettles(c) ==
  LET call == rpc[c]
  IN  /\ call.pc = "import"
      /\ Continues(c, IF call.key \in UsablePem THEN [call EXCEPT !.pc = "sign"]
                      ELSE Fails(call, "configuration"))
      /\ UNCHANGED vars

\* Only a failed import is told from other errors as one of configuration.
RpcSignSettles(c) ==
  LET call == rpc[c]
  IN  /\ call.pc = "sign"
      /\ Continues(c, IF call.key \in SigningPem THEN [call EXCEPT !.pc = "github"]
                      ELSE Fails(call, "internal"))
      /\ UNCHANGED vars

OneInstallation == {"getInstallation", "getRepositoryInstallation"}

FailureOf_StatusOnly(method, error) ==
  IF error.transport THEN "unavailable"
  ELSE IF error.status = 401 THEN "configuration"
  ELSE IF method \in OneInstallation /\ error.status = 404 THEN "not_found"
  ELSE IF error.status \in {429, 503} THEN "unavailable"
  ELSE "upstream"

\* normalizeGitHubAppInformationError, by the status GitHub sent.
FailureOf(method, error) ==
  IF error.transport THEN "unavailable"
  ELSE IF error.status = 401 THEN "configuration"
  ELSE IF method \in OneInstallation /\ error.status = 404 THEN "not_found"
  ELSE IF error.rateLimited \/ error.status \in {429, 503} THEN "unavailable"
  ELSE "upstream"

FailsAtGitHub(c, error) ==
  Continues(c, [Fails(rpc[c], FailureOf(rpc[c].invocation.method, error)) EXCEPT !.heard = error])

\* What was asked for; a refusal or an outage; or a successful response that
\* is not what its schema says.
InformationReplies(c) ==
  /\ rpc[c].pc = "github"
  /\ \/ Continues(c, [rpc[c] EXCEPT !.pc = "returned"])
     \/ \E error \in Refusals \cup Outages \cup {HttpError(200, FALSE)} : FailsAtGitHub(c, error)
  /\ UNCHANGED vars

RpcTransportFails(c) ==
  /\ rpc[c].pc = "github"
  /\ FailsAtGitHub(c, Transport)
  /\ UNCHANGED vars

-----------------------------------------------------------------------------
CallDropped(c) == IF rpc[c].pc \in CallRunning THEN [rpc[c] EXCEPT !.pc = "dropped"] ELSE rpc[c]

\* The caller goes away.
DropCall(c) ==
  /\ rpc[c].pc \in CallRunning
  /\ Continues(c, CallDropped(c))
  /\ UNCHANGED vars

\* The isolate is replaced, with the requests and the calls it runs.
ReplaceIsolate ==
  /\ \/ \E r \in Request : exchange[r].pc \in Running
     \/ \E c \in Call : rpc[c].pc \in CallRunning
  /\ exchange' = [r \in Request |-> Dropped(r)]
  /\ rpc' = [c \in Call |-> CallDropped(c)]
  /\ cachedPrivateKey' = None
  /\ UNCHANGED <<secret, acknowledged, token>>

\* TokenExchange without Restart, which is ReplaceIsolate here.
Exchanges ==
  \/ \E r \in Request, arrival \in Arrival : Receive(r, arrival)
  \/ \E r \in Request : Proceed(r) \/ PlatformSettles(r) \/ GitHubReplies(r)
  \/ \E r \in Request : GitHubMints(r) \/ GitHubRevokes(r) \/ Drop(r)
  \/ \E a \in App : RotateKey(a)

RpcStep(c) ==
  \/ \E invocation \in Invocation : Invoke(c, invocation)
  \/ RpcSecretSettles(c) \/ RpcFingerprintSettles(c) \/ RpcImportSettles(c)
  \/ RpcSignSettles(c) \/ InformationReplies(c) \/ RpcTransportFails(c) \/ DropCall(c)

CombinedTerminated ==
  /\ Terminated
  /\ \A c \in Call : rpc[c].pc \in {"returned", "failed", "dropped"}
  /\ UNCHANGED rpc

CombinedNext ==
  \/ Exchanges /\ UNCHANGED rpc
  \/ \E c \in Call : RpcStep(c)
  \/ ReplaceIsolate
  \/ CombinedTerminated

CombinedSpec == CombinedInit /\ [][CombinedNext]_combinedVars

-----------------------------------------------------------------------------
(* Properties *)

\* Calls and requests share one cached key, and rotations come between their
\* awaits: a call's JWT is signed with a private key its own App's binding
\* has held since the call was made.
RpcKeysCurrent ==
  \A c \in Call :
    LET app == rpc[c].invocation.selector
    IN  rpc[c].key # None => \E i \in rpc[c].since..secret[app] : KeyHistory[app][i] = rpc[c].key

\* A caller is told to try again exactly where a token client would be, were
\* the same GitHub failure to meet its installation lookup; that something
\* does not exist only by GitHub's 404 for the one installation it named; and
\* that the service is misconfigured by no failure of GitHub but 401, and by
\* no key it has imported.  A key that was read is never the caller's input,
\* and behind an internal failure only if it was imported and cannot sign.
Explained(call) ==
  LET answered == call.heard # None
  IN  /\ call.failure = "unavailable" <=>
           answered /\ IssuanceFailureReason(call.heard) = "upstream_unavailable"
      /\ call.failure = "not_found" =>
           answered /\ call.heard.status = 404 /\ call.invocation.method \in OneInstallation
      /\ call.failure = "configuration" =>
           IF answered THEN call.heard.status = 401 ELSE call.key \notin UsablePem
      /\ call.failure = "input" => call.key = None
      /\ call.failure = "internal" => ~answered /\ call.key \in {None} \cup (UsablePem \ SigningPem)

RpcFailuresExplained == \A c \in Call : rpc[c].failure # None => Explained(rpc[c])

\* The service contract: "The configuration category covers ... an invalid
\* GitHub App Client ID, binding selector, private-key binding or resolved
\* key".  A call whose key cannot be imported, or cannot sign, would so fail.
InvalidKeysAreConfiguration ==
  \A c \in Call :
    rpc[c].pc = "failed" /\ rpc[c].key \in Pem \ SigningPem => rpc[c].failure = "configuration"

=============================================================================
