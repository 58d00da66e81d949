------------------------- MODULE TokenExchangeProofs -------------------------
(***************************************************************************)
(* Theorems about TokenExchange, for any number of requests, Apps and      *)
(* private keys, and any policy.                                           *)
(***************************************************************************)
EXTENDS TokenExchange, TLAPS

-----------------------------------------------------------------------------
(* Updates of a request's record                                            *)

\* What the record holds before and after the request is looked at; the
\* statuses, reasons and events the tables yield are the declared ones.
LEMMA Tables ==
  /\ \A f \in DOMAIN RouteRefusal : RouteRefusal[f] \in Answers \ {200, 500}
  /\ \A f \in DOMAIN HeaderRefusal : HeaderRefusal[f] \in Answers \ {200, 500}
  /\ \A f \in DOMAIN BodyRefusal : BodyRefusal[f] \in Answers \ {200, 500}
  /\ \A f \in DOMAIN FailureStatus : FailureStatus[f] \in Answers \ {200}
<1>1. \A f \in DOMAIN RouteRefusal : RouteRefusal[f] \in Answers \ {200, 500}
  BY DEF RouteRefusal, Answers
<1>2. \A f \in DOMAIN HeaderRefusal : HeaderRefusal[f] \in Answers \ {200, 500}
  BY DEF HeaderRefusal, Answers
<1>3. \A f \in DOMAIN BodyRefusal : BodyRefusal[f] \in Answers \ {200, 500}
  BY DEF BodyRefusal, Answers
<1>4. \A f \in DOMAIN FailureStatus : FailureStatus[f] \in Answers \ {200}
  BY DEF FailureStatus, Answers
<1> QED
  BY <1>1, <1>2, <1>3, <1>4

\* The reasons a failure is given are those the endpoint has a status for.
IssuanceFailure == {"internal_failure", "upstream_failure", "upstream_unavailable"}

LEMMA Reasons ==
  /\ AuthenticationFailure \subseteq DOMAIN FailureStatus
  /\ PolicyOutcome \ {"permitted"} \subseteq DOMAIN FailureStatus
  /\ IssuanceFailure \subseteq DOMAIN FailureStatus
  BY DEF AuthenticationFailure, PolicyOutcome, IssuanceFailure, FailureStatus

\* A failed GitHub request is never the client's fault.
LEMMA IssuanceReasons ==
  \A error : IssuanceFailureReason(error) \in IssuanceFailure
  BY DEF IssuanceFailureReason, IssuanceFailure

LEMMA IssuanceStatus ==
  /\ \A reason \in IssuanceFailure : FailureStatus[reason] \notin 400..499
  /\ IssuanceFailure \cap AuthenticationFailure = {}
  BY DEF IssuanceFailure, FailureStatus, AuthenticationFailure

LEMMA DenialReasons == (PolicyOutcome \ {"permitted"}) \cap AuthenticationFailure = {}
  BY DEF PolicyOutcome, AuthenticationFailure

\* Every update an action makes leaves a record of a request.
LEMMA ExchangeUpdates ==
  ASSUME NEW c \in Exchange
  PROVE  /\ \A pc \in Running \cup Ended : [c EXCEPT !.pc = pc] \in Exchange
         /\ \A status \in Answers : Answer(c, status) \in Exchange
         /\ \A pc \in Running, reason \in DOMAIN FailureStatus :
              Failing(c, pc, reason) \in Exchange
<1>1. \A pc \in Running \cup Ended : [c EXCEPT !.pc = pc] \in Exchange
  BY DEF Exchange
<1>2. \A status \in Answers : Answer(c, status) \in Exchange
  BY DEF Exchange, Answer, Ended
<1>3. \A pc \in Running, reason \in DOMAIN FailureStatus : Failing(c, pc, reason) \in Exchange
  BY DEF Exchange, Failing
<1> QED
  BY <1>1, <1>2, <1>3


-----------------------------------------------------------------------------
(* The inductive invariant: what the await a request is at says about its   *)
(* token, its reason and its observations.                                  *)

Permitted(c) ==
  /\ c.arrival.subject \in Accepts[c.arrival.app]
  /\ Evaluation(c) = "permitted"

Unminted == {"idle", "rate_limit", "body", "authenticate", "observe_authentication",
             "observe_denied", "observe_started", "secret", "fingerprint", "import",
             "sign", "lookup"}

Intended == {"secret", "fingerprint", "import", "sign", "lookup", "mint", "observe_failed",
             "observe_succeeded", "revoke"}

Failed == {"observe_authentication", "observe_denied", "observe_failed"}

IntentSound(c, t, acks) ==
  /\ c.pc # "idle" => c.arrival \in Arrival
  /\ c.pc = "idle" => c.key = None
  /\ c.pc = "observe_started" => Permitted(c)
  /\ c.pc \in Intended \/ c.key # None \/ t # "none" =>
       Permitted(c) /\ "issuance_started" \in acks

TokenSound(c, t) ==
  /\ c.pc \in Unminted => t = "none" /\ ~c.holds
  /\ c.pc = "mint" => t \in {"requested", "live"} /\ ~c.holds
  /\ c.pc = "observe_failed" => t \in {"none", "requested", "live"} /\ ~c.holds
  /\ c.pc = "observe_succeeded" => t = "live" /\ c.holds
  /\ c.pc = "revoke" => t \in {"revoking", "revoked"} /\ c.holds

ReasonSound(c) ==
  /\ c.pc = "observe_authentication" => c.reason \in AuthenticationFailure
  /\ c.pc = "observe_denied" => c.reason \in PolicyOutcome \ {"permitted"}
  /\ c.pc = "observe_failed" => c.reason \in IssuanceFailure
  /\ c.pc \in (Running \cup {"idle"}) \ Failed => c.reason = None

AnswerSound(c, t, acks) ==
  /\ c.pc # "answered" => c.status = 0
  /\ c.pc = "answered" =>
       /\ c.status = 200 =>
            c.holds /\ t = "live" /\ c.reason = None /\ "issuance_succeeded" \in acks
       /\ c.status # 200 /\ c.holds => t \in {"revoking", "revoked"}
       /\ c.status \in 400..499 => t = "none"
       /\ c.status # 500 /\ c.reason \in AuthenticationFailure =>
            "authentication_failed" \in acks
       /\ c.status # 500 /\ c.reason # None /\ c.reason \notin AuthenticationFailure =>
            "issuance_failed" \in acks

Sound(c, t, acks) ==
  IntentSound(c, t, acks) /\ TokenSound(c, t) /\ ReasonSound(c) /\ AnswerSound(c, t, acks)

Progress ==
  TypeOK /\ \A r \in Request : Sound(exchange[r], token[r], acknowledged[r])

\* A step of one request keeps the invariant if its own part is sound.
LEMMA OwnStep ==
  ASSUME Progress, NEW r \in Request, NEW c \in Exchange,
         NEW t \in TokenState, NEW acks \in SUBSET Event,
         Goto(r, c), UNCHANGED secret, cachedPrivateKey' \in Pem \cup {None},
         token' = [token EXCEPT ![r] = t],
         acknowledged' = [acknowledged EXCEPT ![r] = acks],
         Sound(c, t, acks)
  PROVE  Progress'
<1>1. TypeOK'
  BY DEF Progress, TypeOK, Goto
<1>2. ASSUME NEW q \in Request
      PROVE  Sound(exchange'[q], token'[q], acknowledged'[q])
  <2>1. CASE q = r
    <3>1. exchange'[q] = c /\ token'[q] = t /\ acknowledged'[q] = acks
      BY <2>1 DEF Progress, TypeOK, Goto
    <3> QED
      BY <3>1
  <2>2. CASE q # r
    <3>1. exchange'[q] = exchange[q] /\ token'[q] = token[q]
          /\ acknowledged'[q] = acknowledged[q]
      BY <2>2 DEF Progress, TypeOK, Goto
    <3> QED
      BY <3>1 DEF Progress
  <2> QED
    BY <2>1, <2>2
<1> QED
  BY <1>1, <1>2 DEF Progress

\* The same for a step that leaves the token and the observations alone.
LEMMA QuietStep ==
  ASSUME Progress, NEW r \in Request, NEW c \in Exchange,
         Goto(r, c), UNCHANGED <<secret, token, acknowledged>>,
         cachedPrivateKey' \in Pem \cup {None},
         Sound(c, token[r], acknowledged[r])
  PROVE  Progress'
<1>1. token' = [token EXCEPT ![r] = token[r]] /\ token[r] \in TokenState
  BY DEF Progress, TypeOK
<1>2. acknowledged' = [acknowledged EXCEPT ![r] = acknowledged[r]]
      /\ acknowledged[r] \in SUBSET Event
  BY DEF Progress, TypeOK
<1> QED
  BY <1>1, <1>2, OwnStep

-----------------------------------------------------------------------------
(* Each action keeps the invariant.                                         *)

\* The fields of an updated record.
LEMMA Fields ==
  ASSUME NEW c \in Exchange, NEW status, NEW pc, NEW reason
  PROVE  /\ Answer(c, status).pc = "answered" /\ Answer(c, status).status = status
         /\ Answer(c, status).arrival = c.arrival /\ Answer(c, status).key = c.key
         /\ Answer(c, status).reason = c.reason /\ Answer(c, status).holds = c.holds
         /\ Failing(c, pc, reason).pc = pc /\ Failing(c, pc, reason).reason = reason
         /\ Failing(c, pc, reason).arrival = c.arrival /\ Failing(c, pc, reason).key = c.key
         /\ Failing(c, pc, reason).holds = c.holds /\ Failing(c, pc, reason).status = c.status
         /\ [c EXCEPT !.pc = pc].pc = pc /\ [c EXCEPT !.pc = pc].arrival = c.arrival
         /\ [c EXCEPT !.pc = pc].key = c.key /\ [c EXCEPT !.pc = pc].reason = c.reason
         /\ [c EXCEPT !.pc = pc].holds = c.holds /\ [c EXCEPT !.pc = pc].status = c.status
  BY DEF Exchange, Answer, Failing

\* A request that ends with nothing minted and no reason given is sound.
LEMMA EarlyAnswer ==
  ASSUME NEW c \in Exchange, NEW t, NEW acks, NEW status \in Answers \ {200},
         Sound(c, t, acks), c.pc \in Unminted \ ({"idle"} \cup Failed)
  PROVE  Answer(c, status) \in Exchange /\ Sound(Answer(c, status), t, acks)
<1>1. Answer(c, status) \in Exchange
  BY ExchangeUpdates
<1>2. c.reason = None /\ t = "none" /\ ~c.holds
  BY DEF Sound, TokenSound, ReasonSound, Unminted, Running, Unbounded, Observing, Failed
<1>3. None \notin AuthenticationFailure
  BY NoneAssumption, Reasons
<1> DEFINE d == Answer(c, status)
<1>4. /\ d.pc = "answered" /\ d.status = status /\ d.arrival = c.arrival
      /\ d.key = c.key /\ d.reason = c.reason /\ d.holds = c.holds
  BY Fields
<1> HIDE DEF d
<1>5. IntentSound(d, t, acks)
  BY <1>2, <1>4 DEF Sound, IntentSound, Permitted, Evaluation, Unminted, Intended
<1>6. TokenSound(d, t) /\ ReasonSound(d)
  BY <1>4 DEF TokenSound, ReasonSound, Unminted, Running, Unbounded, Observing
<1>7. AnswerSound(d, t, acks)
  BY <1>2, <1>3, <1>4 DEF AnswerSound
<1> QED
  BY <1>1, <1>5, <1>6, <1>7 DEF d, Sound

\* A request moves on to another await.
LEMMA Moved ==
  ASSUME NEW c \in Exchange, NEW t, NEW acks, NEW pc \in Running \ Failed,
         Sound(c, t, acks), c.reason = None, c.status = 0, c.arrival \in Arrival,
         pc \in Intended => Permitted(c) /\ "issuance_started" \in acks,
         pc = "observe_started" => Permitted(c),
         pc \in Unminted => t = "none" /\ ~c.holds,
         pc \notin {"mint", "observe_succeeded"},
         pc = "revoke" => t \in {"revoking", "revoked"} /\ c.holds
  PROVE  [c EXCEPT !.pc = pc] \in Exchange /\ Sound([c EXCEPT !.pc = pc], t, acks)
<1> DEFINE d == [c EXCEPT !.pc = pc]
<1>1. d \in Exchange
  BY ExchangeUpdates
<1>2. /\ d.pc = pc /\ d.status = c.status /\ d.arrival = c.arrival
      /\ d.key = c.key /\ d.reason = c.reason /\ d.holds = c.holds
  BY Fields
<1> HIDE DEF d
<1>3. pc # "idle" /\ pc # "answered"
  BY DEF Running, Unbounded, Observing
<1>4. IntentSound(d, t, acks)
  <2>1. d.arrival \in Arrival
    BY <1>2
  <2>2. c.key # None \/ t # "none" => Permitted(c) /\ "issuance_started" \in acks
    BY DEF Sound, IntentSound
  <2>3. Permitted(d) <=> Permitted(c)
    BY <1>2 DEF Permitted, Evaluation
  <2> QED
    BY <1>2, <1>3, <2>1, <2>2, <2>3 DEF IntentSound
<1>5. TokenSound(d, t)
  BY <1>2 DEF TokenSound, Failed
<1>6. ReasonSound(d)
  BY <1>2 DEF ReasonSound, Failed
<1>7. AnswerSound(d, t, acks)
  BY <1>2, <1>3 DEF AnswerSound
<1> QED
  BY <1>1, <1>4, <1>5, <1>6, <1>7 DEF d, Sound

\* A request has a failure to report.
LEMMA Reports ==
  ASSUME NEW c \in Exchange, NEW t, NEW acks, NEW pc \in Failed, NEW reason \in DOMAIN FailureStatus,
         Sound(c, t, acks), c.status = 0, c.arrival \in Arrival, ~c.holds,
         pc = "observe_authentication" => reason \in AuthenticationFailure,
         pc = "observe_denied" => reason \in PolicyOutcome \ {"permitted"},
         pc = "observe_failed" =>
           /\ reason \in IssuanceFailure /\ t \in {"none", "requested", "live"}
           /\ Permitted(c) /\ "issuance_started" \in acks,
         pc # "observe_failed" => t = "none"
  PROVE  Failing(c, pc, reason) \in Exchange /\ Sound(Failing(c, pc, reason), t, acks)
<1> DEFINE d == Failing(c, pc, reason)
<1>1. d \in Exchange
  BY ExchangeUpdates DEF Failed, Running, Unbounded, Observing
<1>2. /\ d.pc = pc /\ d.status = c.status /\ d.arrival = c.arrival
      /\ d.key = c.key /\ d.reason = reason /\ d.holds = c.holds
  BY Fields
<1> HIDE DEF d
<1>4. IntentSound(d, t, acks)
  <2>1. c.key # None \/ t # "none" => Permitted(c) /\ "issuance_started" \in acks
    BY DEF Sound, IntentSound
  <2>2. Permitted(d) <=> Permitted(c)
    BY <1>2 DEF Permitted, Evaluation
  <2> QED
    BY <1>2, <2>1, <2>2 DEF IntentSound, Failed, Intended
<1>5. TokenSound(d, t)
  BY <1>2 DEF TokenSound, Failed, Unminted
<1>6. ReasonSound(d)
  BY <1>2 DEF ReasonSound, Failed
<1>7. AnswerSound(d, t, acks)
  BY <1>2 DEF AnswerSound, Failed
<1> QED
  BY <1>1, <1>4, <1>5, <1>6, <1>7 DEF d, Sound

LEMMA ReceiveStep ==
  ASSUME Progress, NEW r \in Request, NEW arrival \in Arrival, Receive(r, arrival)
  PROVE  Progress'
<1> DEFINE c == [exchange[r] EXCEPT !.arrival = arrival, !.since = secret[arrival.app]]
           d == IF arrival.form \in DOMAIN RouteRefusal
                  THEN Answer(c, RouteRefusal[arrival.form])
                  ELSE [c EXCEPT !.pc = "rate_limit"]
<1>1. exchange[r] \in Exchange /\ exchange[r].pc = "idle"
  BY DEF Progress, TypeOK, Receive, At
<1>2. Sound(exchange[r], token[r], acknowledged[r])
  BY DEF Progress
<1>3. secret[arrival.app] \in Nat
  BY ArrivalAssumption DEF Progress, TypeOK
<1>4. c \in Exchange /\ c.arrival = arrival /\ c.pc = "idle" /\ c.reason = exchange[r].reason
      /\ c.holds = exchange[r].holds /\ c.status = exchange[r].status /\ c.key = exchange[r].key
  BY <1>1, <1>3 DEF Exchange
<1>5. /\ exchange[r].reason = None /\ ~exchange[r].holds /\ exchange[r].status = 0
      /\ exchange[r].key = None /\ token[r] = "none"
  BY <1>1, <1>2 DEF Sound, IntentSound, TokenSound, ReasonSound, AnswerSound, Unminted, Failed
<1>6. Goto(r, d) /\ UNCHANGED <<cachedPrivateKey, secret, acknowledged, token>>
  BY DEF Receive
<1> HIDE DEF c
<1>7. Sound(c, token[r], acknowledged[r])
  BY <1>4, <1>5 DEF Sound, IntentSound, TokenSound, ReasonSound, AnswerSound, Unminted,
                    Intended, Failed
<1>8. d \in Exchange /\ Sound(d, token[r], acknowledged[r])
  <2>1. CASE arrival.form \in DOMAIN RouteRefusal
    <3> DEFINE status == RouteRefusal[arrival.form]
    <3>1. status \in Answers \ {200, 500}
      BY <2>1, Tables
    <3> HIDE DEF status
    <3>2. Answer(c, status) \in Exchange
      BY <1>4, <3>1, ExchangeUpdates
    <3>3. /\ Answer(c, status).pc = "answered" /\ Answer(c, status).status = status
          /\ Answer(c, status).arrival = c.arrival /\ Answer(c, status).key = c.key
          /\ Answer(c, status).reason = c.reason /\ Answer(c, status).holds = c.holds
      BY <1>4, Fields
    <3>4. None \notin AuthenticationFailure
      BY NoneAssumption, Reasons
    <3>5. Sound(Answer(c, status), token[r], acknowledged[r])
      BY <1>4, <1>5, <3>1, <3>3, <3>4
      DEF Sound, IntentSound, TokenSound, ReasonSound, AnswerSound, Unminted, Intended,
          Running, Unbounded, Observing
    <3> QED
      BY <2>1, <3>2, <3>5 DEF status
  <2>2. CASE arrival.form \notin DOMAIN RouteRefusal
    BY <1>4, <1>5, <1>7, <2>2, Moved
    DEF Running, Unbounded, Observing, Failed, Intended, Unminted
  <2> QED
    BY <2>1, <2>2
<1> HIDE DEF d
<1>9. cachedPrivateKey' \in Pem \cup {None}
  BY <1>6 DEF Progress, TypeOK
<1> QED
  BY <1>6, <1>8, <1>9, QuietStep

LEMMA Here ==
  ASSUME Progress, NEW r \in Request
  PROVE  /\ exchange[r] \in Exchange
         /\ Sound(exchange[r], token[r], acknowledged[r])
         /\ token[r] \in TokenState /\ acknowledged[r] \in SUBSET Event
         /\ cachedPrivateKey \in Pem \cup {None}
  BY DEF Progress, TypeOK

\* What the invariant says of a request that has no failure to report.
LEMMA UnfailedFacts ==
  ASSUME Progress, NEW r \in Request, exchange[r].pc \in Running \ Failed
  PROVE  /\ exchange[r].reason = None /\ exchange[r].status = 0
         /\ exchange[r].arrival \in Arrival
         /\ exchange[r].pc \in Unminted => token[r] = "none" /\ ~exchange[r].holds
         /\ exchange[r].pc \in Intended =>
              Permitted(exchange[r]) /\ "issuance_started" \in acknowledged[r]
  BY Here DEF Sound, IntentSound, TokenSound, ReasonSound, AnswerSound, Running, Unbounded,
              Observing

LEMMA RateLimitStep ==
  ASSUME Progress, NEW r \in Request, RateLimitSettles(r)
  PROVE  Progress'
<1> DEFINE c == exchange[r]
           form == c.arrival.form
           Fine(d) == d \in Exchange /\ Sound(d, token[r], acknowledged[r])
<1>1. c.pc = "rate_limit" /\ c.pc \in Unminted \ ({"idle"} \cup Failed) /\ c.pc \in Running \ Failed
  BY DEF RateLimitSettles, At, Unminted, Failed, Running, Unbounded
<1>2. UNCHANGED <<cachedPrivateKey, secret, acknowledged, token>>
  BY DEF RateLimitSettles
<1>3. \A status \in Answers \ {200} : Fine(Answer(c, status))
  BY <1>1, Here, EarlyAnswer
<1>4. Fine([c EXCEPT !.pc = "body"])
  BY <1>1, Here, UnfailedFacts, Moved DEF Running, Unbounded, Failed, Intended, Unminted
<1>5. ASSUME NEW d, Fine(d), Goto(r, d) PROVE Progress'
  BY <1>2, <1>5, Here, QuietStep
<1> HIDE DEF Fine
<1>6. CASE Goto(r, Answer(c, 429))
  BY <1>3, <1>5, <1>6 DEF Answers
<1>7. CASE Goto(r, Answer(c, 500))
  BY <1>3, <1>5, <1>7 DEF Answers
<1>8. CASE form \in DOMAIN HeaderRefusal /\ Goto(r, Answer(c, HeaderRefusal[form]))
  BY <1>3, <1>5, <1>8, Tables
<1>9. CASE Goto(r, [c EXCEPT !.pc = "body"])
  BY <1>4, <1>5, <1>9
<1> QED
  BY <1>6, <1>7, <1>8, <1>9 DEF RateLimitSettles

LEMMA BodyStep ==
  ASSUME Progress, NEW r \in Request, BodySettles(r)
  PROVE  Progress'
<1> DEFINE c == exchange[r]
           form == c.arrival.form
           Fine(d) == d \in Exchange /\ Sound(d, token[r], acknowledged[r])
<1>1. c.pc = "body" /\ c.pc \in Unminted \ ({"idle"} \cup Failed) /\ c.pc \in Running \ Failed
  BY DEF BodySettles, At, Unminted, Failed, Running, Unbounded
<1>2. UNCHANGED <<cachedPrivateKey, secret, acknowledged, token>>
  BY DEF BodySettles
<1>3. \A status \in Answers \ {200} : Fine(Answer(c, status))
  BY <1>1, Here, EarlyAnswer
<1>4. Fine([c EXCEPT !.pc = "authenticate"])
  BY <1>1, Here, UnfailedFacts, Moved
  DEF Running, Unbounded, Observing, Failed, Intended, Unminted
<1>5. ASSUME NEW d, Fine(d), Goto(r, d) PROVE Progress'
  BY <1>2, <1>5, Here, QuietStep
<1> HIDE DEF Fine
<1>6. CASE Goto(r, Answer(c, 500))
  BY <1>3, <1>5, <1>6 DEF Answers
<1>7. CASE form \in DOMAIN BodyRefusal /\ Goto(r, Answer(c, BodyRefusal[form]))
  BY <1>3, <1>5, <1>7, Tables
<1>8. CASE Goto(r, [c EXCEPT !.pc = "authenticate"])
  BY <1>4, <1>5, <1>8
<1> QED
  BY <1>6, <1>7, <1>8 DEF BodySettles

LEMMA AuthenticateStep ==
  ASSUME Progress, NEW r \in Request, Authenticate(r)
  PROVE  Progress'
<1> DEFINE c == exchange[r]
           Fine(d) == d \in Exchange /\ Sound(d, token[r], acknowledged[r])
<1>1. c.pc = "authenticate" /\ c.pc \in Unminted /\ c.pc \in Running \ Failed
  BY DEF Authenticate, At, Unminted, Failed, Running, Unbounded
<1>2. UNCHANGED <<cachedPrivateKey, secret, acknowledged, token>>
  BY DEF Authenticate
<1>3. c \in Exchange /\ Sound(c, token[r], acknowledged[r])
  BY Here
<1>4. /\ c.reason = None /\ c.status = 0 /\ c.arrival \in Arrival /\ token[r] = "none" /\ ~c.holds
  BY <1>1, UnfailedFacts
<1>5. ASSUME NEW d, Fine(d), Goto(r, d) PROVE Progress'
  BY <1>2, <1>5, Here, QuietStep
<1>6. CASE c.arrival.subject \in Accepts[c.arrival.app] /\ Goto(r, AfterAuthentication(c))
  <2>1. CASE Evaluation(c) = "permitted"
    <3>1. Fine([c EXCEPT !.pc = "observe_started"])
      BY <1>3, <1>4, <1>6, <2>1, Moved
      DEF Running, Unbounded, Observing, Failed, Intended, Unminted, Permitted
    <3>2. AfterAuthentication(c) = [c EXCEPT !.pc = "observe_started"]
      BY <2>1 DEF AfterAuthentication
    <3> QED
      BY <1>5, <1>6, <3>1, <3>2
  <2>2. CASE Evaluation(c) # "permitted"
    <3>1. Evaluation(c) \in PolicyOutcome \ {"permitted"}
      BY <1>4, <2>2, ArrivalAssumption DEF Evaluation
    <3>2. Fine(Failing(c, "observe_denied", Evaluation(c)))
      BY <1>3, <1>4, <3>1, Reasons, Reports DEF Failed
    <3>3. AfterAuthentication(c) = Failing(c, "observe_denied", Evaluation(c))
      BY <2>2 DEF AfterAuthentication
    <3> QED
      BY <1>5, <1>6, <3>2, <3>3
  <2> QED
    BY <2>1, <2>2
<1>7. CASE \E reason \in AuthenticationFailure :
             Goto(r, Failing(c, "observe_authentication", reason))
  <2>1. PICK reason \in AuthenticationFailure :
               Goto(r, Failing(c, "observe_authentication", reason))
    BY <1>7
  <2>2. Fine(Failing(c, "observe_authentication", reason))
    BY <1>3, <1>4, Reasons, Reports DEF Failed
  <2> QED
    BY <1>5, <2>1, <2>2
<1> QED
  BY <1>6, <1>7 DEF Authenticate

\* A failure whose observation is acknowledged is reported.
LEMMA Reported ==
  ASSUME NEW c \in Exchange, NEW t, NEW acks, Sound(c, t, acks), c.pc \in Failed
  PROVE  /\ Answer(c, FailureStatus[c.reason]) \in Exchange
         /\ Sound(Answer(c, FailureStatus[c.reason]), t, acks \cup {EventOf(c.pc)})
<1> DEFINE status == FailureStatus[c.reason]
           d == Answer(c, status)
           more == acks \cup {EventOf(c.pc)}
<1>1. c.reason \in DOMAIN FailureStatus
  BY Reasons DEF Sound, ReasonSound, Failed
<1>2. status \in Answers \ {200}
  BY <1>1, Tables
<1>3. ~c.holds
  BY DEF Sound, TokenSound, Unminted, Failed
<1>4. c.reason \in AuthenticationFailure => EventOf(c.pc) = "authentication_failed"
  BY IssuanceStatus, DenialReasons DEF Sound, ReasonSound, Failed, EventOf
<1>5. c.reason \notin AuthenticationFailure => EventOf(c.pc) = "issuance_failed"
  BY DEF Sound, ReasonSound, Failed, EventOf
<1>6. status \in 400..499 => t = "none"
  BY IssuanceStatus DEF Sound, ReasonSound, TokenSound, Failed, Unminted
<1>7. d \in Exchange
  BY <1>2, ExchangeUpdates
<1>8. /\ d.pc = "answered" /\ d.status = status /\ d.arrival = c.arrival
      /\ d.key = c.key /\ d.reason = c.reason /\ d.holds = c.holds
  BY Fields
<1>9. EventOf(c.pc) \in more /\ acks \subseteq more
  OBVIOUS
<1> HIDE DEF d, status, more
<1>10. IntentSound(d, t, more)
  <2>1. c.arrival \in Arrival
    BY DEF Sound, IntentSound, Failed
  <2>2. Permitted(d) <=> Permitted(c)
    BY <1>8 DEF Permitted, Evaluation
  <2>3. c.key # None \/ t # "none" => Permitted(c) /\ "issuance_started" \in acks
    BY DEF Sound, IntentSound
  <2> QED
    BY <1>8, <1>9, <2>1, <2>2, <2>3 DEF IntentSound, Intended
<1>11. TokenSound(d, t) /\ ReasonSound(d)
  BY <1>8 DEF TokenSound, ReasonSound, Unminted, Running, Unbounded, Observing
<1>12. AnswerSound(d, t, more)
  BY <1>2, <1>3, <1>4, <1>5, <1>6, <1>8, <1>9 DEF AnswerSound
<1> QED
  BY <1>7, <1>10, <1>11, <1>12 DEF d, status, more, Sound

\* More observations change nothing else.
LEMMA MoreAcknowledged ==
  ASSUME NEW c, NEW t, NEW acks, NEW more, acks \subseteq more, Sound(c, t, acks)
  PROVE  Sound(c, t, more)
  BY DEF Sound, IntentSound, AnswerSound

\* The token is handed over, its success on record.
LEMMA Succeeded ==
  ASSUME NEW c \in Exchange, NEW t, NEW acks, Sound(c, t, acks), c.pc = "observe_succeeded"
  PROVE  /\ Answer(c, 200) \in Exchange
         /\ Sound(Answer(c, 200), t, acks \cup {"issuance_succeeded"})
<1> DEFINE d == Answer(c, 200)
           more == acks \cup {"issuance_succeeded"}
<1>1. d \in Exchange
  BY ExchangeUpdates DEF Answers
<1>2. /\ d.pc = "answered" /\ d.status = 200 /\ d.arrival = c.arrival
      /\ d.key = c.key /\ d.reason = c.reason /\ d.holds = c.holds
  BY Fields
<1>3. c.holds /\ t = "live" /\ c.reason = None
  BY DEF Sound, TokenSound, ReasonSound, Failed, Running, Unbounded, Observing
<1>4. "issuance_succeeded" \in more /\ acks \subseteq more
  OBVIOUS
<1>5. c.arrival \in Arrival /\ Permitted(c) /\ "issuance_started" \in acks
  BY DEF Sound, IntentSound, Intended
<1>6. None \notin AuthenticationFailure
  BY NoneAssumption, Reasons
<1> HIDE DEF d, more
<1>7. Permitted(d)
  BY <1>2, <1>5 DEF Permitted, Evaluation
<1>8. IntentSound(d, t, more)
  BY <1>2, <1>4, <1>5, <1>7 DEF IntentSound
<1>9. TokenSound(d, t) /\ ReasonSound(d)
  BY <1>2 DEF TokenSound, ReasonSound, Unminted, Running, Unbounded, Observing
<1>10. AnswerSound(d, t, more)
  BY <1>2, <1>3, <1>4, <1>6 DEF AnswerSound
<1> QED
  BY <1>1, <1>8, <1>9, <1>10 DEF d, more, Sound

LEMMA AcknowledgeStep ==
  ASSUME Progress, NEW r \in Request, Acknowledge(r)
  PROVE  Progress'
<1> DEFINE c == exchange[r]
           more == acknowledged[r] \cup {EventOf(c.pc)}
           Fine(d) == d \in Exchange /\ Sound(d, token[r], more)
<1>1. UNCHANGED <<cachedPrivateKey, secret, token>> /\ c.pc \in Observing
  BY DEF Acknowledge
<1>2. acknowledged' = [acknowledged EXCEPT ![r] = more]
  BY Here DEF Acknowledge, Progress, TypeOK
<1>3. more \in SUBSET Event
  BY Here DEF EventOf, Event
<1>4. token' = [token EXCEPT ![r] = token[r]]
  BY <1>1 DEF Progress, TypeOK
<1>5. ASSUME NEW d, Fine(d), Goto(r, d) PROVE Progress'
  <2> HIDE DEF more
  <2> QED
    BY <1>1, <1>2, <1>3, <1>4, <1>5, Here, OwnStep
<1>6. CASE c.pc = "observe_started"
  <2>1. Goto(r, [c EXCEPT !.pc = "secret"])
    BY <1>6 DEF Acknowledge
  <2>2. EventOf(c.pc) = "issuance_started"
    BY <1>6 DEF EventOf
  <2>3. c.pc \in Running \ Failed /\ c.pc \in Unminted
    BY <1>6 DEF Running, Unbounded, Observing, Failed, Unminted
  <2>4. Permitted(c)
    BY <1>6, Here DEF Sound, IntentSound
  <2>5. Sound(c, token[r], more)
    BY Here, MoreAcknowledged
  <2>6. "issuance_started" \in more
    BY <2>2
  <2> HIDE DEF more
  <2>7. Fine([c EXCEPT !.pc = "secret"])
    BY <2>3, <2>4, <2>5, <2>6, Here, UnfailedFacts, Moved
    DEF Running, Unbounded, Observing, Failed, Intended, Unminted
  <2> QED
    BY <1>5, <2>1, <2>7
<1>7. CASE c.pc = "observe_succeeded"
  <2>1. Goto(r, Answer(c, 200))
    BY <1>7 DEF Acknowledge
  <2>2. EventOf(c.pc) = "issuance_succeeded"
    BY <1>7 DEF EventOf
  <2>3. Fine(Answer(c, 200))
    BY <1>7, <2>2, Here, Succeeded
  <2> QED
    BY <1>5, <2>1, <2>3
<1>8. CASE c.pc \in Failed
  <2>1. Goto(r, Answer(c, FailureStatus[c.reason]))
    BY <1>8 DEF Acknowledge, Failed
  <2>2. Fine(Answer(c, FailureStatus[c.reason]))
    BY <1>8, Here, Reported
  <2> QED
    BY <1>5, <2>1, <2>2
<1> QED
  BY <1>1, <1>6, <1>7, <1>8 DEF Observing, Failed

\* An unexpected failure may end a request anywhere, but not with a token it
\* has not parted with.
LEMMA GivesUp ==
  ASSUME NEW c \in Exchange, NEW t, NEW acks, Sound(c, t, acks), c.pc \in Running,
         c.holds => t \in {"revoking", "revoked"}
  PROVE  Answer(c, 500) \in Exchange /\ Sound(Answer(c, 500), t, acks)
<1> DEFINE d == Answer(c, 500)
<1>1. d \in Exchange
  BY ExchangeUpdates DEF Answers
<1>2. /\ d.pc = "answered" /\ d.status = 500 /\ d.arrival = c.arrival
      /\ d.key = c.key /\ d.reason = c.reason /\ d.holds = c.holds
  BY Fields
<1>3. c.arrival \in Arrival
  BY DEF Sound, IntentSound, Running, Unbounded, Observing
<1> HIDE DEF d
<1>4. Permitted(d) <=> Permitted(c)
  BY <1>2 DEF Permitted, Evaluation
<1>5. c.key # None \/ t # "none" => Permitted(c) /\ "issuance_started" \in acks
  BY DEF Sound, IntentSound
<1>6. IntentSound(d, t, acks)
  BY <1>2, <1>3, <1>4, <1>5 DEF IntentSound, Intended
<1>7. TokenSound(d, t) /\ ReasonSound(d)
  BY <1>2 DEF TokenSound, ReasonSound, Unminted, Running, Unbounded, Observing
<1>8. AnswerSound(d, t, acks)
  BY <1>2 DEF AnswerSound
<1> QED
  BY <1>1, <1>6, <1>7, <1>8 DEF d, Sound

\* The token whose success nobody has on record is revoked.
LEMMA Parted ==
  ASSUME NEW c \in Exchange, NEW t, NEW acks, Sound(c, t, acks), c.pc = "observe_succeeded"
  PROVE  /\ [c EXCEPT !.pc = "revoke"] \in Exchange
         /\ Sound([c EXCEPT !.pc = "revoke"], "revoking", acks)
<1> DEFINE d == [c EXCEPT !.pc = "revoke"]
<1>1. d \in Exchange
  BY ExchangeUpdates DEF Running
<1>2. /\ d.pc = "revoke" /\ d.status = c.status /\ d.arrival = c.arrival
      /\ d.key = c.key /\ d.reason = c.reason /\ d.holds = c.holds
  BY Fields
<1>3. /\ c.arrival \in Arrival /\ Permitted(c) /\ "issuance_started" \in acks
      /\ c.holds /\ c.reason = None /\ c.status = 0
  BY DEF Sound, IntentSound, TokenSound, ReasonSound, AnswerSound, Intended, Failed,
         Running, Unbounded, Observing
<1> HIDE DEF d
<1>4. Permitted(d)
  BY <1>2, <1>3 DEF Permitted, Evaluation
<1>5. IntentSound(d, "revoking", acks)
  BY <1>2, <1>3, <1>4 DEF IntentSound
<1>6. TokenSound(d, "revoking") /\ ReasonSound(d) /\ AnswerSound(d, "revoking", acks)
  BY <1>2, <1>3 DEF TokenSound, ReasonSound, AnswerSound, Unminted, Failed
<1> QED
  BY <1>1, <1>5, <1>6 DEF d, Sound

LEMMA RejectStep ==
  ASSUME Progress, NEW r \in Request, RejectObservation(r)
  PROVE  Progress'
<1> DEFINE c == exchange[r]
<1>1. UNCHANGED <<cachedPrivateKey, secret, acknowledged>> /\ c.pc \in Observing
  BY DEF RejectObservation
<1>2. cachedPrivateKey' \in Pem \cup {None}
  BY <1>1, Here
<1>3. CASE c.pc = "observe_succeeded"
  <2>1. AfterRejection(c) = [c EXCEPT !.pc = "revoke"]
    BY <1>3 DEF AfterRejection
  <2>2. AfterRejection(c).pc = "revoke"
    BY <2>1, Here, Fields
  <2>3. Goto(r, [c EXCEPT !.pc = "revoke"])
        /\ token' = [token EXCEPT ![r] = "revoking"]
    BY <2>1, <2>2 DEF RejectObservation
  <2>4. [c EXCEPT !.pc = "revoke"] \in Exchange
        /\ Sound([c EXCEPT !.pc = "revoke"], "revoking", acknowledged[r])
    BY <1>3, Here, Parted
  <2>5. acknowledged' = [acknowledged EXCEPT ![r] = acknowledged[r]]
    BY <1>1 DEF Progress, TypeOK
  <2>6. "revoking" \in TokenState /\ acknowledged[r] \in SUBSET Event
    BY Here DEF TokenState
  <2> QED
    BY <1>1, <1>2, <2>3, <2>4, <2>5, <2>6, OwnStep
<1>4. CASE c.pc # "observe_succeeded"
  <2>1. AfterRejection(c) = Answer(c, 500)
    BY <1>4 DEF AfterRejection
  <2>2. AfterRejection(c).pc = "answered"
    BY <2>1, Here, Fields
  <2>3. Goto(r, Answer(c, 500)) /\ token' = [token EXCEPT ![r] = @]
    BY <2>1, <2>2 DEF RejectObservation
  <2>4. token' = token
    BY <2>3 DEF Progress, TypeOK
  <2>5. ~c.holds /\ c.pc \in Running
    BY <1>1, <1>4, Here DEF Sound, TokenSound, Observing, Unminted, Running, Unbounded
  <2>6. Answer(c, 500) \in Exchange /\ Sound(Answer(c, 500), token[r], acknowledged[r])
    BY <2>5, Here, GivesUp
  <2> QED
    BY <1>1, <1>2, <2>3, <2>4, <2>6, QuietStep
<1> QED
  BY <1>3, <1>4

\* Before the mint, an issuance fails with nothing at GitHub; after it, the
\* token may be there.
LEMMA IssuanceFails ==
  ASSUME Progress, NEW r \in Request, NEW reason \in IssuanceFailure, NEW t \in TokenState,
         FailIssuance(r, reason),
         exchange[r].pc \in {"secret", "fingerprint", "import", "sign", "lookup", "mint"},
         t \in {"none", token[r]}, token' = [token EXCEPT ![r] = t],
         UNCHANGED <<cachedPrivateKey, secret, acknowledged>>
  PROVE  Progress'
<1> DEFINE c == exchange[r]
           d == Failing(c, "observe_failed", reason)
<1>1. /\ c.pc \in Running \ Failed /\ c.pc \in Intended /\ c.pc # "idle"
  BY DEF Running, Unbounded, Observing, Failed, Intended
<1>2. /\ c \in Exchange /\ Sound(c, token[r], acknowledged[r])
      /\ c.status = 0 /\ c.arrival \in Arrival
      /\ Permitted(c) /\ "issuance_started" \in acknowledged[r]
  BY <1>1, Here, UnfailedFacts
<1>3. ~c.holds /\ token[r] \in {"none", "requested", "live"}
  BY <1>2 DEF Sound, TokenSound, Unminted
<1>4. d \in Exchange
  BY <1>2, Reasons, ExchangeUpdates DEF Running, Unbounded, Observing
<1>5. /\ d.pc = "observe_failed" /\ d.status = c.status /\ d.arrival = c.arrival
      /\ d.key = c.key /\ d.reason = reason /\ d.holds = c.holds
  BY <1>2, Fields
<1>6. Goto(r, d)
  BY DEF FailIssuance
<1> HIDE DEF d
<1>7. Permitted(d)
  BY <1>2, <1>5 DEF Permitted, Evaluation
<1>8. IntentSound(d, t, acknowledged[r])
  BY <1>2, <1>5, <1>7 DEF IntentSound
<1>9. TokenSound(d, t) /\ ReasonSound(d) /\ AnswerSound(d, t, acknowledged[r])
  BY <1>2, <1>3, <1>5 DEF TokenSound, ReasonSound, AnswerSound, Unminted, Failed
<1>10. acknowledged' = [acknowledged EXCEPT ![r] = acknowledged[r]]
  BY DEF Progress, TypeOK
<1>11. cachedPrivateKey' \in Pem \cup {None} /\ acknowledged[r] \in SUBSET Event
  BY Here
<1> QED
  BY <1>4, <1>6, <1>8, <1>9, <1>10, <1>11, OwnStep DEF Sound

\* An issuance goes on before its mint, whatever it remembers of its key.
LEMMA KeyTaken ==
  ASSUME NEW c \in Exchange, NEW t, NEW acks, NEW pc \in {"fingerprint", "import"},
         NEW key \in Pem \cup {None}, Sound(c, t, acks),
         c.pc \in {"secret", "fingerprint"}
  PROVE  /\ [c EXCEPT !.pc = pc, !.key = key] \in Exchange
         /\ Sound([c EXCEPT !.pc = pc, !.key = key], t, acks)
<1> DEFINE d == [c EXCEPT !.pc = pc, !.key = key]
<1>1. pc \in Running
  BY DEF Running
<1>2. d \in Exchange /\ d.pc = pc /\ d.status = c.status /\ d.arrival = c.arrival
      /\ d.key = key /\ d.reason = c.reason /\ d.holds = c.holds
  BY <1>1 DEF Exchange
<1>3. /\ c.arrival \in Arrival /\ Permitted(c) /\ "issuance_started" \in acks
      /\ ~c.holds /\ c.reason = None /\ c.status = 0 /\ t = "none"
  BY DEF Sound, IntentSound, TokenSound, ReasonSound, AnswerSound, Intended, Unminted, Failed,
         Running, Unbounded
<1> HIDE DEF d
<1>4. Permitted(d)
  BY <1>2, <1>3 DEF Permitted, Evaluation
<1>5. IntentSound(d, t, acks)
  BY <1>2, <1>3, <1>4 DEF IntentSound
<1>6. TokenSound(d, t) /\ ReasonSound(d) /\ AnswerSound(d, t, acks)
  BY <1>2, <1>3 DEF TokenSound, ReasonSound, AnswerSound, Failed
<1> QED
  BY <1>2, <1>5, <1>6 DEF d, Sound

\* An issuance fails before its mint.
LEMMA FailsBeforeMint ==
  ASSUME Progress, NEW r \in Request, NEW reason \in IssuanceFailure,
         FailIssuance(r, reason),
         exchange[r].pc \in {"secret", "fingerprint", "import", "sign", "lookup", "mint"},
         UNCHANGED <<token, cachedPrivateKey, secret, acknowledged>>
  PROVE  Progress'
<1>1. token' = [token EXCEPT ![r] = token[r]] /\ token[r] \in TokenState
  BY DEF Progress, TypeOK
<1> QED
  BY <1>1, IssuanceFails

LEMMA SecretStep ==
  ASSUME Progress, NEW r \in Request, SecretSettles(r)
  PROVE  Progress'
<1> DEFINE c == exchange[r]
           app == c.arrival.app
           key == KeyHistory[app][secret[app]]
<1>1. c.pc = "secret" /\ UNCHANGED <<cachedPrivateKey, secret, acknowledged, token>>
  BY DEF SecretSettles, At
<1>2. CASE Goto(r, [c EXCEPT !.pc = "fingerprint", !.key = key])
  <2>1. c.arrival \in Arrival
    BY <1>1, Here DEF Sound, IntentSound
  <2>2. app \in App
    BY <2>1, ArrivalAssumption
  <2>3. key \in Pem
    BY <2>2, KeyAssumption DEF Progress, TypeOK
  <2> HIDE DEF key
  <2>4. /\ [c EXCEPT !.pc = "fingerprint", !.key = key] \in Exchange
        /\ Sound([c EXCEPT !.pc = "fingerprint", !.key = key], token[r], acknowledged[r])
    BY <1>1, <2>3, Here, KeyTaken
  <2> QED
    BY <1>1, <1>2, <2>4, Here, QuietStep
<1>3. CASE FailIssuance(r, "internal_failure")
  BY <1>1, <1>3, FailsBeforeMint DEF IssuanceFailure
<1> QED
  BY <1>2, <1>3 DEF SecretSettles

LEMMA FingerprintStep ==
  ASSUME Progress, NEW r \in Request, FingerprintSettles(r)
  PROVE  Progress'
<1> DEFINE c == exchange[r]
           key == IF Cached(c.key) THEN cachedPrivateKey ELSE c.key
<1>1. c.pc = "fingerprint" /\ UNCHANGED <<secret, acknowledged, token>>
      /\ Goto(r, [c EXCEPT !.pc = "import", !.key = key]) /\ cachedPrivateKey' = key
  BY DEF FingerprintSettles, At
<1>2. key \in Pem \cup {None}
  BY Here DEF Exchange
<1> HIDE DEF key
<1>3. /\ [c EXCEPT !.pc = "import", !.key = key] \in Exchange
      /\ Sound([c EXCEPT !.pc = "import", !.key = key], token[r], acknowledged[r])
  BY <1>1, <1>2, Here, KeyTaken
<1> QED
  BY <1>1, <1>2, <1>3, QuietStep

\* A private key that is imported goes on to sign, and then to GitHub.
LEMMA KeyStepsOn ==
  ASSUME Progress, NEW r \in Request, exchange[r].pc \in {"import", "sign"},
         UNCHANGED <<cachedPrivateKey, secret, acknowledged, token>>,
         NEW pc \in {"sign", "lookup"},
         Goto(r, [exchange[r] EXCEPT !.pc = pc]) \/ FailIssuance(r, "internal_failure")
  PROVE  Progress'
<1> DEFINE c == exchange[r]
<1>1. CASE Goto(r, [c EXCEPT !.pc = pc])
  <2>1. c.pc \in Running \ Failed /\ c.pc \in Unminted /\ c.pc \in Intended
    BY DEF Running, Failed, Unminted, Intended
  <2>2. /\ [c EXCEPT !.pc = pc] \in Exchange
        /\ Sound([c EXCEPT !.pc = pc], token[r], acknowledged[r])
    BY <2>1, Here, UnfailedFacts, Moved DEF Running, Failed, Unminted, Intended
  <2> QED
    BY <1>1, <2>2, Here, QuietStep
<1>2. CASE FailIssuance(r, "internal_failure")
  BY <1>2, FailsBeforeMint DEF IssuanceFailure
<1> QED
  BY <1>1, <1>2

LEMMA ImportStep ==
  ASSUME Progress, NEW r \in Request, ImportSettles(r)
  PROVE  Progress'
  BY KeyStepsOn DEF ImportSettles, At

LEMMA SignStep ==
  ASSUME Progress, NEW r \in Request, SignSettles(r)
  PROVE  Progress'
  BY KeyStepsOn DEF SignSettles, At

\* What a request that asks for a token, and one that has received it, keeps.
LEMMA Minting ==
  ASSUME NEW c \in Exchange, NEW t, NEW acks, Sound(c, t, acks), c.pc = "lookup"
  PROVE  /\ [c EXCEPT !.pc = "mint"] \in Exchange
         /\ Sound([c EXCEPT !.pc = "mint"], "requested", acks)
<1> DEFINE d == [c EXCEPT !.pc = "mint"]
<1>1. d \in Exchange
  BY ExchangeUpdates DEF Running
<1>2. /\ d.pc = "mint" /\ d.status = c.status /\ d.arrival = c.arrival
      /\ d.key = c.key /\ d.reason = c.reason /\ d.holds = c.holds
  BY Fields
<1>3. /\ c.arrival \in Arrival /\ Permitted(c) /\ "issuance_started" \in acks
      /\ ~c.holds /\ c.reason = None /\ c.status = 0
  BY DEF Sound, IntentSound, TokenSound, ReasonSound, AnswerSound, Intended, Unminted, Failed,
         Running
<1> HIDE DEF d
<1>4. Permitted(d)
  BY <1>2, <1>3 DEF Permitted, Evaluation
<1>5. IntentSound(d, "requested", acks)
  BY <1>2, <1>3, <1>4 DEF IntentSound
<1>6. TokenSound(d, "requested") /\ ReasonSound(d) /\ AnswerSound(d, "requested", acks)
  BY <1>2, <1>3 DEF TokenSound, ReasonSound, AnswerSound, Unminted, Failed
<1> QED
  BY <1>1, <1>5, <1>6 DEF d, Sound

LEMMA Received ==
  ASSUME NEW c \in Exchange, NEW acks, Sound(c, "live", acks), c.pc = "mint"
  PROVE  /\ [c EXCEPT !.pc = "observe_succeeded", !.holds = TRUE] \in Exchange
         /\ Sound([c EXCEPT !.pc = "observe_succeeded", !.holds = TRUE], "live", acks)
<1> DEFINE d == [c EXCEPT !.pc = "observe_succeeded", !.holds = TRUE]
<1>1. "observe_succeeded" \in Running
  BY DEF Running, Unbounded, Observing
<1>2. d \in Exchange /\ d.pc = "observe_succeeded" /\ d.status = c.status
      /\ d.arrival = c.arrival /\ d.key = c.key /\ d.reason = c.reason /\ d.holds = TRUE
  BY <1>1 DEF Exchange
<1>3. /\ c.arrival \in Arrival /\ Permitted(c) /\ "issuance_started" \in acks
      /\ c.reason = None /\ c.status = 0
  BY DEF Sound, IntentSound, ReasonSound, AnswerSound, Intended, Failed, Running
<1> HIDE DEF d
<1>4. Permitted(d)
  BY <1>2, <1>3 DEF Permitted, Evaluation
<1>5. IntentSound(d, "live", acks)
  BY <1>2, <1>3, <1>4 DEF IntentSound
<1>6. TokenSound(d, "live") /\ ReasonSound(d) /\ AnswerSound(d, "live", acks)
  BY <1>2, <1>3 DEF TokenSound, ReasonSound, AnswerSound, Unminted, Failed
<1> QED
  BY <1>2, <1>5, <1>6 DEF d, Sound

LEMMA LookupStep ==
  ASSUME Progress, NEW r \in Request, LookupReplies(r)
  PROVE  Progress'
<1>1. exchange[r].pc = "lookup" /\ UNCHANGED <<cachedPrivateKey, secret, acknowledged>>
  BY DEF LookupReplies, At
<1>2. CASE /\ Goto(r, [exchange[r] EXCEPT !.pc = "mint"])
           /\ token' = [token EXCEPT ![r] = "requested"]
  <2>1. acknowledged' = [acknowledged EXCEPT ![r] = acknowledged[r]]
    BY <1>1 DEF Progress, TypeOK
  <2>2. "requested" \in TokenState
    BY DEF TokenState
  <2> QED
    BY <1>1, <1>2, <2>1, <2>2, Here, Minting, OwnStep
<1>3. CASE /\ \E error \in Refusals \cup Outages \cup {InvalidResponse} :
                FailIssuance(r, IssuanceFailureReason(error))
           /\ UNCHANGED token
  BY <1>1, <1>3, IssuanceReasons, FailsBeforeMint
<1> QED
  BY <1>2, <1>3 DEF LookupReplies

LEMMA MintStep ==
  ASSUME Progress, NEW r \in Request, MintReplies(r)
  PROVE  Progress'
<1>1. exchange[r].pc = "mint" /\ UNCHANGED <<cachedPrivateKey, secret, acknowledged>>
  BY DEF MintReplies, At
<1>2. CASE /\ token[r] = "live"
           /\ Goto(r, [exchange[r] EXCEPT !.pc = "observe_succeeded", !.holds = TRUE])
           /\ UNCHANGED token
  <2> DEFINE d == [exchange[r] EXCEPT !.pc = "observe_succeeded", !.holds = TRUE]
  <2>1. d \in Exchange /\ Sound(d, token[r], acknowledged[r])
    BY <1>1, <1>2, Here, Received
  <2>2. cachedPrivateKey' \in Pem \cup {None}
    BY <1>1, Here
  <2> HIDE DEF d
  <2> QED
    BY <1>1, <1>2, <2>1, <2>2, QuietStep DEF d
<1>3. CASE /\ \E error \in Refusals : FailIssuance(r, IssuanceFailureReason(error))
           /\ token' = [token EXCEPT ![r] = "none"]
  BY <1>1, <1>3, IssuanceReasons, IssuanceFails DEF TokenState
<1>4. CASE /\ \E error \in Outages \cup {InvalidResponse} :
                FailIssuance(r, IssuanceFailureReason(error))
           /\ UNCHANGED token
  BY <1>1, <1>4, IssuanceReasons, FailsBeforeMint
<1> QED
  BY <1>2, <1>3, <1>4 DEF MintReplies

\* Once the answer to the revocation no longer matters, the request ends.
LEMMA Revoked ==
  ASSUME Progress, NEW r \in Request, exchange[r].pc = "revoke",
         Goto(r, Answer(exchange[r], 500)),
         UNCHANGED <<cachedPrivateKey, secret, acknowledged, token>>
  PROVE  Progress'
<1>1. /\ Answer(exchange[r], 500) \in Exchange
      /\ Sound(Answer(exchange[r], 500), token[r], acknowledged[r])
  BY Here, GivesUp DEF Sound, TokenSound, Running
<1> QED
  BY <1>1, Here, QuietStep

LEMMA RevokeStep ==
  ASSUME Progress, NEW r \in Request, RevokeReplies(r)
  PROVE  Progress'
  BY Revoked DEF RevokeReplies, At

LEMMA TransportStep ==
  ASSUME Progress, NEW r \in Request, TransportFails(r)
  PROVE  Progress'
<1>1. exchange[r].pc \in HasDeadline /\ UNCHANGED <<cachedPrivateKey, secret, acknowledged, token>>
  BY DEF TransportFails
<1>2. CASE exchange[r].pc = "revoke"
  BY <1>1, <1>2, Revoked DEF TransportFails, AfterTransportFailure
<1>3. CASE exchange[r].pc # "revoke"
  <2>1. FailIssuance(r, IssuanceFailureReason(Transport))
    BY <1>3 DEF TransportFails, AfterTransportFailure, FailIssuance
  <2>2. exchange[r].pc \in {"lookup", "mint"}
    BY <1>1, <1>3 DEF HasDeadline
  <2> QED
    BY <1>1, <2>1, <2>2, IssuanceReasons, FailsBeforeMint
<1> QED
  BY <1>2, <1>3

-----------------------------------------------------------------------------
(* Late work of GitHub, drops, restarts and rotations keep the invariant.   *)

\* GitHub creates a token nobody can have been answered about.
LEMMA MintsStep ==
  ASSUME Progress, NEW r \in Request, GitHubMints(r)
  PROVE  Progress'
<1> DEFINE c == exchange[r]
<1>1. Sound(c, "requested", acknowledged[r])
  BY Here DEF GitHubMints
<1>2. Sound(c, "live", acknowledged[r])
  BY <1>1 DEF Sound, IntentSound, TokenSound, AnswerSound
<1>3. /\ Goto(r, c) /\ acknowledged' = [acknowledged EXCEPT ![r] = acknowledged[r]]
      /\ token' = [token EXCEPT ![r] = "live"] /\ UNCHANGED <<secret, cachedPrivateKey>>
  BY DEF GitHubMints, Progress, TypeOK, Goto
<1> QED
  BY <1>2, <1>3, Here, OwnStep DEF TokenState

LEMMA RevokesStep ==
  ASSUME Progress, NEW r \in Request, GitHubRevokes(r)
  PROVE  Progress'
<1> DEFINE c == exchange[r]
<1>1. Sound(c, "revoking", acknowledged[r])
  BY Here DEF GitHubRevokes
<1>2. Sound(c, "revoked", acknowledged[r])
  BY <1>1 DEF Sound, IntentSound, TokenSound, AnswerSound
<1>3. /\ Goto(r, c) /\ acknowledged' = [acknowledged EXCEPT ![r] = acknowledged[r]]
      /\ token' = [token EXCEPT ![r] = "revoked"] /\ UNCHANGED <<secret, cachedPrivateKey>>
  BY DEF GitHubRevokes, Progress, TypeOK, Goto
<1> QED
  BY <1>2, <1>3, Here, OwnStep DEF TokenState

LEMMA DroppedSound ==
  ASSUME Progress, NEW r \in Request
  PROVE  Dropped(r) \in Exchange /\ Sound(Dropped(r), token[r], acknowledged[r])
<1> DEFINE c == exchange[r]
           d == [c EXCEPT !.pc = "dropped"]
<1>1. CASE c.pc \in Running
  <2>1. Dropped(r) = d
    BY <1>1 DEF Dropped
  <2>2. d \in Exchange
    BY Here, ExchangeUpdates DEF Ended
  <2>3. /\ d.pc = "dropped" /\ d.status = c.status /\ d.arrival = c.arrival
        /\ d.key = c.key /\ d.reason = c.reason /\ d.holds = c.holds
    BY Here, Fields
  <2>4. c.arrival \in Arrival /\ c.status = 0
    BY <1>1, Here DEF Sound, IntentSound, AnswerSound, Running, Unbounded, Observing
  <2>5. c.key # None \/ token[r] # "none" =>
          Permitted(c) /\ "issuance_started" \in acknowledged[r]
    BY Here DEF Sound, IntentSound
  <2> HIDE DEF d
  <2>6. Permitted(d) <=> Permitted(c)
    BY <2>3 DEF Permitted, Evaluation
  <2>7. IntentSound(d, token[r], acknowledged[r])
    BY <2>3, <2>4, <2>5, <2>6 DEF IntentSound, Intended
  <2>8. TokenSound(d, token[r]) /\ ReasonSound(d) /\ AnswerSound(d, token[r], acknowledged[r])
    BY <2>3, <2>4 DEF TokenSound, ReasonSound, AnswerSound, Unminted, Running, Unbounded,
                      Observing
  <2> QED
    BY <2>1, <2>2, <2>7, <2>8 DEF Sound
<1>2. CASE c.pc \notin Running
  BY <1>2, Here DEF Dropped
<1> QED
  BY <1>1, <1>2

LEMMA DropStep ==
  ASSUME Progress, NEW r \in Request, Drop(r)
  PROVE  Progress'
<1>1. Goto(r, Dropped(r)) /\ UNCHANGED <<cachedPrivateKey, secret, acknowledged, token>>
  BY DEF Drop
<1> QED
  BY <1>1, Here, DroppedSound, QuietStep

LEMMA RestartStep ==
  ASSUME Progress, Restart
  PROVE  Progress'
<1>1. /\ exchange' = [r \in Request |-> Dropped(r)] /\ cachedPrivateKey' = None
      /\ UNCHANGED <<secret, acknowledged, token>>
  BY DEF Restart
<1>2. TypeOK'
  BY <1>1, DroppedSound DEF Progress, TypeOK
<1>3. ASSUME NEW r \in Request PROVE Sound(exchange'[r], token'[r], acknowledged'[r])
  BY <1>1, DroppedSound
<1> QED
  BY <1>2, <1>3 DEF Progress

LEMMA RotateStep ==
  ASSUME Progress, NEW a \in App, RotateKey(a)
  PROVE  Progress'
<1>1. UNCHANGED <<exchange, cachedPrivateKey, acknowledged, token>>
      /\ secret' = [secret EXCEPT ![a] = @ + 1] /\ secret[a] < Len(KeyHistory[a])
  BY DEF RotateKey
<1>2. /\ secret' \in [App -> Nat]
      /\ \A b \in App : secret'[b] = IF b = a THEN secret[a] + 1 ELSE secret[b]
  BY <1>1 DEF Progress, TypeOK
<1>3. ASSUME NEW b \in App PROVE secret'[b] \in 1..Len(KeyHistory[b])
  <2>1. Len(KeyHistory[b]) \in Nat /\ Len(KeyHistory[a]) \in Nat
    BY KeyAssumption
  <2> QED
    BY <1>1, <1>2, <2>1 DEF Progress, TypeOK
<1>4. TypeOK'
  BY <1>1, <1>2, <1>3 DEF Progress, TypeOK
<1>5. ASSUME NEW r \in Request PROVE Sound(exchange'[r], token'[r], acknowledged'[r])
  BY <1>1, Here
<1> QED
  BY <1>4, <1>5 DEF Progress

-----------------------------------------------------------------------------
LEMMA InitSound == Init => Progress
<1> SUFFICES ASSUME Init PROVE Progress
  OBVIOUS
<1>1. TypeOK
  <2>1. \A a \in App : Len(KeyHistory[a]) \in Nat /\ Len(KeyHistory[a]) > 0
    BY KeyAssumption
  <2> QED
    BY <2>1 DEF Init, TypeOK, Exchange, TokenState
<1>2. ASSUME NEW r \in Request PROVE Sound(exchange[r], token[r], acknowledged[r])
  BY DEF Init, Sound, IntentSound, TokenSound, ReasonSound, AnswerSound, Unminted, Intended,
         Failed, Running, Unbounded, Observing
<1> QED
  BY <1>1, <1>2 DEF Progress

LEMMA ProgressStep ==
  ASSUME Progress, [Next]_vars
  PROVE  Progress'
<1>1. ASSUME NEW r \in Request, NEW arrival \in Arrival, Receive(r, arrival) PROVE Progress'
  BY <1>1, ReceiveStep
<1>2. ASSUME NEW r \in Request, Proceed(r) PROVE Progress'
  BY <1>2, AuthenticateStep, FingerprintStep, ImportStep, SignStep, TransportStep
  DEF Proceed, LocalWork
<1>3. ASSUME NEW r \in Request, PlatformSettles(r) PROVE Progress'
  BY <1>3, RateLimitStep, BodyStep, SecretStep, AcknowledgeStep, RejectStep DEF PlatformSettles
<1>4. ASSUME NEW r \in Request, GitHubReplies(r) PROVE Progress'
  BY <1>4, LookupStep, MintStep, RevokeStep DEF GitHubReplies
<1>5. ASSUME NEW r \in Request, GitHubMints(r) \/ GitHubRevokes(r) \/ Drop(r) PROVE Progress'
  BY <1>5, MintsStep, RevokesStep, DropStep
<1>6. CASE UNCHANGED vars
  BY <1>6 DEF vars, Progress, TypeOK, Sound, IntentSound, TokenSound, ReasonSound, AnswerSound,
              Permitted, Evaluation
<1> QED
  BY <1>1, <1>2, <1>3, <1>4, <1>5, <1>6, RestartStep, RotateStep DEF Next, Terminated

\* The invariant the theorems below rest on.
THEOREM ProgressInvariant == Spec => []Progress
<1>1. Progress /\ [Next]_vars => Progress'
  BY ProgressStep
<1> QED
  BY <1>1, InitSound, PTL DEF Spec

\* Requests, keys and tokens stay within their types.
THEOREM TypeCorrect == Spec => []TypeOK
<1>1. Progress => TypeOK
  BY DEF Progress
<1> QED
  BY <1>1, ProgressInvariant, PTL

\* Fail closed: no private key is read and no token asked for without an
\* accepted subject token, a permitting policy and an acknowledged intent,
\* however requests, drops, restarts and late answers interleave.
THEOREM IssuanceJustifiedHolds == Spec => []IssuanceJustified
<1>1. Progress => IssuanceJustified
  BY Here DEF IssuanceJustified, Sound, IntentSound, Permitted
<1> QED
  BY <1>1, ProgressInvariant, PTL

\* A request that holds a token answers with it, or has asked GitHub to
\* revoke it before it answers.
THEOREM TokensAccountedForHolds == Spec => []TokensAccountedFor
<1>1. Progress => TokensAccountedFor
  BY Here DEF TokensAccountedFor, Sound, AnswerSound
<1> QED
  BY <1>1, ProgressInvariant, PTL

\* No answer but 500 reports an outcome the observer has not acknowledged.
THEOREM AnswersAcknowledgedHolds == Spec => []AnswersAcknowledged
<1>1. ASSUME Progress, NEW r \in Request, exchange[r].pc = "answered",
             exchange[r].status # 500, Reached(r)
      PROVE  CASE exchange[r].status = 200 -> "issuance_succeeded" \in acknowledged[r]
               [] exchange[r].reason \in AuthenticationFailure ->
                    "authentication_failed" \in acknowledged[r]
               [] OTHER -> "issuance_failed" \in acknowledged[r]
  <2>1. AnswerSound(exchange[r], token[r], acknowledged[r])
    BY <1>1, Here DEF Sound
  <2>2. None \notin AuthenticationFailure
    BY NoneAssumption, Reasons
  <2>3. CASE exchange[r].status = 200
    BY <1>1, <2>1, <2>2, <2>3 DEF AnswerSound
  <2>4. CASE exchange[r].status # 200 /\ exchange[r].reason \in AuthenticationFailure
    BY <1>1, <2>1, <2>4 DEF AnswerSound
  <2>5. CASE exchange[r].status # 200 /\ exchange[r].reason \notin AuthenticationFailure
    BY <1>1, <2>1, <2>5 DEF AnswerSound, Reached
  <2> QED
    BY <2>3, <2>4, <2>5
<1>2. Progress => AnswersAcknowledged
  BY <1>1 DEF AnswersAcknowledged
<1> QED
  BY <1>2, ProgressInvariant, PTL

\* A client that is told its request was wrong has left nothing at GitHub.
THEOREM ClientErrorsMintNothingHolds == Spec => []ClientErrorsMintNothing
<1>1. Progress => ClientErrorsMintNothing
  BY Here DEF ClientErrorsMintNothing, Sound, AnswerSound
<1> QED
  BY <1>1, ProgressInvariant, PTL

-----------------------------------------------------------------------------
(* The private key.  The shared cache is harmless because a request compares *)
(* the text it has read with the one kept: what it goes on with is always    *)
(* what its own binding gave it.                                             *)

KeySound(c, s) ==
  /\ c.pc # "idle" => c.since <= s[c.arrival.app]
  /\ c.key # None =>
       \E i \in c.since..s[c.arrival.app] : KeyHistory[c.arrival.app][i] = c.key

KeysSound == \A r \in Request : KeySound(exchange[r], secret)

SameKey(c, d) ==
  d.arrival = c.arrival /\ d.since = c.since /\ d.key = c.key /\ c.pc # "idle"

LEMMA SameKeyUpdates ==
  ASSUME NEW c \in Exchange, c.pc # "idle"
  PROVE  /\ \A status : SameKey(c, Answer(c, status))
         /\ \A pc, reason : SameKey(c, Failing(c, pc, reason))
         /\ \A pc : SameKey(c, [c EXCEPT !.pc = pc])
         /\ \A pc : SameKey(c, [c EXCEPT !.pc = pc, !.holds = TRUE])
<1>1. \A status : SameKey(c, Answer(c, status))
  BY DEF Exchange, SameKey, Answer
<1>2. \A pc, reason : SameKey(c, Failing(c, pc, reason))
  BY DEF Exchange, SameKey, Failing
<1>3. \A pc : SameKey(c, [c EXCEPT !.pc = pc])
  BY DEF Exchange, SameKey
<1>4. \A pc : SameKey(c, [c EXCEPT !.pc = pc, !.holds = TRUE])
  BY DEF Exchange, SameKey
<1> QED
  BY <1>1, <1>2, <1>3, <1>4

\* A step of one request keeps the others' keys.
LEMMA OwnKey ==
  ASSUME Progress, KeysSound, NEW r \in Request, NEW d, Goto(r, d), UNCHANGED secret,
         KeySound(d, secret)
  PROVE  KeysSound'
<1>1. ASSUME NEW q \in Request PROVE KeySound(exchange'[q], secret)
  <2>1. exchange'[q] = d \/ exchange'[q] = exchange[q]
    BY DEF Goto, Progress, TypeOK
  <2> QED
    BY <2>1 DEF KeysSound
<1> QED
  BY <1>1 DEF KeysSound

LEMMA KeyKept ==
  ASSUME Progress, KeysSound, NEW r \in Request, NEW d, Goto(r, d), UNCHANGED secret,
         SameKey(exchange[r], d)
  PROVE  KeysSound'
<1>1. KeySound(exchange[r], secret)
  BY DEF KeysSound
<1>2. KeySound(d, secret)
  BY <1>1 DEF KeySound, SameKey
<1> QED
  BY <1>2, OwnKey

\* Most steps of a request have nothing to do with its key.
Keyless(r) ==
  \/ RateLimitSettles(r) \/ BodySettles(r) \/ Authenticate(r) \/ Acknowledge(r)
  \/ RejectObservation(r) \/ ImportSettles(r) \/ SignSettles(r) \/ LookupReplies(r)
  \/ MintReplies(r) \/ RevokeReplies(r) \/ TransportFails(r) \/ Drop(r)

LEMMA KeylessStep ==
  ASSUME Progress, KeysSound, NEW r \in Request, Keyless(r)
  PROVE  KeysSound'
<1> DEFINE c == exchange[r]
<1>1. c.pc # "idle" /\ UNCHANGED secret
  BY DEF Keyless, RateLimitSettles, BodySettles, Authenticate, Acknowledge, RejectObservation,
         ImportSettles, SignSettles, LookupReplies, MintReplies, RevokeReplies, TransportFails, Drop, At,
         HasDeadline, Running, Unbounded, Observing
<1>2. ASSUME NEW d, SameKey(c, d), Goto(r, d) PROVE KeysSound'
  BY <1>1, <1>2, KeyKept
<1>3. ASSUME NEW status, Goto(r, Answer(c, status)) PROVE KeysSound'
  BY <1>1, <1>2, <1>3, Here, SameKeyUpdates
<1>4. ASSUME NEW pc, NEW reason, Goto(r, Failing(c, pc, reason)) PROVE KeysSound'
  BY <1>1, <1>2, <1>4, Here, SameKeyUpdates
<1>5. ASSUME NEW pc, Goto(r, [c EXCEPT !.pc = pc]) PROVE KeysSound'
  BY <1>1, <1>2, <1>5, Here, SameKeyUpdates
<1>6. ASSUME NEW reason, FailIssuance(r, reason) PROVE KeysSound'
  BY <1>4, <1>6 DEF FailIssuance
<1>7. CASE RateLimitSettles(r) \/ BodySettles(r)
  BY <1>3, <1>5, <1>7 DEF RateLimitSettles, BodySettles
<1>8. CASE Authenticate(r)
  BY <1>4, <1>5, <1>8 DEF Authenticate, AfterAuthentication
<1>9. CASE Acknowledge(r)
  BY <1>3, <1>5, <1>9 DEF Acknowledge, Observing
<1>10. CASE RejectObservation(r)
  BY <1>3, <1>5, <1>10 DEF RejectObservation, AfterRejection
<1>11. CASE ImportSettles(r) \/ SignSettles(r) \/ LookupReplies(r)
  BY <1>5, <1>6, <1>11 DEF ImportSettles, SignSettles, LookupReplies
<1>12. CASE MintReplies(r)
  <2>1. CASE Goto(r, [c EXCEPT !.pc = "observe_succeeded", !.holds = TRUE])
    BY <1>1, <1>2, <2>1, Here, SameKeyUpdates
  <2> QED
    BY <1>6, <1>12, <2>1 DEF MintReplies
<1>13. CASE RevokeReplies(r) \/ TransportFails(r)
  BY <1>3, <1>4, <1>13 DEF RevokeReplies, TransportFails, AfterTransportFailure
<1>14. CASE Drop(r)
  BY <1>5, <1>14 DEF Drop, Dropped
<1> QED
  BY <1>7, <1>8, <1>9, <1>10, <1>11, <1>12, <1>13, <1>14 DEF Keyless

\* A request that arrives has no key yet.
LEMMA ReceiveKey ==
  ASSUME Progress, KeysSound, NEW r \in Request, NEW arrival \in Arrival, Receive(r, arrival)
  PROVE  KeysSound'
<1> DEFINE c == [exchange[r] EXCEPT !.arrival = arrival, !.since = secret[arrival.app]]
           Fresh(d) == d.key = None /\ d.since = secret[arrival.app] /\ d.arrival = arrival
<1>1. exchange[r] \in Exchange /\ exchange[r].key = None
  BY Here DEF Receive, At, Sound, IntentSound
<1>2. secret[arrival.app] \in Nat
  BY ArrivalAssumption DEF Progress, TypeOK
<1>3. c \in Exchange /\ Fresh(c)
  BY <1>1, <1>2 DEF Exchange
<1>4. PICK d : Goto(r, d) /\ (d = [c EXCEPT !.pc = "rate_limit"]
                               \/ \E status : d = Answer(c, status))
  BY DEF Receive
<1> HIDE DEF c
<1>5. Fresh(d)
  BY <1>3, <1>4 DEF Exchange, Answer
<1>6. KeySound(d, secret)
  BY <1>2, <1>5 DEF KeySound
<1> QED
  BY <1>4, <1>6, OwnKey DEF Receive

\* The binding's key is current when it is read.
LEMMA SecretKey ==
  ASSUME Progress, KeysSound, NEW r \in Request, SecretSettles(r)
  PROVE  KeysSound'
<1> DEFINE c == exchange[r]
           app == c.arrival.app
           key == KeyHistory[app][secret[app]]
           d == [c EXCEPT !.pc = "fingerprint", !.key = key]
<1>1. c.pc = "secret" /\ UNCHANGED secret /\ c \in Exchange
  BY Here DEF SecretSettles, At
<1>2. CASE Goto(r, d)
  <2>1. d.arrival = c.arrival /\ d.since = c.since /\ d.key = key
    BY <1>1 DEF Exchange
  <2>2. c.since <= secret[app]
    BY <1>1 DEF KeysSound, KeySound
  <2>3. app \in App
    BY <1>1, Here, ArrivalAssumption DEF Sound, IntentSound
  <2>4. secret[app] \in c.since..secret[app]
    BY <1>1, <2>2, <2>3 DEF Progress, TypeOK, Exchange
  <2> HIDE DEF d
  <2>5. KeySound(d, secret)
    BY <2>1, <2>2, <2>4 DEF KeySound
  <2> QED
    BY <1>1, <1>2, <2>5, OwnKey
<1>3. CASE FailIssuance(r, "internal_failure")
  <2>1. SameKey(c, Failing(c, "observe_failed", "internal_failure"))
    BY <1>1, SameKeyUpdates
  <2> QED
    BY <1>1, <1>3, <2>1, KeyKept DEF FailIssuance
<1> QED
  BY <1>2, <1>3 DEF SecretSettles

\* The key the cache is found to hold is the one the request has read.
LEMMA FingerprintKey ==
  ASSUME Progress, KeysSound, NEW r \in Request, FingerprintSettles(r)
  PROVE  KeysSound'
<1> DEFINE c == exchange[r]
           d == [c EXCEPT !.pc = "import", !.key = c.key]
<1>1. Goto(r, d) /\ UNCHANGED secret
  BY DEF FingerprintSettles, Cached
<1>2. SameKey(c, d)
  BY Here DEF FingerprintSettles, At, Exchange, SameKey
<1> QED
  BY <1>1, <1>2, KeyKept

LEMMA RestartKey ==
  ASSUME Progress, KeysSound, Restart
  PROVE  KeysSound'
<1>1. ASSUME NEW r \in Request PROVE KeySound(Dropped(r), secret)
  <2>1. KeySound(exchange[r], secret)
    BY DEF KeysSound
  <2>2. CASE exchange[r].pc \in Running
    <3>1. SameKey(exchange[r], [exchange[r] EXCEPT !.pc = "dropped"])
      BY <2>2, Here, SameKeyUpdates DEF Running, Unbounded, Observing
    <3> QED
      BY <2>1, <2>2, <3>1 DEF KeySound, SameKey, Dropped
  <2>3. CASE exchange[r].pc \notin Running
    BY <2>1, <2>3 DEF Dropped
  <2> QED
    BY <2>2, <2>3
<1> QED
  BY <1>1 DEF Restart, KeysSound

LEMMA RotateKeeps ==
  ASSUME Progress, KeysSound, NEW a \in App, RotateKey(a)
  PROVE  KeysSound'
<1>1. ASSUME NEW r \in Request PROVE KeySound(exchange[r], secret')
  <2> DEFINE c == exchange[r]
             app == c.arrival.app
  <2>1. c.pc = "idle" => c.key = None
    BY Here DEF Sound, IntentSound
  <2>2. CASE c.pc # "idle"
    <3>1. app \in App
      BY <2>2, Here, ArrivalAssumption DEF Sound, IntentSound
    <3>2. secret[app] \in Nat /\ secret'[app] \in Nat /\ secret[app] <= secret'[app]
      BY <3>1 DEF RotateKey, Progress, TypeOK
    <3>3. c.since \in Nat
      BY Here DEF Exchange
    <3>4. KeySound(c, secret)
      BY DEF KeysSound
    <3> QED
      BY <2>2, <3>2, <3>3, <3>4 DEF KeySound
  <2> QED
    BY <2>1, <2>2 DEF KeySound
<1> QED
  BY <1>1 DEF RotateKey, KeysSound

LEMMA KeyStep ==
  ASSUME Progress, KeysSound, [Next]_vars
  PROVE  KeysSound'
<1>1. ASSUME NEW r \in Request, Keyless(r) PROVE KeysSound'
  BY <1>1, KeylessStep
<1>2. ASSUME NEW r \in Request, Proceed(r) \/ PlatformSettles(r) \/ GitHubReplies(r) \/ Drop(r)
      PROVE  KeysSound'
  BY <1>1, <1>2, SecretKey, FingerprintKey
  DEF Keyless, Proceed, LocalWork, PlatformSettles, GitHubReplies
<1>3. ASSUME NEW r \in Request, GitHubMints(r) \/ GitHubRevokes(r) PROVE KeysSound'
  BY <1>3 DEF GitHubMints, GitHubRevokes, KeysSound
<1>4. CASE UNCHANGED vars
  BY <1>4 DEF vars, KeysSound
<1> QED
  BY <1>2, <1>3, <1>4, ReceiveKey, RestartKey, RotateKeeps DEF Next, Terminated

\* Whatever other Apps' requests put into the shared cache, and however keys
\* rotate meanwhile, an App's JWT is signed with a key its own binding has
\* held since the request arrived.
THEOREM KeysCurrentHolds == Spec => []KeysCurrent
<1>1. ASSUME Init, NEW r \in Request PROVE KeySound(exchange[r], secret)
  <2>1. exchange[r].pc = "idle" /\ exchange[r].key = None
    BY <1>1 DEF Init
  <2> QED
    BY <2>1 DEF KeySound
<1>2. Progress /\ KeysSound /\ [Next]_vars => KeysSound'
  BY KeyStep
<1>3. KeysSound => KeysCurrent
  BY DEF KeysSound, KeySound, KeysCurrent
<1>4. Init => KeysSound
  BY <1>1 DEF KeysSound
<1> QED
  BY <1>2, <1>3, <1>4, ProgressInvariant, PTL DEF Spec

=============================================================================
